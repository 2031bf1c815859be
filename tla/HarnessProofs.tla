---------------------------- MODULE HarnessProofs ----------------------------
(***************************************************************************)
(* What TLAPS proves of two parts of the harness, and of the schedules.    *)
(*                                                                         *)
(* Of EvalHost, for any number of generations and writes: that every       *)
(* measured write to the shared store is attributed.  The argument is      *)
(* about intervals.  A sample is active from its entering to its leaving;  *)
(* whoever leaves sees who is still active, and whoever enters later       *)
(* measures nothing that was written before.                               *)
(*                                                                         *)
(* Of DatasetLock, for any corpora, specifications and edits of them: that *)
(* the blind reserve stays blind.  Every lock is that of one draw, whose   *)
(* tiers share no id, and a run holds the lock it was loaded under.        *)
(*                                                                         *)
(* Of ScheduleFires, for any tasks, expressions, calendars, clocks and     *)
(* mishaps: a handler is called at most once for a nominal instant, an     *)
(* open receipt is held by a pass or was given up by one, and a proc that  *)
(* rests has a timer for what is not covered.  The argument has two        *)
(* halves.  Of the store: a pass that has a claim acknowledged left        *)
(* nothing in the writer, and nothing enters it before the pass ends, so   *)
(* what is open and in hand stays open.  Of the wakes: while no kick came, *)
(* the tasks a pass read are the tasks there are, and what was due at its  *)
(* instant and is not covered is still before it.                          *)
(***************************************************************************)
EXTENDS EvalHost, DatasetLock, ScheduleFires, SequenceTheorems, WellFoundedInduction, TLAPS

Active == {"evaluates", "receives", "leaves"}
Places == Active \cup {"generates", "refused", "starts", "enters", "failed", "reported"}

Records == [pc : Places, before : Nat, after : Nat, overlaps : SUBSET Samples, left : Nat,
            succeeded : BOOLEAN]
Hosts == [started : BOOLEAN, closed : BOOLEAN, active : SUBSET Samples,
          completed : Nat, errored : Nat, latest : Nat]

HostTypes ==
    /\ store \in Seq(Samples)
    /\ episodes \subseteq Samples
    /\ host \in Hosts
    /\ sample \in [Samples -> Records]

\* The host's set of active samples is what the samples' places say.
ActiveAreRegistered == \A s \in Samples : s \in host.active <=> sample[s].pc \in Active

\* Leaving numbers the samples; nobody who has not left has a number.
LeavingIsNumbered ==
    \A s \in Samples :
        /\ sample[s].left <= host.completed + host.errored
        /\ sample[s].left >= 1 => sample[s].pc \in {"failed", "reported"}
        /\ sample[s].pc = "reported" => sample[s].left >= 1

\* An episode in the cluster has a client that waits, or that failed after it
\* was sent: one that was answered is over.
EpisodesAreUnanswered ==
    \A s \in episodes :
        /\ sample[s].pc \in {"receives", "leaves", "failed"}
        /\ sample[s].pc = "failed" => sample[s].left >= 1
        /\ ~sample[s].succeeded
        /\ sample[s].before <= Len(store)

\* A measurement lies within the store, and success is known when it ends.
MeasuredWithinStore ==
    \A s \in Samples :
        /\ sample[s].after <= Len(store)
        /\ sample[s].pc \in Active => sample[s].before <= Len(store)
        /\ sample[s].pc = "reported" => sample[s].succeeded
        /\ sample[s].succeeded => sample[s].pc \in {"leaves", "reported"}

\* A write is of a sample that was sent, and of none that had reported.
WritersWereSent ==
    \A n \in 1..Len(store) :
        /\ sample[store[n]].pc \in {"receives", "leaves", "reported", "failed"}
        /\ sample[store[n]].pc = "failed" => sample[store[n]].left >= 1
        /\ sample[store[n]].pc = "reported" => n <= sample[store[n]].after

\* Whoever reported after an active sample had entered names that sample.
LeavingSeesTheActive ==
    \A s, t \in Samples :
        sample[s].pc \in Active /\ sample[t].pc = "reported"
            /\ sample[t].after > sample[s].before
        => s \in sample[t].overlaps

HostInv ==
    /\ HostTypes /\ ActiveAreRegistered /\ LeavingIsNumbered /\ EpisodesAreUnanswered
    /\ MeasuredWithinStore /\ WritersWereSent /\ LeavingSeesTheActive /\ GrowthIsAttributed

-----------------------------------------------------------------------------
\* The steps, as the invariant sees them.  A sample moves and nothing is
\* measured:
OnlyMoves(s, from, to) ==
    /\ sample[s].pc \in from /\ sample'[s].pc \in to
    /\ \A q \in Samples :
        /\ sample'[q].before = sample[q].before /\ sample'[q].after = sample[q].after
        /\ sample'[q].overlaps = sample[q].overlaps /\ sample'[q].left = sample[q].left
        /\ q # s => sample'[q].pc = sample[q].pc /\ sample'[q].succeeded = sample[q].succeeded
    /\ host'.active = host.active
    /\ host'.completed + host'.errored = host.completed + host.errored
    /\ store' = store

Prepares(s) ==
    /\ OnlyMoves(s, {"generates", "starts"}, {"refused", "starts", "enters", "failed"})
    /\ sample'[s].succeeded = sample[s].succeeded
    /\ episodes' = episodes

Converses(s) ==
    /\ OnlyMoves(s, {"evaluates", "receives"}, {"receives", "leaves"})
    /\ episodes' \subseteq episodes \cup {s}
    /\ s \in episodes' => sample'[s].succeeded = sample[s].succeeded
    /\ sample'[s].pc = "receives" => sample'[s].succeeded = sample[s].succeeded

\* It enters, it leaves, its episode writes, or episodes end.
OthersKept(s) == \A q \in Samples \ {s} : sample'[q] = sample[q]

EntersMeasured(s) ==
    /\ sample[s].pc = "enters" /\ sample'[s].pc = "evaluates"
    /\ sample'[s].before = Len(store) /\ sample'[s].overlaps = host.active
    /\ sample'[s].after = sample[s].after /\ sample'[s].left = sample[s].left
    /\ sample'[s].succeeded = sample[s].succeeded
    /\ OthersKept(s)
    /\ host'.active = host.active \cup {s}
    /\ host'.completed + host'.errored = host.completed + host.errored
    /\ store' = store /\ episodes' = episodes

LeavesMeasured(s) ==
    /\ sample[s].pc = "leaves"
    /\ sample'[s].pc = IF sample[s].succeeded THEN "reported" ELSE "failed"
    /\ sample'[s].before = sample[s].before /\ sample'[s].after = Len(store)
    /\ sample'[s].overlaps = sample[s].overlaps \cup (host.active \ {s})
    /\ sample'[s].left = host.completed + host.errored + 1
    /\ sample'[s].succeeded = sample[s].succeeded
    /\ OthersKept(s)
    /\ host'.active = host.active \ {s}
    /\ host'.completed + host'.errored = host.completed + host.errored + 1
    /\ store' = store /\ episodes' = episodes

EpisodeWrites(s) ==
    /\ s \in episodes /\ store' = Append(store, s)
    /\ sample' = sample /\ episodes' = episodes
    /\ host' = host

EpisodesEnd ==
    /\ store' = store /\ sample' = sample /\ episodes' \subseteq episodes
    /\ host'.active = host.active
    /\ host'.completed + host'.errored = host.completed + host.errored

Shaped ==
    \/ EpisodesEnd
    \/ \E s \in Samples : \/ Prepares(s) \/ Converses(s) \/ EntersMeasured(s)
                          \/ LeavesMeasured(s) \/ EpisodeWrites(s)

-----------------------------------------------------------------------------
LEMMA HostTypesInit == HostInit => HostTypes
BY DEF HostInit, HostTypes, Places, Active, Records, Hosts

\* One sample's record takes new fields, the others stay.
LEMMA PlaceEffect ==
    ASSUME HostTypes, NEW s \in Samples, NEW p \in Places, Place(s, p)
    PROVE  /\ sample'[s].pc = p /\ sample'[s].succeeded = sample[s].succeeded
           /\ \A q \in Samples :
                /\ sample'[q].before = sample[q].before /\ sample'[q].after = sample[q].after
                /\ sample'[q].overlaps = sample[q].overlaps /\ sample'[q].left = sample[q].left
                /\ q # s => sample'[q].pc = sample[q].pc /\ sample'[q].succeeded = sample[q].succeeded
           /\ sample' \in [Samples -> Records]
<1>1. sample' = [sample EXCEPT ![s] = [sample[s] EXCEPT !.pc = p]]
    BY DEF Place
<1>2. \A q \in Samples \ {s} : sample'[q] = sample[q]
    BY <1>1 DEF HostTypes
<1>3. sample'[s] = [sample[s] EXCEPT !.pc = p]
    BY <1>1 DEF HostTypes
<1>4. /\ sample'[s].pc = p /\ sample'[s].succeeded = sample[s].succeeded
      /\ sample'[s].before = sample[s].before /\ sample'[s].after = sample[s].after
      /\ sample'[s].overlaps = sample[s].overlaps /\ sample'[s].left = sample[s].left
      /\ sample'[s] \in Records
    BY <1>3 DEF HostTypes, Records
<1>5. sample' \in [Samples -> Records]
    BY <1>1, <1>2, <1>4 DEF HostTypes
<1> QED BY <1>2, <1>4, <1>5

LEMMA EntersEffect ==
    ASSUME HostTypes, NEW s \in Samples, Enters(s)
    PROVE  HostTypes' /\ EntersMeasured(s)
<1> USE DEF HostTypes
<1>1. /\ sample' = [sample EXCEPT ![s] = [sample[s] EXCEPT !.pc = "evaluates",
                            !.before = Len(store), !.overlaps = host.active]]
      /\ host' = [host EXCEPT !.active = host.active \cup {s}]
      /\ store' = store /\ episodes' = episodes /\ sample[s].pc = "enters"
    BY DEF Enters
<1>2. Len(store) \in Nat /\ host.active \in SUBSET Samples BY DEF Hosts
<1>3. OthersKept(s) BY <1>1 DEF OthersKept
<1>4. sample'[s] = [sample[s] EXCEPT !.pc = "evaluates", !.before = Len(store),
                                     !.overlaps = host.active]
    BY <1>1
<1>5. /\ sample'[s].pc = "evaluates" /\ sample'[s].before = Len(store)
      /\ sample'[s].overlaps = host.active /\ sample'[s].after = sample[s].after
      /\ sample'[s].left = sample[s].left /\ sample'[s].succeeded = sample[s].succeeded
      /\ sample'[s] \in Records
  <2>1. sample[s] \in Records
    OBVIOUS
  <2> HIDE DEF HostTypes
  <2> QED BY <1>2, <1>4, <2>1 DEF Places, Active, Records
<1>6. sample' \in [Samples -> Records]
    BY <1>1, <1>3, <1>5 DEF OthersKept
<1>7. /\ host' \in Hosts
      /\ host'.active = host.active \cup {s}
      /\ host'.completed = host.completed /\ host'.errored = host.errored
    BY <1>1 DEF Hosts
<1> QED BY <1>1, <1>3, <1>5, <1>6, <1>7 DEF EntersMeasured

LEMMA LeavesEffect ==
    ASSUME HostTypes, NEW s \in Samples, Leaves(s)
    PROVE  HostTypes' /\ LeavesMeasured(s)
<1> USE DEF HostTypes
<1>1. /\ host' = [host EXCEPT !.active = host.active \ {s},
                              !.completed = host.completed + (IF sample[s].succeeded THEN 1 ELSE 0),
                              !.errored = host.errored + (IF sample[s].succeeded THEN 0 ELSE 1),
                              !.latest = Len(store)]
      /\ sample' = [sample EXCEPT ![s] =
                      [sample[s] EXCEPT !.pc = IF sample[s].succeeded THEN "reported" ELSE "failed",
                              !.after = Len(store), !.overlaps = OverlapsAtLeave(s),
                              !.left = host.completed + host.errored + 1]]
      /\ store' = store /\ episodes' = episodes /\ sample[s].pc = "leaves"
    BY DEF Leaves
<1>2. /\ Len(store) \in Nat /\ host.completed + host.errored + 1 \in Nat
      /\ OverlapsAtLeave(s) = sample[s].overlaps \cup (host.active \ {s})
      /\ OverlapsAtLeave(s) \in SUBSET Samples
    BY DEF OverlapsAtLeave, Records, Hosts, Places
<1> DEFINE p == IF sample[s].succeeded THEN "reported" ELSE "failed"
<1>9. p \in Places BY DEF Places
<1>3. OthersKept(s) BY <1>1 DEF OthersKept
<1>4. sample'[s] = [sample[s] EXCEPT !.pc = p,
                              !.after = Len(store), !.overlaps = OverlapsAtLeave(s),
                              !.left = host.completed + host.errored + 1]
    BY <1>1
<1> HIDE DEF p
<1>5. /\ sample'[s].pc = p
      /\ sample'[s].before = sample[s].before /\ sample'[s].after = Len(store)
      /\ sample'[s].overlaps = OverlapsAtLeave(s)
      /\ sample'[s].left = host.completed + host.errored + 1
      /\ sample'[s].succeeded = sample[s].succeeded
      /\ sample'[s] \in Records
    BY <1>2, <1>4, <1>9, sample[s] \in Records DEF Records
<1>6. sample' \in [Samples -> Records]
    BY <1>1, <1>3, <1>5 DEF OthersKept
<1>7. /\ host' \in Hosts /\ host'.active = host.active \ {s}
      /\ host'.completed + host'.errored = host.completed + host.errored + 1
    <2> DEFINE c == host.completed + (IF sample[s].succeeded THEN 1 ELSE 0)
               e == host.errored + (IF sample[s].succeeded THEN 0 ELSE 1)
    <2>1. c \in Nat /\ e \in Nat /\ c + e = host.completed + host.errored + 1
      <3>1. host.completed \in Nat /\ host.errored \in Nat BY DEF Hosts
      <3>2. CASE sample[s].succeeded BY <3>1, <3>2
      <3>3. CASE ~sample[s].succeeded BY <3>1, <3>3
      <3> QED BY <3>2, <3>3
    <2>2. host' = [host EXCEPT !.active = host.active \ {s}, !.completed = c, !.errored = e,
                              !.latest = Len(store)]
      BY <1>1
    <2> HIDE DEF c, e
    <2> QED BY <1>2, <2>1, <2>2 DEF Hosts
<1> QED BY <1>1, <1>2, <1>3, <1>5, <1>6, <1>7 DEF LeavesMeasured, p

LEMMA ReceivesEffect ==
    ASSUME HostTypes, NEW s \in Samples, Receives(s)
    PROVE  HostTypes' /\ Converses(s)
<1> USE DEF HostTypes
<1>1. /\ sample' = [sample EXCEPT ![s] = [sample[s] EXCEPT !.pc = "leaves", !.succeeded = TRUE]]
      /\ episodes' = episodes \ {s} /\ sample[s].pc = "receives"
      /\ host' = host /\ store' = store
    BY DEF Receives
<1>2. \A q \in Samples \ {s} : sample'[q] = sample[q]
    BY <1>1
<1>3. sample'[s] = [sample[s] EXCEPT !.pc = "leaves", !.succeeded = TRUE]
    BY <1>1
<1>4. /\ sample'[s].pc = "leaves"
      /\ sample'[s].before = sample[s].before /\ sample'[s].after = sample[s].after
      /\ sample'[s].overlaps = sample[s].overlaps /\ sample'[s].left = sample[s].left
      /\ sample'[s] \in Records
    BY <1>3 DEF Places, Active, Records
<1>5. sample' \in [Samples -> Records] BY <1>1, <1>2, <1>4
<1> QED BY <1>1, <1>2, <1>4, <1>5 DEF Converses, OnlyMoves

LEMMA EveryStepIsShaped == HostTypes /\ [HostNext]_hostVars => HostTypes' /\ Shaped
<1> SUFFICES ASSUME HostTypes, [HostNext]_hostVars PROVE HostTypes' /\ Shaped
    OBVIOUS
<1>1. CASE Closes
  <2>1. host' = [host EXCEPT !.closed = TRUE] /\ store' = store /\ sample' = sample
        /\ (episodes' = episodes \/ episodes' = {})
    BY <1>1 DEF Closes
  <2>2. host' \in Hosts /\ host'.active = host.active
        /\ host'.completed = host.completed /\ host'.errored = host.errored
    BY <2>1 DEF HostTypes, Hosts
  <2> QED BY <2>1, <2>2 DEF HostTypes, Shaped, EpisodesEnd
<1>2. ASSUME NEW s \in Samples, SampleSteps(s) PROVE HostTypes' /\ Shaped
  <2>1. CASE RefusesInput(s)
    <3>1. Place(s, "refused") /\ sample[s].pc = "generates" /\ UNCHANGED <<host, store, episodes>>
      BY <2>1 DEF RefusesInput
    <3>2. "refused" \in Places BY DEF Places
    <3>3. HostTypes' /\ Prepares(s)
      BY <3>1, <3>2, PlaceEffect DEF HostTypes, Prepares, OnlyMoves
    <3> QED BY <3>3 DEF Shaped
  <2>2. CASE Generates(s)
    <3>1. Place(s, "starts") /\ sample[s].pc = "generates" /\ UNCHANGED <<host, store, episodes>>
      BY <2>2 DEF Generates
    <3>2. "starts" \in Places BY DEF Places
    <3>3. HostTypes' /\ Prepares(s)
      BY <3>1, <3>2, PlaceEffect DEF HostTypes, Prepares, OnlyMoves
    <3> QED BY <3>3 DEF Shaped
  <2>3. CASE AlreadyStarted(s)
    <3>1. Place(s, "enters") /\ sample[s].pc = "starts" /\ UNCHANGED <<host, store, episodes>>
      BY <2>3 DEF AlreadyStarted
    <3>2. "enters" \in Places BY DEF Places
    <3>3. HostTypes' /\ Prepares(s)
      BY <3>1, <3>2, PlaceEffect DEF HostTypes, Prepares, OnlyMoves
    <3> QED BY <3>3 DEF Shaped
  <2>4. CASE StartIsRefused(s)
    <3>1. Place(s, "failed") /\ sample[s].pc = "starts" /\ UNCHANGED <<host, store, episodes>>
      BY <2>4 DEF StartIsRefused
    <3>2. "failed" \in Places BY DEF Places
    <3>3. HostTypes' /\ Prepares(s)
      BY <3>1, <3>2, PlaceEffect DEF HostTypes, Prepares, OnlyMoves
    <3> QED BY <3>3 DEF Shaped
  <2>5. CASE StartFails(s)
    <3>1. Place(s, "failed") /\ sample[s].pc = "starts" /\ UNCHANGED <<host, store, episodes>>
      BY <2>5 DEF StartFails
    <3>2. "failed" \in Places BY DEF Places
    <3>3. HostTypes' /\ Prepares(s)
      BY <3>1, <3>2, PlaceEffect DEF HostTypes, Prepares, OnlyMoves
    <3> QED BY <3>3 DEF Shaped
  <2>6. CASE Starts(s)
    <3>1. Place(s, "enters") /\ sample[s].pc = "starts" /\ UNCHANGED <<store, episodes>>
          /\ host' = [host EXCEPT !.started = TRUE]
      BY <2>6 DEF Starts
    <3>2. "enters" \in Places BY DEF Places
    <3>3. /\ host' \in Hosts /\ host'.active = host.active
          /\ host'.completed = host.completed /\ host'.errored = host.errored
      BY <3>1 DEF HostTypes, Hosts
    <3>4. HostTypes' /\ Prepares(s)
      BY <3>1, <3>2, <3>3, PlaceEffect DEF HostTypes, Prepares, OnlyMoves
    <3> QED BY <3>4 DEF Shaped
  <2>7. CASE Enters(s) BY <2>7, EntersEffect DEF Shaped
  <2>8. CASE Sends(s)
    <3>1. Place(s, "receives") /\ sample[s].pc = "evaluates" /\ UNCHANGED <<host, store>>
          /\ episodes' = episodes \cup {s}
      BY <2>8 DEF Sends
    <3>2. "receives" \in Places BY DEF Places, Active
    <3>3. HostTypes' /\ OnlyMoves(s, {"evaluates", "receives"}, {"receives", "leaves"})
      BY <3>1, <3>2, PlaceEffect DEF HostTypes, OnlyMoves
    <3>4. Converses(s)
      BY <3>1, <3>2, <3>3, PlaceEffect DEF Converses
    <3> QED BY <3>3, <3>4 DEF Shaped
  <2>9. CASE CannotConnect(s)
    <3>1. Place(s, "leaves") /\ sample[s].pc = "evaluates" /\ UNCHANGED <<host, store>>
          /\ episodes' = episodes
      BY <2>9 DEF CannotConnect
    <3>2. "leaves" \in Places BY DEF Places, Active
    <3>3. HostTypes' /\ OnlyMoves(s, {"evaluates", "receives"}, {"receives", "leaves"})
      BY <3>1, <3>2, PlaceEffect DEF HostTypes, OnlyMoves
    <3>4. Converses(s)
      BY <3>1, <3>2, <3>3, PlaceEffect DEF Converses
    <3> QED BY <3>3, <3>4 DEF Shaped
  <2>12. CASE ReceiveFails(s)
    <3>1. Place(s, "leaves") /\ sample[s].pc = "receives" /\ UNCHANGED <<host, store>>
          /\ (episodes' = episodes \/ episodes' = episodes \ {s})
      BY <2>12 DEF ReceiveFails
    <3>2. "leaves" \in Places BY DEF Places, Active
    <3>3. HostTypes' /\ OnlyMoves(s, {"evaluates", "receives"}, {"receives", "leaves"})
      BY <3>1, <3>2, PlaceEffect DEF HostTypes, OnlyMoves
    <3>4. Converses(s)
      BY <3>1, <3>2, <3>3, PlaceEffect DEF Converses
    <3> QED BY <3>3, <3>4 DEF Shaped
  <2>10. CASE Writes(s)
    BY <2>10 DEF Writes, HostTypes, Shaped, EpisodeWrites
  <2>11. CASE Receives(s) BY <2>11, ReceivesEffect DEF Shaped
  <2>13. CASE LateEpisodeEnds(s)
    BY <2>13 DEF LateEpisodeEnds, HostTypes, Shaped, EpisodesEnd
  <2>14. CASE Leaves(s) BY <2>14, LeavesEffect DEF Shaped
  <2> QED BY <1>2, <2>1, <2>2, <2>3, <2>4, <2>5, <2>6, <2>7, <2>8, <2>9, <2>10, <2>11, <2>12,
             <2>13, <2>14 DEF SampleSteps
<1>3. CASE UNCHANGED hostVars
  BY <1>3 DEF hostVars, HostTypes, Shaped, EpisodesEnd
<1> QED BY <1>1, <1>2, <1>3 DEF HostNext

-----------------------------------------------------------------------------
Typed ==
    /\ \A q \in Samples : /\ sample[q].pc \in Places /\ sample[q].before \in Nat
                          /\ sample[q].after \in Nat /\ sample[q].overlaps \subseteq Samples
                          /\ sample[q].left \in Nat /\ sample[q].succeeded \in BOOLEAN
    /\ host.active \subseteq Samples /\ host.completed + host.errored \in Nat
    /\ episodes \subseteq Samples
    /\ Len(store) \in Nat /\ \A n \in 1..Len(store) : store[n] \in Samples

LEMMA HostTypesTyped == HostTypes => Typed
<1> SUFFICES ASSUME HostTypes PROVE Typed
    OBVIOUS
<1>1. /\ host.active \subseteq Samples /\ host.completed + host.errored \in Nat
      /\ episodes \subseteq Samples
    BY DEF HostTypes, Hosts
<1>2. \A q \in Samples : sample[q] \in Records BY DEF HostTypes
<1>3. Len(store) \in Nat /\ \A n \in 1..Len(store) : store[n] \in Samples
    BY DEF HostTypes
<1> QED BY <1>1, <1>2, <1>3 DEF Typed, Records


\* Entering registers and leaving unregisters; no other step changes who is active.
LEMMA RegisteredStep ==
    ASSUME Typed, Typed', Shaped, ActiveAreRegistered
    PROVE  ActiveAreRegistered'
<1> USE DEF Typed, Active, Places, ActiveAreRegistered
<1>1. CASE EpisodesEnd BY <1>1 DEF EpisodesEnd
<1>2. ASSUME NEW s \in Samples, Prepares(s) PROVE ActiveAreRegistered'
  BY <1>2 DEF Prepares, OnlyMoves
<1>3. ASSUME NEW s \in Samples, Converses(s) PROVE ActiveAreRegistered'
  BY <1>3 DEF Converses, OnlyMoves
<1>4. ASSUME NEW s \in Samples, EntersMeasured(s) PROVE ActiveAreRegistered'
  BY <1>4 DEF EntersMeasured, OthersKept
<1>5. ASSUME NEW s \in Samples, LeavesMeasured(s) PROVE ActiveAreRegistered'
  BY <1>5 DEF LeavesMeasured, OthersKept
<1>6. ASSUME NEW s \in Samples, EpisodeWrites(s) PROVE ActiveAreRegistered'
  BY <1>6 DEF EpisodeWrites
<1> QED BY <1>1, <1>2, <1>3, <1>4, <1>5, <1>6 DEF Shaped

\* The numbers of those who left only grow.
LEMMA NumberedStep ==
    ASSUME Typed, Typed', Shaped, LeavingIsNumbered
    PROVE  LeavingIsNumbered'
<1> USE DEF Typed, Active, Places, LeavingIsNumbered
<1>1. CASE EpisodesEnd BY <1>1 DEF EpisodesEnd
<1>2. ASSUME NEW s \in Samples, Prepares(s) PROVE LeavingIsNumbered'
  BY <1>2 DEF Prepares, OnlyMoves
<1>3. ASSUME NEW s \in Samples, Converses(s) PROVE LeavingIsNumbered'
  BY <1>3 DEF Converses, OnlyMoves
<1>4. ASSUME NEW s \in Samples, EntersMeasured(s) PROVE LeavingIsNumbered'
  BY <1>4 DEF EntersMeasured, OthersKept
<1>5. ASSUME NEW s \in Samples, LeavesMeasured(s) PROVE LeavingIsNumbered'
  BY <1>5 DEF LeavesMeasured, OthersKept
<1>6. ASSUME NEW s \in Samples, EpisodeWrites(s) PROVE LeavingIsNumbered'
  BY <1>6 DEF EpisodeWrites
<1> QED BY <1>1, <1>2, <1>3, <1>4, <1>5, <1>6 DEF Shaped

\* The store only grows.
LEMMA MeasuredStep ==
    ASSUME Typed, Typed', Shaped, MeasuredWithinStore
    PROVE  MeasuredWithinStore'
<1> USE DEF Typed, Active, Places, MeasuredWithinStore
<1>1. CASE EpisodesEnd BY <1>1 DEF EpisodesEnd
<1>2. ASSUME NEW s \in Samples, Prepares(s) PROVE MeasuredWithinStore'
  BY <1>2 DEF Prepares, OnlyMoves
<1>3. ASSUME NEW s \in Samples, Converses(s) PROVE MeasuredWithinStore'
  BY <1>3 DEF Converses, OnlyMoves
<1>4. ASSUME NEW s \in Samples, EntersMeasured(s) PROVE MeasuredWithinStore'
  BY <1>4 DEF EntersMeasured, OthersKept
<1>5. ASSUME NEW s \in Samples, LeavesMeasured(s) PROVE MeasuredWithinStore'
  BY <1>5 DEF LeavesMeasured, OthersKept
<1>6. ASSUME NEW s \in Samples, EpisodeWrites(s) PROVE MeasuredWithinStore'
  BY <1>6 DEF EpisodeWrites
<1> QED BY <1>1, <1>2, <1>3, <1>4, <1>5, <1>6 DEF Shaped

\* An answer ends the episode, and nobody leaves with success but after an answer.
LEMMA EpisodesStep ==
    ASSUME Typed, Typed', Shaped, MeasuredWithinStore, EpisodesAreUnanswered
    PROVE  EpisodesAreUnanswered'
<1> USE DEF Typed, Active, Places, MeasuredWithinStore, EpisodesAreUnanswered
<1>1. CASE EpisodesEnd BY <1>1 DEF EpisodesEnd
<1>2. ASSUME NEW s \in Samples, Prepares(s) PROVE EpisodesAreUnanswered'
  BY <1>2 DEF Prepares, OnlyMoves
<1>3. ASSUME NEW s \in Samples, Converses(s) PROVE EpisodesAreUnanswered'
  BY <1>3 DEF Converses, OnlyMoves
<1>4. ASSUME NEW s \in Samples, EntersMeasured(s) PROVE EpisodesAreUnanswered'
  BY <1>4 DEF EntersMeasured, OthersKept
<1>5. ASSUME NEW s \in Samples, LeavesMeasured(s) PROVE EpisodesAreUnanswered'
  BY <1>5 DEF LeavesMeasured, OthersKept
<1>6. ASSUME NEW s \in Samples, EpisodeWrites(s) PROVE EpisodesAreUnanswered'
  BY <1>6 DEF EpisodeWrites
<1> QED BY <1>1, <1>2, <1>3, <1>4, <1>5, <1>6 DEF Shaped

\* Only an episode writes, and one that was answered is over.
LEMMA WritersStep ==
    ASSUME Typed, Typed', Shaped, EpisodesAreUnanswered, WritersWereSent
    PROVE  WritersWereSent'
<1> USE DEF Typed, Active, Places, EpisodesAreUnanswered, WritersWereSent
<1>1. CASE EpisodesEnd BY <1>1 DEF EpisodesEnd
<1>2. ASSUME NEW s \in Samples, Prepares(s) PROVE WritersWereSent'
  BY <1>2 DEF Prepares, OnlyMoves
<1>3. ASSUME NEW s \in Samples, Converses(s) PROVE WritersWereSent'
  BY <1>3 DEF Converses, OnlyMoves
<1>4. ASSUME NEW s \in Samples, EntersMeasured(s) PROVE WritersWereSent'
  BY <1>4 DEF EntersMeasured, OthersKept
<1>5. ASSUME NEW s \in Samples, LeavesMeasured(s) PROVE WritersWereSent'
  BY <1>5, SMTT(20) DEF LeavesMeasured, OthersKept
<1>6. ASSUME NEW s \in Samples, EpisodeWrites(s) PROVE WritersWereSent'
  BY <1>6 DEF EpisodeWrites
<1> QED BY <1>1, <1>2, <1>3, <1>4, <1>5, <1>6 DEF Shaped

\* Who leaves sees the active; who enters begins after every report so far.
LEMMA SeesStep ==
    ASSUME Typed, Typed', Shaped, ActiveAreRegistered, MeasuredWithinStore, LeavingSeesTheActive
    PROVE  LeavingSeesTheActive'
<1> USE DEF Typed, Active, Places, ActiveAreRegistered, MeasuredWithinStore, LeavingSeesTheActive
<1>1. CASE EpisodesEnd BY <1>1 DEF EpisodesEnd
<1>2. ASSUME NEW s \in Samples, Prepares(s) PROVE LeavingSeesTheActive'
  BY <1>2, SMTT(30) DEF Prepares, OnlyMoves
<1>3. ASSUME NEW s \in Samples, Converses(s) PROVE LeavingSeesTheActive'
  BY <1>3 DEF Converses, OnlyMoves
<1>4. ASSUME NEW s \in Samples, EntersMeasured(s) PROVE LeavingSeesTheActive'
  <2> SUFFICES ASSUME NEW q \in Samples, NEW t \in Samples, sample'[q].pc \in Active,
                      sample'[t].pc = "reported", sample'[t].after > sample'[q].before
               PROVE  q \in sample'[t].overlaps
      OBVIOUS
  <2>1. t # s /\ sample'[t] = sample[t]
      BY <1>4 DEF EntersMeasured, OthersKept
  <2>2. CASE q = s
      BY <1>4, <2>1, <2>2 DEF EntersMeasured
  <2>3. CASE q # s
      <3>1. sample'[q] = sample[q] BY <1>4, <2>3 DEF EntersMeasured, OthersKept
      <3> QED BY <2>1, <3>1
  <2> QED BY <2>2, <2>3
<1>5. ASSUME NEW s \in Samples, LeavesMeasured(s) PROVE LeavingSeesTheActive'
  <2> SUFFICES ASSUME NEW q \in Samples, NEW t \in Samples, sample'[q].pc \in Active,
                      sample'[t].pc = "reported", sample'[t].after > sample'[q].before
               PROVE  q \in sample'[t].overlaps
      OBVIOUS
  <2>1. sample'[s].pc \in {"reported", "failed"}
      BY <1>5 DEF LeavesMeasured
  <2>2. q # s /\ sample'[q] = sample[q]
      BY <1>5, <2>1 DEF LeavesMeasured, OthersKept
  <2>3. CASE t = s
      BY <1>5, <2>2, <2>3 DEF LeavesMeasured
  <2>4. CASE t # s
      <3>1. sample'[t] = sample[t] BY <1>5, <2>4 DEF LeavesMeasured, OthersKept
      <3> QED BY <2>2, <3>1
  <2> QED BY <2>3, <2>4
<1>6. ASSUME NEW s \in Samples, EpisodeWrites(s) PROVE LeavingSeesTheActive'
  BY <1>6 DEF EpisodeWrites
<1> QED BY <1>1, <1>2, <1>3, <1>4, <1>5, <1>6 DEF Shaped

\* Who left keeps what its measurement found, and the store keeps its writes.
LEMMA WhoLeftStays ==
    ASSUME Typed, Shaped, NEW q \in Samples, sample[q].pc \in {"reported", "failed"}
    PROVE  /\ sample'[q].pc = sample[q].pc /\ sample'[q].left = sample[q].left
           /\ sample'[q].before = sample[q].before /\ sample'[q].after = sample[q].after
           /\ sample'[q].overlaps = sample[q].overlaps
<1>1. CASE EpisodesEnd BY <1>1 DEF EpisodesEnd
<1>2. ASSUME NEW s \in Samples, Prepares(s) \/ Converses(s)
      PROVE  sample'[q].pc = sample[q].pc
  BY <1>2 DEF Prepares, Converses, OnlyMoves
<1>3. ASSUME NEW s \in Samples, Prepares(s) \/ Converses(s)
      PROVE  /\ sample'[q].left = sample[q].left
             /\ sample'[q].before = sample[q].before /\ sample'[q].after = sample[q].after
             /\ sample'[q].overlaps = sample[q].overlaps
  BY <1>3 DEF Prepares, Converses, OnlyMoves
<1>4. ASSUME NEW s \in Samples, EntersMeasured(s) \/ LeavesMeasured(s)
      PROVE  sample'[q] = sample[q]
  BY <1>4 DEF EntersMeasured, LeavesMeasured, OthersKept
<1>5. ASSUME NEW s \in Samples, EpisodeWrites(s) PROVE sample'[q] = sample[q]
  BY <1>5 DEF EpisodeWrites
<1> QED BY <1>1, <1>2, <1>3, <1>4, <1>5 DEF Shaped

LEMMA WritesStay ==
    ASSUME HostTypes, Shaped
    PROVE  \A n \in 1..Len(store) : n \in 1..Len(store') /\ store'[n] = store[n]
<1>1. CASE store' = store BY <1>1
<1>2. ASSUME NEW s \in Samples, store' = Append(store, s)
      PROVE  \A n \in 1..Len(store) : n \in 1..Len(store') /\ store'[n] = store[n]
  BY <1>2 DEF HostTypes
<1> QED BY <1>1, <1>2 DEF Shaped, EpisodesEnd, Prepares, Converses, OnlyMoves, EntersMeasured,
                           LeavesMeasured, EpisodeWrites

\* Only leaving makes a report.
LEMMA ReportsByLeaving ==
    ASSUME Typed, Shaped, NEW q \in Samples, sample'[q].pc = "reported",
           sample[q].pc # "reported"
    PROVE  LeavesMeasured(q) /\ sample[q].succeeded
<1>1. ~EpisodesEnd BY DEF EpisodesEnd
<1>2. ASSUME NEW s \in Samples, Prepares(s) \/ Converses(s) PROVE FALSE
  <2>1. sample'[s].pc # "reported" BY <1>2 DEF Prepares, Converses, OnlyMoves
  <2>2. q # s => sample'[q].pc = sample[q].pc BY <1>2 DEF Prepares, Converses, OnlyMoves
  <2> QED BY <2>1, <2>2
<1>3. ASSUME NEW s \in Samples, EntersMeasured(s) PROVE FALSE
  BY <1>3 DEF EntersMeasured, OthersKept
<1>4. ASSUME NEW s \in Samples, EpisodeWrites(s) PROVE FALSE
  BY <1>4 DEF EpisodeWrites
<1>5. ASSUME NEW s \in Samples, LeavesMeasured(s) PROVE s = q
  BY <1>5 DEF LeavesMeasured, OthersKept
<1>6. LeavesMeasured(q) BY <1>1, <1>2, <1>3, <1>4, <1>5 DEF Shaped
<1>7. sample'[q].pc = IF sample[q].succeeded THEN "reported" ELSE "failed"
  BY <1>6 DEF LeavesMeasured
<1> QED BY <1>6, <1>7

\* What the report of q owes a write of t.
Attributed(q, t) ==
    \/ t = q
    \/ t \in sample[q].overlaps
    \/ /\ sample[t].left \in 1..(sample[q].left - 1)
       /\ q \in sample[t].overlaps \/ sample[t].pc = "failed"

LEMMA AttributedStep ==
    ASSUME HostTypes, Typed, Typed', Shaped, ActiveAreRegistered, LeavingIsNumbered,
           MeasuredWithinStore, WritersWereSent, LeavingSeesTheActive, GrowthIsAttributed
    PROVE  GrowthIsAttributed'
<1> SUFFICES ASSUME NEW q \in Samples, sample'[q].pc = "reported",
                    NEW n \in (sample'[q].before + 1)..sample'[q].after
             PROVE  Attributed(q, store[n])'
    BY DEF GrowthIsAttributed, Attributed
<1>1. CASE sample[q].pc = "reported"
  <2>1. /\ sample'[q].left = sample[q].left /\ sample'[q].overlaps = sample[q].overlaps
        /\ n \in (sample[q].before + 1)..sample[q].after
    BY <1>1, WhoLeftStays
  <2>2. n \in 1..Len(store) BY <2>1 DEF MeasuredWithinStore, Typed
  <2>3. store'[n] = store[n] /\ store[n] \in Samples BY <2>2, WritesStay DEF Typed
  <2> DEFINE t == store[n]
  <2>4. Attributed(q, t) BY <1>1, <2>1 DEF GrowthIsAttributed, Attributed
  <2>5. CASE t = q \/ t \in sample[q].overlaps
    BY <2>1, <2>3, <2>5 DEF Attributed
  <2>6. CASE /\ sample[t].left \in 1..(sample[q].left - 1)
             /\ q \in sample[t].overlaps \/ sample[t].pc = "failed"
    <3>1. sample[t].pc \in {"reported", "failed"}
      BY <2>3, <2>6 DEF LeavingIsNumbered, Typed
    <3>2. /\ sample'[t].left = sample[t].left /\ sample'[t].overlaps = sample[t].overlaps
          /\ sample'[t].pc = sample[t].pc
      BY <2>3, <3>1, WhoLeftStays
    <3> QED BY <2>1, <2>3, <2>6, <3>2 DEF Attributed
  <2> QED BY <2>4, <2>5, <2>6 DEF Attributed
<1>2. CASE sample[q].pc # "reported"
  <2>1. LeavesMeasured(q) BY <1>2, ReportsByLeaving
  <2>2. /\ store' = store /\ sample'[q].before = sample[q].before
        /\ sample'[q].after = Len(store) /\ sample[q].pc = "leaves"
        /\ sample'[q].overlaps = sample[q].overlaps \cup (host.active \ {q})
        /\ sample'[q].left = host.completed + host.errored + 1
    BY <2>1 DEF LeavesMeasured
  <2>3. n \in 1..Len(store) /\ n > sample[q].before /\ store[n] \in Samples
    BY <2>2 DEF Typed
  <2> DEFINE t == store[n]
  <2>4. CASE t = q BY <2>2, <2>4 DEF Attributed
  <2>5. CASE t # q /\ sample[t].pc \in Active
    BY <2>2, <2>3, <2>5 DEF Attributed, ActiveAreRegistered
  <2>6. CASE t # q /\ sample[t].pc \notin Active
    <3>1. sample'[t] = sample[t] BY <2>1, <2>3, <2>6 DEF LeavesMeasured, OthersKept
    <3>2. /\ sample[t].pc \in {"reported", "failed"} /\ sample[t].left >= 1
          /\ sample[t].pc = "reported" => n <= sample[t].after
      BY <2>3, <2>6 DEF WritersWereSent, LeavingIsNumbered, Active
    <3>3. sample[t].left \in 1..(sample'[q].left - 1)
      BY <2>2, <2>3, <3>2 DEF LeavingIsNumbered, Typed
    <3>4. sample[t].pc = "reported" => q \in sample[t].overlaps
      BY <2>2, <2>3, <3>2 DEF LeavingSeesTheActive, Active, Typed
    <3> QED BY <2>2, <3>1, <3>2, <3>3, <3>4 DEF Attributed
  <2> QED BY <2>4, <2>5, <2>6
<1> QED BY <1>1, <1>2

-----------------------------------------------------------------------------
(* The invariant is inductive. *)

LEMMA HostInvInit == HostInit => HostInv
<1> SUFFICES ASSUME HostInit PROVE HostInv
    OBVIOUS
<1>1. /\ store = <<>> /\ episodes = {} /\ host.active = {}
      /\ host.completed = 0 /\ host.errored = 0
      /\ \A q \in Samples : /\ sample[q].pc = "generates" /\ sample[q].after = 0
                            /\ sample[q].left = 0 /\ sample[q].succeeded = FALSE
    BY DEF HostInit
<1>2. Len(store) = 0 BY <1>1
<1> QED BY <1>1, <1>2, HostTypesInit
        DEF HostInv, ActiveAreRegistered, LeavingIsNumbered, EpisodesAreUnanswered,
            MeasuredWithinStore, WritersWereSent, LeavingSeesTheActive, GrowthIsAttributed,
            Active

LEMMA HostInvStep == HostInv /\ [HostNext]_hostVars => HostInv'
<1> SUFFICES ASSUME HostInv, [HostNext]_hostVars PROVE HostInv'
    OBVIOUS
<1> USE DEF HostInv
<1>1. HostTypes' /\ Shaped BY EveryStepIsShaped
<1>2. Typed BY HostTypesTyped
<1>3. Typed' BY <1>1, HostTypesTyped, PTL
<1>4. ActiveAreRegistered' BY <1>1, <1>2, <1>3, RegisteredStep
<1>5. LeavingIsNumbered' BY <1>1, <1>2, <1>3, NumberedStep
<1>6. MeasuredWithinStore' BY <1>1, <1>2, <1>3, MeasuredStep
<1>7. EpisodesAreUnanswered' BY <1>1, <1>2, <1>3, EpisodesStep
<1>8. WritersWereSent' BY <1>1, <1>2, <1>3, WritersStep
<1>9. LeavingSeesTheActive' BY <1>1, <1>2, <1>3, SeesStep
<1>10. GrowthIsAttributed' BY <1>1, <1>2, <1>3, AttributedStep
<1> QED BY <1>1, <1>4, <1>5, <1>6, <1>7, <1>8, <1>9, <1>10

\* The invariant holds of every reachable state of the host.
THEOREM HostInvHolds == HostSpec => []HostInv
BY HostInvInit, HostInvStep, PTL DEF HostSpec

\* Every write a report measured is its own sample's, or of a sample it names,
\* or of one that left before and names it or failed.
THEOREM GrowthAttributed == HostSpec => []GrowthIsAttributed
<1>1. HostInv => GrowthIsAttributed BY DEF HostInv
<1> QED BY <1>1, HostInvHolds, PTL

-----------------------------------------------------------------------------
(* DatasetLock: the lock of the evaluation datasets.                       *)

AllIds == UNION {Ids(rows) : rows \in Corpora}

\* The locks that the specifications of a source give of its corpora.
Draws == {d \in [rows : Corpora, s : Specs, version : Generators, canary : 0..MaxCanaries] :
             Drawable(d.rows, d.s, d.s.dev, d.s.milestone)}
Locks == {LockOf(d.rows, d.s, d.version, d.canary) : d \in Draws}

Tiers == {"dev", "milestone", "test"}
IdsOfTier(l, tier) ==
    IF tier = "test" THEN l.test ELSE IF tier = "dev" THEN Range(l.dev) ELSE Range(l.milestone)

LockTypes ==
    /\ corpus \in Corpora /\ spec \in Specs /\ generator \in Generators
    /\ lock \in Locks \cup {NoLock, Truncated}
    /\ artifact \in Generators \cup {0}
    /\ canaries \in 0..MaxCanaries
    /\ freezer \in [pc : {"idle", "writes", "artifacts"}, next : Locks \cup {NoLock},
                    verdict : {"none", "drift", "verified"}]
    /\ runner \in [pc : {"idle", "loads", "runs"}, tier : Tiers \cup {"none"}, split : Seq(AllIds),
                   canary : 0..MaxCanaries, wanted : SUBSET AllIds, under : Locks \cup {NoLock}]
    /\ served \subseteq [tier : Tiers, canary : 0..MaxCanaries, under : Locks, ids : SUBSET AllIds]
    /\ edits \in 0..MaxEdits

\* What the command is about to write, or has just written, is a lock.
FreezerFits ==
    /\ freezer.pc = "writes" => freezer.next \in Locks
    /\ freezer.pc = "artifacts" => lock \in Locks

\* A run is of the tier it was loaded as, under the lock it was loaded by.
RunnerFits ==
    runner.pc # "idle" =>
        /\ runner.tier \in Tiers /\ runner.under \in Locks
        /\ runner.pc = "loads" => Range(runner.split) \subseteq IdsOfTier(runner.under, runner.tier)
        /\ runner.pc = "runs" => runner.wanted \subseteq IdsOfTier(runner.under, runner.tier)

ServedFits == \A x \in served : x.ids \subseteq IdsOfTier(x.under, x.tier)

LockInv == LockTypes /\ FreezerFits /\ RunnerFits /\ ServedFits

\* The ids of a corpus that can be drawn are listed once each.
LEMMA DrawnIds ==
    ASSUME NEW rows \in Corpora, NEW s \in Specs, NoDuplicates(rows),
           NEW ids, ids = IdsOf(Drawn(rows, Seed, s))
    PROVE  /\ ids \in Seq(Ids(rows)) /\ Len(ids) = Len(Drawn(rows, Seed, s))
           /\ \A i, j \in 1..Len(ids) : ids[i] = ids[j] => i = j
<1>1. PICK drawn : drawn = Drawn(rows, Seed, s)
  OBVIOUS
<1>2. drawn \in Seq(rows) /\ IsInjective(ids)
  BY <1>1, DrawAssumption
<1>3. ids = [i \in 1..Len(drawn) |-> drawn[i].id] /\ Len(drawn) \in Nat
  BY <1>1, <1>2 DEF IdsOf
<1>4. \A i \in 1..Len(drawn) : ids[i] \in Ids(rows)
  BY <1>2, <1>3 DEF Ids
<1>5. ids \in Seq(Ids(rows)) /\ Len(ids) = Len(drawn)
  BY <1>3, <1>4
<1> QED BY <1>1, <1>2, <1>5 DEF IsInjective

\* split_ids: the tiers of a draw have the sizes asked for, and the reserve
\* shares no id with the others.
LEMMA TiersPart ==
    ASSUME NEW rows \in Corpora, NEW s \in Specs, NoDuplicates(rows),
           NEW d \in Nat, NEW m \in Nat, LargeEnough(Drawn(rows, Seed, s), d, m),
           NEW t, t = SplitIds(Drawn(rows, Seed, s), d, m)
    PROVE  /\ t.dev \in Seq(AllIds) /\ t.milestone \in Seq(AllIds) /\ t.test \in Seq(AllIds)
           /\ Range(t.dev) \cap Range(t.test) = {} /\ Range(t.milestone) \cap Range(t.test) = {}
           /\ Len(t.dev) = d /\ Len(t.milestone) = m
<1>1. PICK ids : ids = IdsOf(Drawn(rows, Seed, s))
  OBVIOUS
<1>2. /\ ids \in Seq(Ids(rows)) /\ Len(ids) > d + m
      /\ \A i, j \in 1..Len(ids) : ids[i] = ids[j] => i = j
  BY <1>1, DrawnIds DEF LargeEnough
<1>3. /\ t.dev = SubSeq(ids, 1, d) /\ t.milestone = SubSeq(ids, d + 1, d + m)
      /\ t.test = SubSeq(ids, d + m + 1, Len(ids))
  BY <1>1 DEF SplitIds
<1>4. \A i \in 1..Len(ids) : ids[i] \in AllIds
  BY <1>2 DEF AllIds
<1>5. Len(ids) \in Nat
  BY <1>2
<1>6. /\ t.dev \in Seq(AllIds) /\ Len(t.dev) = d
      /\ \A i \in 1..Len(t.dev) : t.dev[i] = ids[i]
  <2>1. \A i \in 1..d : ids[i] \in AllIds
    BY <1>2, <1>4, <1>5
  <2> QED BY <1>3, <2>1, SubSeqProperties
<1>7. /\ t.milestone \in Seq(AllIds) /\ Len(t.milestone) = m
      /\ \A i \in 1..Len(t.milestone) : t.milestone[i] = ids[d + i]
  <2>1. \A i \in (d + 1)..(d + m) : ids[i] \in AllIds
    BY <1>2, <1>4, <1>5
  <2>2. /\ SubSeq(ids, d + 1, d + m) \in Seq(AllIds)
        /\ Len(SubSeq(ids, d + 1, d + m)) = IF d + 1 <= d + m THEN (d + m) - (d + 1) + 1 ELSE 0
        /\ \A i \in 1..((d + m) - (d + 1) + 1) : SubSeq(ids, d + 1, d + m)[i] = ids[d + 1 + i - 1]
    BY <2>1, SubSeqProperties
  <2> QED BY <1>3, <2>2
<1>8. /\ t.test \in Seq(AllIds) /\ Len(t.test) = Len(ids) - (d + m)
      /\ \A i \in 1..Len(t.test) : t.test[i] = ids[d + m + i]
  <2>1. \A i \in (d + m + 1)..Len(ids) : ids[i] \in AllIds
    BY <1>2, <1>4, <1>5
  <2>2. /\ SubSeq(ids, d + m + 1, Len(ids)) \in Seq(AllIds)
        /\ Len(SubSeq(ids, d + m + 1, Len(ids))) =
              IF d + m + 1 <= Len(ids) THEN Len(ids) - (d + m + 1) + 1 ELSE 0
        /\ \A i \in 1..(Len(ids) - (d + m + 1) + 1) :
              SubSeq(ids, d + m + 1, Len(ids))[i] = ids[d + m + 1 + i - 1]
    BY <1>5, <2>1, SubSeqProperties
  <2>3. t.test \in Seq(AllIds) /\ Len(t.test) = Len(ids) - (d + m)
    BY <1>2, <1>3, <1>5, <2>2
  <2>4. ASSUME NEW i \in 1..Len(t.test) PROVE t.test[i] = ids[d + m + i]
    <3>1. i \in 1..(Len(ids) - (d + m + 1) + 1) /\ d + m + 1 + i - 1 = d + m + i
      BY <1>5, <2>3
    <3> QED BY <1>3, <2>2, <3>1
  <2> QED BY <2>3, <2>4
<1>9. ASSUME NEW i \in 1..Len(t.dev), NEW j \in 1..Len(t.test) PROVE t.dev[i] # t.test[j]
  <2>1. i \in 1..Len(ids) /\ d + m + j \in 1..Len(ids) /\ i # d + m + j
    BY <1>2, <1>5, <1>6, <1>8
  <2> QED BY <1>2, <1>6, <1>8, <2>1
<1>10. ASSUME NEW i \in 1..Len(t.milestone), NEW j \in 1..Len(t.test) PROVE t.milestone[i] # t.test[j]
  <2>1. d + i \in 1..Len(ids) /\ d + m + j \in 1..Len(ids) /\ d + i # d + m + j
    BY <1>2, <1>5, <1>7, <1>8
  <2>2. t.milestone[i] = ids[d + i] /\ t.test[j] = ids[d + m + j]
    BY <1>7, <1>8
  <2>3. ids[d + i] # ids[d + m + j]
    <3> DEFINE x == d + i
               y == d + m + j
    <3>1. x \in 1..Len(ids) /\ y \in 1..Len(ids) /\ x # y
      BY <2>1
    <3> HIDE DEF x, y
    <3>2. ids[x] # ids[y]
      BY <1>2, <3>1
    <3> QED BY <3>2 DEF x, y
  <2> QED BY <2>2, <2>3
<1>11. /\ DOMAIN t.dev = 1..Len(t.dev) /\ DOMAIN t.milestone = 1..Len(t.milestone)
       /\ DOMAIN t.test = 1..Len(t.test)
  BY <1>6, <1>7, <1>8
<1>12. Range(t.dev) \cap Range(t.test) = {} /\ Range(t.milestone) \cap Range(t.test) = {}
  <2>1. \A x \in Range(t.test) : \E j \in 1..Len(t.test) : x = t.test[j]
    BY <1>11 DEF Range
  <2>2. \A x \in Range(t.dev) : \E i \in 1..Len(t.dev) : x = t.dev[i]
    BY <1>11 DEF Range
  <2>3. \A x \in Range(t.milestone) : \E i \in 1..Len(t.milestone) : x = t.milestone[i]
    BY <1>11 DEF Range
  <2>4. \A x \in Range(t.dev) : x \notin Range(t.test)
    <3> SUFFICES ASSUME NEW x, x \in Range(t.dev), x \in Range(t.test) PROVE FALSE
      OBVIOUS
    <3>1. PICK i \in 1..Len(t.dev) : x = t.dev[i]
      BY <2>2
    <3>2. PICK j \in 1..Len(t.test) : x = t.test[j]
      BY <2>1
    <3>3. t.dev[i] # t.test[j]
      BY <1>9
    <3> QED BY <3>1, <3>2, <3>3
  <2>5. \A x \in Range(t.milestone) : x \notin Range(t.test)
    <3> SUFFICES ASSUME NEW x, x \in Range(t.milestone), x \in Range(t.test) PROVE FALSE
      OBVIOUS
    <3>1. PICK i \in 1..Len(t.milestone) : x = t.milestone[i]
      BY <2>3
    <3>2. PICK j \in 1..Len(t.test) : x = t.test[j]
      BY <2>1
    <3>3. t.milestone[i] # t.test[j]
      BY <1>10
    <3> QED BY <3>1, <3>2, <3>3
  <2> QED BY <2>4, <2>5
<1> QED BY <1>6, <1>7, <1>8, <1>12

\* A lock names the tiers of one draw, and its reserve is none of the others.
LEMMA LockIs ==
    ASSUME NEW l \in Locks
    PROVE  /\ l.kind = "lock" /\ l.seed = Seed /\ l.canary \in 0..MaxCanaries /\ l.artifact \in Generators
           /\ l.dev \in Seq(AllIds) /\ l.milestone \in Seq(AllIds) /\ l.test \subseteq AllIds
           /\ Range(l.dev) \cap l.test = {} /\ Range(l.milestone) \cap l.test = {}
<1>1. PICK rows \in Corpora, s \in Specs, version \in Generators, canary \in 0..MaxCanaries :
         Drawable(rows, s, s.dev, s.milestone) /\ l = LockOf(rows, s, version, canary)
  BY DEF Locks, Draws
<1>2. s.dev \in Nat /\ s.milestone \in Nat
  BY SpecsAssumption
<1>3. NoDuplicates(rows) /\ LargeEnough(Drawn(rows, Seed, s), s.dev, s.milestone)
  BY <1>1 DEF Drawable
<1>4. PICK t : t = SplitIds(Drawn(rows, Seed, s), s.dev, s.milestone)
  OBVIOUS
<1>5. /\ t.dev \in Seq(AllIds) /\ t.milestone \in Seq(AllIds) /\ t.test \in Seq(AllIds)
      /\ Range(t.dev) \cap Range(t.test) = {} /\ Range(t.milestone) \cap Range(t.test) = {}
  BY <1>2, <1>3, <1>4, TiersPart, ZenonT(40)
<1>6. l = [kind |-> "lock", seed |-> Seed, stratify |-> s.stratify, excluded |-> s.excluded,
           content |-> rows, dev |-> t.dev, milestone |-> t.milestone,
           test |-> Range(t.test), canary |-> canary, artifact |-> version]
  BY <1>1, <1>4 DEF LockOf
<1>7. Range(t.test) \subseteq AllIds
  BY <1>5 DEF Range
<1> QED BY <1>5, <1>6, <1>7

LEMMA LockIsBuilt ==
    ASSUME NEW rows \in Corpora, NEW s \in Specs, NEW v \in Generators, NEW c \in 0..MaxCanaries,
           Drawable(rows, s, s.dev, s.milestone)
    PROVE  LockOf(rows, s, v, c) \in Locks
<1>1. [rows |-> rows, s |-> s, version |-> v, canary |-> c] \in Draws
  BY DEF Draws
<1> QED BY <1>1 DEF Locks

LEMMA ReadableIsLock ==
    ASSUME NEW l \in Locks \cup {NoLock, Truncated}
    PROVE  Readable(l) <=> l \in Locks
BY LockIs DEF Readable, NoLock, Truncated

\* The formal tier that is served is the reserve the lock took the digest of.
LEMMA FormalIsReserve ==
    ASSUME LockTypes, lock \in Locks, FormalTierFits(lock)
    PROVE  FormalSplit(lock) \in Seq(AllIds) /\ Range(FormalSplit(lock)) = lock.test
<1>1. /\ corpus \in Corpora /\ spec \in Specs /\ lock.seed = Seed
      /\ Len(lock.dev) \in Nat /\ Len(lock.milestone) \in Nat
  BY LockIs DEF LockTypes
<1>2. NoDuplicates(corpus) /\ LargeEnough(Drawn(corpus, Seed, spec), Len(lock.dev), Len(lock.milestone))
  BY DEF FormalTierFits, Drawable
<1>3. PICK t : t = SplitIds(Drawn(corpus, Seed, spec), Len(lock.dev), Len(lock.milestone))
  OBVIOUS
<1>4. t.test \in Seq(AllIds)
  BY <1>1, <1>2, <1>3, TiersPart
<1> QED BY <1>1, <1>3, <1>4 DEF FormalSplit, FormalTierFits

\* The command: what it builds is a lock, and it writes it whole or truncated.
LEMMA FreezerKeeps ==
    ASSUME LockInv, Verifies \/ Builds \/ WritesLock \/ WritesArtifacts \/ DeletesLock
    PROVE  LockInv'
<1> USE DEF LockInv
<1>1. UNCHANGED <<corpus, spec, generator, runner, served, edits>>
  BY DEF Verifies, Builds, WritesLock, WritesArtifacts, DeletesLock
<1>2. RunnerFits' /\ ServedFits'
  BY <1>1 DEF RunnerFits, ServedFits
<1>3. CASE Verifies
  <2>1. LockTypes'
    BY <1>3 DEF Verifies, LockTypes
  <2>2. FreezerFits'
    BY <1>3 DEF Verifies, FreezerFits, LockTypes
  <2> QED BY <1>2, <2>1, <2>2
<1>4. CASE Builds
  <2>1. CanaryFor(lock) \in 0..MaxCanaries /\ canaries' \in 0..MaxCanaries
    BY <1>4, LockIs, ReadableIsLock, BoundsAssumption DEF Builds, CanaryFor, LockTypes
  <2>2. LockOf(corpus, spec, generator, CanaryFor(lock)) \in Locks
    BY <1>4, <2>1, LockIsBuilt DEF Builds, LockTypes
  <2>3. /\ freezer' = [freezer EXCEPT !.pc = "writes", !.verdict = "none",
                                      !.next = LockOf(corpus, spec, generator, CanaryFor(lock))]
        /\ UNCHANGED <<lock, artifact>>
    BY <1>4 DEF Builds
  <2>4. LockTypes' /\ FreezerFits'
    BY <1>1, <2>1, <2>2, <2>3 DEF LockTypes, FreezerFits
  <2> QED BY <1>2, <2>4
<1>5. CASE WritesLock
  <2>1. LockTypes' /\ FreezerFits'
    BY <1>1, <1>5 DEF WritesLock, LockTypes, FreezerFits
  <2> QED BY <1>2, <2>1
<1>6. CASE WritesArtifacts
  <2>1. lock.artifact \in Generators
    BY <1>6, LockIs DEF WritesArtifacts, FreezerFits
  <2>2. LockTypes' /\ FreezerFits'
    BY <1>1, <1>6, <2>1 DEF WritesArtifacts, LockTypes, FreezerFits
  <2> QED BY <1>2, <2>2
<1>7. CASE DeletesLock
  <2>1. LockTypes' /\ FreezerFits'
    BY <1>1, <1>7 DEF DeletesLock, LockTypes, FreezerFits
  <2> QED BY <1>2, <2>1
<1> QED BY <1>3, <1>4, <1>5, <1>6, <1>7

\* A tier that is selected is the lock's.
LEMMA SelectKeeps ==
    ASSUME LockInv, lock \in Locks, NEW tier \in Tiers, NEW ids \in Seq(AllIds), NEW canary \in 0..MaxCanaries,
           Range(ids) \subseteq IdsOfTier(lock, tier), Selects(tier, ids, canary),
           UNCHANGED <<corpus, spec, generator, lock, artifact, canaries, freezer, served, edits>>
    PROVE  LockInv'
<1> USE DEF LockInv
<1>1. runner' = [pc |-> "loads", tier |-> tier, split |-> ids, canary |-> canary, wanted |-> {},
                 under |-> lock]
  BY DEF Selects
<1>2. LockTypes'
  BY <1>1 DEF LockTypes
<1>3. FreezerFits' /\ ServedFits'
  BY DEF FreezerFits, ServedFits
<1>4. RunnerFits'
  BY <1>1 DEF RunnerFits
<1> QED BY <1>2, <1>3, <1>4

LEMMA RunnerKeeps ==
    ASSUME LockInv, LoadsTunedTier \/ LoadsFormalTier \/ SelectsPositions \/ RunsSplit
    PROVE  LockInv'
<1> USE DEF LockInv
<1>1. UNCHANGED <<corpus, spec, generator, lock, artifact, canaries, freezer, edits>>
  BY DEF LoadsTunedTier, LoadsFormalTier, SelectsPositions, RunsSplit
<1>2. CASE LoadsTunedTier
  <2>1. lock \in Locks /\ UNCHANGED served
    BY <1>2, ReadableIsLock DEF LoadsTunedTier, LockTypes
  <2>2. lock.dev \in Seq(AllIds) /\ lock.milestone \in Seq(AllIds)
    BY <2>1, LockIs
  <2>3. Selects("dev", lock.dev, 0) => LockInv'
    BY <1>1, <2>1, <2>2, SelectKeeps, BoundsAssumption DEF Tiers, IdsOfTier
  <2>4. Selects("milestone", lock.milestone, 0) => LockInv'
    BY <1>1, <2>1, <2>2, SelectKeeps, BoundsAssumption DEF Tiers, IdsOfTier
  <2> QED BY <1>2, <2>3, <2>4 DEF LoadsTunedTier
<1>3. CASE LoadsFormalTier
  <2>1. lock \in Locks /\ UNCHANGED served /\ FormalTierFits(lock) /\ Selects("test", FormalSplit(lock), lock.canary)
    BY <1>3, ReadableIsLock DEF LoadsFormalTier, LockTypes
  <2>2. FormalSplit(lock) \in Seq(AllIds) /\ Range(FormalSplit(lock)) = lock.test /\ lock.canary \in 0..MaxCanaries
    BY <2>1, FormalIsReserve, LockIs
  <2> QED BY <1>1, <2>1, <2>2, SelectKeeps DEF Tiers, IdsOfTier
<1>4. CASE SelectsPositions
  <2>1. PICK positions \in SUBSET DOMAIN runner.split :
           runner' = [runner EXCEPT !.pc = "runs", !.wanted = PositionSubset(runner.split, positions)]
    BY <1>4 DEF SelectsPositions
  <2>2. PositionSubset(runner.split, positions) \subseteq Range(runner.split)
    BY DEF PositionSubset, Range
  <2>3. Range(runner.split) \subseteq AllIds
    BY DEF LockTypes, Range
  <2>4. UNCHANGED served /\ runner.pc = "loads"
    BY <1>4 DEF SelectsPositions
  <2>5. /\ runner'.pc = "runs" /\ runner'.tier = runner.tier /\ runner'.under = runner.under
        /\ runner'.wanted = PositionSubset(runner.split, positions)
    BY <2>1 DEF LockTypes
  <2>6. LockTypes'
    BY <1>1, <2>1, <2>2, <2>3, <2>4 DEF LockTypes
  <2>7. RunnerFits'
    BY <2>2, <2>4, <2>5 DEF RunnerFits
  <2> QED BY <1>1, <2>4, <2>6, <2>7 DEF FreezerFits, ServedFits
<1>5. CASE RunsSplit
  <2>1. PICK x : /\ x = [tier |-> runner.tier, canary |-> runner.canary, under |-> runner.under,
                         ids |-> runner.wanted \cap Ids(corpus)]
                 /\ served' = served \cup {x}
    BY <1>5 DEF RunsSplit
  <2>2. /\ runner' = [runner EXCEPT !.pc = "idle", !.split = <<>>, !.wanted = {}, !.tier = "none",
                                    !.canary = 0, !.under = NoLock]
        /\ runner.pc = "runs"
    BY <1>5 DEF RunsSplit
  <2>3. x \in [tier : Tiers, canary : 0..MaxCanaries, under : Locks, ids : SUBSET AllIds]
    BY <2>1, <2>2 DEF RunnerFits, LockTypes
  <2>4. x.ids \subseteq IdsOfTier(x.under, x.tier)
    BY <2>1, <2>2 DEF RunnerFits
  <2>5. LockTypes'
    <3>1. runner' \in [pc : {"idle", "loads", "runs"}, tier : Tiers \cup {"none"}, split : Seq(AllIds),
                       canary : 0..MaxCanaries, wanted : SUBSET AllIds, under : Locks \cup {NoLock}]
      <4>1. runner' = [pc |-> "idle", tier |-> "none", split |-> <<>>, canary |-> 0, wanted |-> {},
                       under |-> NoLock]
        BY <2>2 DEF LockTypes
      <4>2. 0 \in 0..MaxCanaries /\ <<>> \in Seq(AllIds)
        BY BoundsAssumption
      <4> QED BY <4>1, <4>2
    <3> QED BY <1>1, <2>1, <2>3, <3>1 DEF LockTypes
  <2>6. runner'.pc = "idle"
    BY <2>2 DEF LockTypes
  <2> QED BY <1>1, <2>1, <2>4, <2>5, <2>6 DEF FreezerFits, RunnerFits, ServedFits
<1> QED BY <1>2, <1>3, <1>4, <1>5

LEMMA UpstreamKeeps ==
    ASSUME LockInv, UpstreamMoves
    PROVE  LockInv'
<1>1. /\ UNCHANGED <<lock, artifact, canaries, freezer, runner, served>>
      /\ corpus' \in Corpora /\ spec' \in Specs /\ generator' \in Generators
      /\ edits' \in 0..MaxEdits
  BY BoundsAssumption DEF UpstreamMoves, LockInv, LockTypes
<1> QED BY <1>1 DEF LockInv, LockTypes, FreezerFits, RunnerFits, ServedFits

LEMMA LockInvHolds == LockSpec => []LockInv
<1>1. LockInit => LockInv
  <2> SUFFICES ASSUME LockInit PROVE LockInv
    OBVIOUS
  <2>1. LockTypes
    BY BoundsAssumption DEF LockInit, LockTypes
  <2> QED BY <2>1 DEF LockInit, LockInv, FreezerFits, RunnerFits, ServedFits
<1>2. LockInv /\ [LockNext]_lockVars => LockInv'
  <2> SUFFICES ASSUME LockInv, [LockNext]_lockVars PROVE LockInv'
    OBVIOUS
  <2>1. CASE UNCHANGED lockVars
    BY <2>1 DEF lockVars, LockInv, LockTypes, FreezerFits, RunnerFits, ServedFits
  <2> QED BY <2>1, FreezerKeeps, RunnerKeeps, UpstreamKeeps DEF LockNext
<1> QED BY <1>1, <1>2, PTL DEF LockSpec

\* Every lock on disk, and every run under it, names the tiers of one draw of
\* one corpus, or the lock is absent or was cut off.
THEOREM LockTypeCorrect == LockSpec => []LockTypes
<1>1. LockInv => LockTypes
  BY DEF LockInv
<1> QED BY <1>1, LockInvHolds, PTL

\* Under one lock no sample of a formal evaluation was run for development or
\* as a milestone (load_split and run_split), whatever upstream serves and the
\* source specifies when the tiers are loaded.
THEOREM BlindKept == LockSpec => []BlindStaysBlind
<1>1. ASSUME LockInv, NEW formal \in served, NEW tuned \in served,
             formal.tier = "test", tuned.tier # "test", formal.under = tuned.under
      PROVE  formal.ids \cap tuned.ids = {}
  <2>1. formal.ids \subseteq IdsOfTier(formal.under, formal.tier)
        /\ tuned.ids \subseteq IdsOfTier(tuned.under, tuned.tier) /\ formal.under \in Locks
    BY <1>1 DEF LockInv, ServedFits, LockTypes
  <2>2. Range(formal.under.dev) \cap formal.under.test = {}
        /\ Range(formal.under.milestone) \cap formal.under.test = {}
    BY <2>1, LockIs
  <2> QED BY <1>1, <2>1, <2>2 DEF IdsOfTier
<1>2. LockInv => BlindStaysBlind
  BY <1>1 DEF BlindStaysBlind
<1> QED BY <1>2, LockInvHolds, PTL
-----------------------------------------------------------------------------
(* ScheduleFires: what a pass holds, what the store has.                   *)

Entities == [created : Nat, own : BOOLEAN, expression : Expressions, function : Functions]
Commits ==
    [op : {"claim"}, fire : Fires, function : Functions]
        \cup [op : {"settle"}, fire : Fires, outcome : {"result", "error"}]

\* The places of a pass that has read its tasks, and of one with a fire in hand.
WithTasks == {"task", "claim", "call", "settle"}
WithFire  == {"claim", "call", "settle"}

StoreTypes ==
    /\ now \in Nat
    /\ declared \in [Tasks -> Entities \cup {Undeclared}]
    /\ \A t \in Tasks : declared[t].created <= now
    /\ receipt \in [Fires -> {"none", "open", "result", "error", "interrupted"}]
    /\ \A f \in Claimed : f[2] <= now
    /\ waiting \in Seq(Commits)
    /\ \A i \in 1..Len(waiting) : waiting[i].fire[2] <= now
    /\ calls \in [Fires -> Nat]

ProcTypes ==
    /\ boot \in {"down", "recovered", "up"}
    /\ graph \in {"none", "paused", "running", "closed"}
    /\ kick \in BOOLEAN /\ broken \in BOOLEAN
    /\ timers \subseteq Nat

PassTypes ==
    /\ pass.at \in {"idle", "context"} \cup WithTasks
    /\ pass.at = "idle" => pass = Idle
    /\ pass.at # "idle" => "observed" \in DOMAIN pass /\ pass.observed \in 0..now
    /\ pass.at \in WithTasks =>
          /\ {"at", "left"} \subseteq DOMAIN pass
          /\ pass.left = [t \in DOMAIN pass.left |-> pass.left[t]]
          /\ DOMAIN pass.left \subseteq Tasks
          /\ \A t \in DOMAIN pass.left : pass.left[t] \in Entities
    /\ pass.at \in WithFire =>
          /\ "fire" \in DOMAIN pass
          /\ pass.fire \in Fires /\ pass.fire[1] \in DOMAIN pass.left
    /\ pass.at = "settle" => pass.outcome \in {"result", "error"}

\* Nothing runs in a process that is not up, and a pass only in a running graph.
Alive ==
    /\ boot # "up" => graph = "none" /\ waiting = <<>>
    /\ pass # Idle => graph = "running"

\* What the writer still holds was given up by a pass of this process, and
\* settles with a result only what was called.
HeldByWriter ==
    \A i \in 1..Len(waiting) :
        /\ waiting[i].fire \in given
        /\ waiting[i].op = "settle" /\ waiting[i].outcome = "result" => calls[waiting[i].fire] = 1

\* A pass whose claim was acknowledged has its fire open, and nothing waits.
HeldByPass ==
    /\ pass.at \in {"call", "settle"} => receipt[pass.fire] = "open" /\ waiting = <<>>
    /\ pass.at = "call" => calls[pass.fire] = 0
    /\ pass.at = "settle" /\ pass.outcome = "result" => calls[pass.fire] = 1

\* The fire in hand is the latest instant of its task that is due.
FireIsLatest ==
    pass.at \in WithFire =>
        LET task == pass.left[pass.fire[1]]
        IN  /\ Parses(task)
            /\ pass.fire[2] <= pass.observed
            /\ \A n \in Nominal[task.expression] : n <= pass.observed => n <= pass.fire[2]

\* While no kick came, the tasks read are as they were read.
ReadIsCurrent ==
    pass.at \in WithTasks /\ ~kick =>
        \A t \in DOMAIN pass.left : declared[t] = pass.left[t] /\ declared[t].own

\* While no kick came, what was due and is not covered is before the pass.
DueIsLeft ==
    pass.at \in WithTasks /\ ~kick /\ AllParse =>
        \A t \in Owned : \A n \in After(declared[t].expression, Floor(t)) :
            n <= pass.observed => t \in DOMAIN pass.left

ScheduleTypes == StoreTypes /\ ProcTypes /\ PassTypes
StoreInv == Alive /\ HeldByWriter /\ HeldByPass /\ CalledOnce /\ OpenIsHeld
WakeInv == FireIsLatest /\ ReadIsCurrent /\ DueIsLeft /\ NothingDueIsSlept
ScheduleInv == ScheduleTypes /\ StoreInv /\ WakeInv

-----------------------------------------------------------------------------
(* Instants.                                                               *)

LEMMA MinOfNats ==
    ASSUME NEW S, S \subseteq Nat, S # {}
    PROVE  Min(S) \in S /\ \A n \in S : Min(S) <= n
<1>1. PICK m \in S : \A n \in S : <<n, m>> \notin OpToRel(<, Nat)
  BY WFMin, NatLessThanWellFounded, Zenon
<1>2. \A n \in S : ~(n < m)
  <2> TAKE n \in S
  <2>1. n \in Nat /\ m \in Nat
    OBVIOUS
  <2> QED BY <1>1, <2>1, Zenon DEF OpToRel
<1>3. \A n \in S : m <= n
  BY <1>2
<1> QED BY <1>3 DEF Min

LEMMA MaxOfNats ==
    ASSUME NEW S, NEW b \in Nat, S \subseteq Nat, S # {}, \A n \in S : n <= b
    PROVE  Max(S) \in S /\ \A n \in S : n <= Max(S)
<1> DEFINE D == {b - n : n \in S}
<1>1. PICK d \in D : \A e \in D : d <= e
  <2>1. D \subseteq Nat
    OBVIOUS
  <2>2. PICK n \in S : TRUE
    OBVIOUS
  <2>3. b - n \in D
    BY <2>2
  <2> QED BY <2>1, <2>3, MinOfNats
<1>2. PICK m \in S : d = b - m
  OBVIOUS
<1>3. \A n \in S : n <= m
  <2> TAKE n \in S
  <2>1. d <= b - n
    BY <1>1
  <2> QED BY <2>1, <1>2
<1> QED BY <1>3 DEF Max

LEMMA FiresFit ==
    /\ \A f \in Fires : f[1] \in Tasks /\ f[2] \in Nat /\ f[2] > 0 /\ f = <<f[1], f[2]>>
    /\ \A t \in Tasks, e \in DOMAIN Nominal : \A n \in Nominal[e] : <<t, n>> \in Fires
BY NominalAssumption DEF Fires

LEMMA LatestFits ==
    ASSUME NEW e \in DOMAIN Nominal, NEW at \in Nat
    PROVE  /\ Latest(e, at) \in 0..at
           /\ Latest(e, at) > 0 => Latest(e, at) \in Nominal[e]
           /\ \A n \in Nominal[e] : n <= at => n <= Latest(e, at)
<1> DEFINE S == {n \in Nominal[e] : n <= at} \cup {0}
<1>1. S \subseteq Nat /\ S # {} /\ \A n \in S : n <= at
  BY NominalAssumption
<1>2. Max(S) \in S /\ \A n \in S : n <= Max(S)
  BY <1>1, MaxOfNats
<1> QED BY <1>1, <1>2 DEF Latest

\* What covers a task: the instant it was declared, and its claimed fires.
LEMMA FloorFits ==
    ASSUME StoreTypes, NEW t \in Tasks
    PROVE  /\ Floor(t) \in Nat
           /\ declared[t].created <= Floor(t)
           /\ \A f \in Claimed : f[1] = t => f[2] <= Floor(t)
           /\ Floor(t) = declared[t].created \/ \E f \in Claimed : f[1] = t /\ f[2] = Floor(t)
<1> DEFINE S == {declared[t].created} \cup {f[2] : f \in {g \in Claimed : g[1] = t}}
<1>1. declared[t].created \in Nat
  BY DEF StoreTypes, Entities, Undeclared
<1>2. S \subseteq Nat /\ S # {} /\ \A n \in S : n <= now
  BY <1>1, FiresFit DEF StoreTypes, Claimed
<1>3. Max(S) \in S /\ \A n \in S : n <= Max(S)
  BY <1>2, MaxOfNats DEF StoreTypes
<1> QED BY <1>2, <1>3 DEF Floor

LEMMA FloorFitsNext ==
    ASSUME StoreTypes', NEW t \in Tasks
    PROVE  /\ Floor(t)' \in Nat
           /\ declared'[t].created <= Floor(t)'
           /\ \A f \in Claimed' : f[1] = t => f[2] <= Floor(t)'
<1> DEFINE S == {declared'[t].created} \cup {f[2] : f \in {g \in Claimed' : g[1] = t}}
<1>1. declared'[t].created \in Nat
  BY DEF StoreTypes, Entities, Undeclared
<1>2. S \subseteq Nat /\ S # {} /\ \A n \in S : n <= now'
  <2>1. \A f \in Claimed' : f \in Fires /\ f[2] <= now'
    BY DEF StoreTypes, Claimed
  <2>2. \A f \in Fires : f[2] \in Nat
    BY FiresFit
  <2>3. declared'[t].created <= now'
    BY DEF StoreTypes
  <2> QED BY <1>1, <2>1, <2>2, <2>3
<1>3. Max(S) \in S /\ \A n \in S : n <= Max(S)
  BY <1>2, MaxOfNats DEF StoreTypes
<1> QED BY <1>2, <1>3 DEF Floor

\* A task's floor never falls while its declaration stands.
LEMMA FloorGrows ==
    ASSUME StoreTypes, StoreTypes', NEW t \in Tasks,
           Claimed \subseteq Claimed', declared'[t].created = declared[t].created
    PROVE  Floor(t) \in Nat /\ Floor(t)' \in Nat /\ Floor(t) <= Floor(t)'
<1>1. CASE Floor(t) = declared[t].created
  BY <1>1, FloorFits, FloorFitsNext
<1>2. CASE \E f \in Claimed : f[1] = t /\ f[2] = Floor(t)
  BY <1>2, FloorFits, FloorFitsNext
<1> QED BY <1>1, <1>2, FloorFits

\* A function with nothing in its domain is the empty sequence.
LEMMA EmptyIsEmpty ==
    ASSUME NEW g, g = [t \in DOMAIN g |-> g[t]]
    PROVE  g = <<>> <=> DOMAIN g = {}
<1>1. ASSUME DOMAIN g = {} PROVE g = <<>>
  <2>1. g = [t \in {} |-> g[t]]
    BY <1>1, Zenon
  <2> QED BY <2>1
<1> QED BY <1>1

-----------------------------------------------------------------------------
(* The writer.                                                             *)

\* A commit writes one receipt: a claim opens it, a settlement closes it.
LEMMA WrittenFits ==
    ASSUME StoreTypes, NEW w \in Commits
    PROVE  /\ Written(w) \in [Fires -> {"none", "open", "result", "error", "interrupted"}]
           /\ \A f \in Fires : f # w.fire => Written(w)[f] = receipt[f]
           /\ w.op = "claim" =>
                 Written(w)[w.fire] = IF receipt[w.fire] = "none" /\ Matches(w) THEN "open"
                                      ELSE receipt[w.fire]
           /\ w.op = "settle" =>
                 Written(w)[w.fire] = IF receipt[w.fire] = "open" THEN w.outcome ELSE receipt[w.fire]
<1>1. CASE w \in [op : {"claim"}, fire : Fires, function : Functions]
  BY <1>1 DEF StoreTypes, Written, Takes
<1>2. CASE w \in [op : {"settle"}, fire : Fires, outcome : {"result", "error"}]
  BY <1>2 DEF StoreTypes, Written, Takes
<1> QED BY <1>1, <1>2 DEF Commits

\* Commits of the store take no claim back.
LEMMA WrittenClaims ==
    ASSUME StoreTypes, NEW w \in Commits, receipt' = Written(w)
    PROVE  Claimed \subseteq Claimed' /\ Claimed' \subseteq Claimed \cup {w.fire}
<1>1. w.fire \in Fires /\ w.op \in {"claim", "settle"}
      /\ (w.op = "settle" => w.outcome \in {"result", "error"})
  BY DEF Commits
<1>2. \A f \in Fires : f # w.fire => receipt'[f] = receipt[f]
  BY WrittenFits
<1>3. receipt[w.fire] # "none" => receipt'[w.fire] # "none"
  BY <1>1, WrittenFits
<1> QED BY <1>1, <1>2, <1>3 DEF Claimed

\* What a pass asks of the writer is a commit.
LEMMA AskedCommits ==
    ASSUME ScheduleTypes
    PROVE  /\ pass.at = "claim" => ThisClaim \in Commits /\ ThisClaim.fire = pass.fire
           /\ pass.at = "settle" => Settlement(pass.fire, pass.outcome) \in Commits
           /\ pass.at \in WithFire => pass.fire[2] \in Nat
<1>1. ASSUME pass.at \in WithFire
      PROVE  pass.fire \in Fires /\ pass.left[pass.fire[1]].function \in Functions
  BY <1>1 DEF ScheduleTypes, PassTypes, WithFire, WithTasks, Entities
<1>2. pass.at = "settle" => pass.outcome \in {"result", "error"}
  BY DEF ScheduleTypes, PassTypes
<1>3. pass.at = "claim" => ThisClaim \in Commits /\ ThisClaim.fire = pass.fire
  BY <1>1 DEF WithFire, ThisClaim, Claim, Commits
<1>4. pass.at = "settle" => Settlement(pass.fire, pass.outcome) \in Commits
  BY <1>1, <1>2 DEF WithFire, Settlement, Commits
<1> QED BY <1>1, <1>3, <1>4, FiresFit

LEMMA StoreTypesStep ==
    ASSUME ScheduleInv, ScheduleNext
    PROVE  StoreTypes'
<1> USE DEF ScheduleInv, ScheduleTypes
<1>1. CASE WriterCommits
  <2> DEFINE w == Head(waiting)
  <2>1. waiting \in Seq(Commits) /\ waiting # <<>>
    BY <1>1 DEF WriterCommits, StoreTypes
  <2>2. w \in Commits /\ w = waiting[1] /\ w.fire[2] <= now
    BY <2>1 DEF StoreTypes
  <2>3. /\ waiting' \in Seq(Commits)
        /\ \A i \in 1..Len(waiting') : i + 1 \in 1..Len(waiting) /\ waiting'[i] = waiting[i + 1]
    BY <1>1, <2>1 DEF WriterCommits
  <2>4. receipt' \in [Fires -> {"none", "open", "result", "error", "interrupted"}]
        /\ Claimed' \subseteq Claimed \cup {w.fire}
    BY <1>1, <2>2, WrittenFits, WrittenClaims DEF WriterCommits
  <2>5. \A f \in Claimed' : f[2] <= now
    BY <2>2, <2>4 DEF StoreTypes
  <2> QED BY <1>1, <2>3, <2>4, <2>5 DEF WriterCommits, StoreTypes
<1>2. CASE TaskChanges
  <2>1. PICK t \in Tasks, task \in Entities :
            /\ Changes(t, task) /\ task.created <= now
    <3>1. PICK t \in Tasks :
             \/ /\ ~Declared(t)
                /\ \E e \in Expressions, f \in Functions : Changes(t, Task(f, e))
             \/ /\ Declared(t)
                /\ \/ \E e \in Expressions \ {declared[t].expression} :
                         Changes(t, [declared[t] EXCEPT !.expression = e])
                   \/ \E f \in Functions \ {declared[t].function} :
                         Changes(t, [declared[t] EXCEPT !.function = f])
                   \/ Changes(t, [declared[t] EXCEPT !.own = ~@])
      BY <1>2 DEF TaskChanges
    <3>2. \A e \in Expressions, f \in Functions :
             Task(f, e) \in Entities /\ Task(f, e).created <= now
      BY DEF Task, Entities, StoreTypes
    <3>3. Declared(t) => declared[t] \in Entities /\ declared[t].created <= now
      BY DEF StoreTypes, Declared
    <3>4. ASSUME declared[t] \in Entities, NEW e \in Expressions, NEW f \in Functions
          PROVE  /\ [declared[t] EXCEPT !.expression = e] \in Entities
                 /\ [declared[t] EXCEPT !.expression = e].created = declared[t].created
                 /\ [declared[t] EXCEPT !.function = f] \in Entities
                 /\ [declared[t] EXCEPT !.function = f].created = declared[t].created
                 /\ [declared[t] EXCEPT !.own = ~@] \in Entities
                 /\ [declared[t] EXCEPT !.own = ~@].created = declared[t].created
      BY <3>4 DEF Entities
    <3>5. CASE ~Declared(t)
      BY <3>1, <3>2, <3>5
    <3>6. CASE Declared(t)
      <4>1. Expressions # {} /\ Functions # {}
        BY <3>3, <3>6 DEF Entities
      <4> QED BY <3>1, <3>3, <3>4, <3>6, <4>1
    <3> QED BY <3>5, <3>6
  <2> QED BY <2>1 DEF Changes, StoreTypes, Claimed
<1>3. CASE PassClaims
  <2>1. ThisClaim \in Commits /\ ThisClaim.fire = pass.fire /\ receipt' = Written(ThisClaim)
    BY <1>3, AskedCommits DEF PassClaims
  <2>2. pass.fire[2] <= now
    BY <1>3, FiresFit DEF PassClaims, WakeInv, FireIsLatest, PassTypes, WithFire, WithTasks, StoreTypes
  <2>3. receipt' \in [Fires -> {"none", "open", "result", "error", "interrupted"}]
        /\ Claimed' \subseteq Claimed \cup {pass.fire}
    BY <2>1, WrittenFits, WrittenClaims
  <2>4. \A f \in Claimed' : f[2] <= now
    BY <2>2, <2>3 DEF StoreTypes
  <2> QED BY <1>3, <2>3, <2>4 DEF PassClaims, StoreTypes
<1>4. CASE PassCallsHandler
  BY <1>4 DEF PassCallsHandler, storeVars, StoreTypes, Claimed
<1>5. CASE PassSettles
  <2> DEFINE w == Settlement(pass.fire, pass.outcome)
  <2>1. w \in Commits /\ w.fire = pass.fire /\ receipt' = Written(w)
    BY <1>5, AskedCommits DEF PassSettles, Settlement
  <2>2. pass.fire[2] <= now
    BY <1>5, FiresFit DEF PassSettles, WakeInv, FireIsLatest, PassTypes, WithFire, WithTasks, StoreTypes
  <2>3. receipt' \in [Fires -> {"none", "open", "result", "error", "interrupted"}]
        /\ Claimed' \subseteq Claimed \cup {pass.fire}
    BY <2>1, WrittenFits, WrittenClaims
  <2>4. \A f \in Claimed' : f[2] <= now
    BY <2>2, <2>3 DEF StoreTypes
  <2> QED BY <1>5, <2>3, <2>4 DEF PassSettles, StoreTypes
<1>6. CASE WriterRefusesPass
  <2>1. CASE waiting' = waiting
    BY <1>6, <2>1 DEF WriterRefusesPass, storeVars, StoreTypes, Claimed
  <2>2. PICK w \in Commits : waiting' \in {waiting, Append(waiting, w)} /\ w.fire = pass.fire
    BY <1>6, AskedCommits DEF WriterRefusesPass, Settlement
  <2>3. pass.fire[2] <= now
    BY <1>6, FiresFit DEF WriterRefusesPass, WakeInv, FireIsLatest, PassTypes, WithFire, WithTasks, StoreTypes
  <2>4. CASE waiting' = Append(waiting, w)
    <3>1. waiting' \in Seq(Commits) /\ \A i \in 1..Len(waiting') : waiting'[i].fire[2] <= now
      BY <2>2, <2>3, <2>4 DEF StoreTypes
    <3> QED BY <1>6, <3>1 DEF WriterRefusesPass, storeVars, StoreTypes, Claimed
  <2> QED BY <2>1, <2>2, <2>4
<1>7. CASE PassStarts \/ PassReadsTasks \/ PassConsidersTask \/ PassEnds
  BY <1>7 DEF PassStarts, PassReadsTasks, PassConsidersTask, PassEnds, storeVars, StoreTypes, Claimed
<1>8. CASE ClockTicks
  <2>1. \A t \in Tasks : declared[t].created \in Nat
    BY DEF StoreTypes, Entities, Undeclared
  <2>2. \A i \in 1..Len(waiting) : waiting[i].fire[2] \in Nat
    <3> TAKE i \in 1..Len(waiting)
    <3>1. waiting[i] \in Commits
      BY DEF StoreTypes
    <3>2. waiting[i].fire \in Fires
      BY <3>1 DEF Commits
    <3> QED BY <3>2, FiresFit
  <2>3. \A f \in Claimed : f[2] \in Nat
    BY FiresFit DEF Claimed
  <2>4. /\ now' = now + 1 /\ now \in Nat
        /\ declared' = declared /\ receipt' = receipt /\ waiting' = waiting /\ calls' = calls
    BY <1>8 DEF ClockTicks, storeVars, StoreTypes
  <2>5. Claimed' = Claimed
    BY <2>4 DEF Claimed
  <2>6. \A t \in Tasks : declared[t].created <= now + 1
    BY <2>1, <2>4 DEF StoreTypes
  <2>7. \A i \in 1..Len(waiting) : waiting[i].fire[2] <= now + 1
    BY <2>2, <2>4 DEF StoreTypes
  <2>8. \A f \in Claimed : f[2] <= now + 1
    BY <2>3, <2>4 DEF StoreTypes
  <2>9. /\ declared \in [Tasks -> Entities \cup {Undeclared}]
        /\ receipt \in [Fires -> {"none", "open", "result", "error", "interrupted"}]
        /\ waiting \in Seq(Commits) /\ calls \in [Fires -> Nat] /\ now + 1 \in Nat
    BY <2>4 DEF StoreTypes
  <2> HIDE DEF Claimed
  <2> QED BY <2>4, <2>5, <2>6, <2>7, <2>8, <2>9 DEF StoreTypes
<1>9. CASE TimerKicks \/ ScheduleStarts \/ ScheduleResumes \/ SchedulePauses \/ ScheduleStops
  BY <1>9 DEF TimerKicks, ScheduleStarts, ScheduleResumes, SchedulePauses, ScheduleStops,
              GraphTransition, storeVars, StoreTypes, Claimed
<1>10. CASE ProcessExits
  BY <1>10 DEF ProcessExits, storeVars, StoreTypes, Claimed
<1>11. CASE BootRecovers
  BY <1>11 DEF BootRecovers, Unfinished, StoreTypes, Claimed
<1>12. CASE BootSeeds
  <2>1. ASSUME NEW t \in Tasks
        PROVE  declared'[t] \in Entities \cup {Undeclared} /\ declared'[t].created <= now
    BY <1>12, PortfolioAssumption DEF BootSeeds, Task, Entities, StoreTypes
  <2>2. declared' \in [Tasks -> Entities \cup {Undeclared}]
    BY <1>12, <2>1 DEF BootSeeds
  <2> QED BY <1>12, <2>1, <2>2 DEF BootSeeds, StoreTypes, Claimed
<1> QED BY <1>1, <1>2, <1>3, <1>4, <1>5, <1>6, <1>7, <1>8, <1>9, <1>10, <1>11, <1>12
        DEF ScheduleNext, Pass

LEMMA ProcTypesStep ==
    ASSUME ScheduleInv, ScheduleNext
    PROVE  ProcTypes'
<1> USE DEF ScheduleInv, ScheduleTypes
<1>1. CASE PassEnds
  <2>1. ASSUME AllParse, EarliestNext # {}, pass.at = "task"
        PROVE  Min(EarliestNext) \in Nat
    <3>1. EarliestNext \subseteq Nat
      BY <2>1, NominalAssumption DEF EarliestNext, After, AllParse, Parses
    <3> QED BY <2>1, <3>1, MinOfNats
  <2> QED BY <1>1, <2>1 DEF PassEnds, Throws, ProcTypes
<1>2. CASE PassStarts \/ PassReadsTasks \/ PassConsidersTask \/ PassClaims \/ PassCallsHandler
           \/ PassSettles \/ WriterRefusesPass
  BY <1>2 DEF PassStarts, PassReadsTasks, PassConsidersTask, PassClaims, PassCallsHandler,
              PassSettles, WriterRefusesPass, Throws, ProcTypes
<1>3. CASE WriterCommits \/ ClockTicks \/ TimerKicks \/ TaskChanges
  BY <1>3 DEF WriterCommits, ClockTicks, TimerKicks, TaskChanges, Changes, Listener, ProcTypes
<1>4. CASE ScheduleStarts \/ ScheduleResumes \/ SchedulePauses \/ ScheduleStops
  BY <1>4 DEF ScheduleStarts, ScheduleResumes, SchedulePauses, ScheduleStops, GraphTransition, ProcTypes
<1>5. CASE ProcessExits \/ BootRecovers \/ BootSeeds
  BY <1>5 DEF ProcessExits, BootRecovers, BootSeeds, ProcTypes
<1> QED BY <1>1, <1>2, <1>3, <1>4, <1>5 DEF ScheduleNext, Pass

\* A pass that goes on holds what it held; what it holds is read, not changed.
LEMMA PassTypesStep ==
    ASSUME ScheduleInv, ScheduleNext, StoreTypes'
    PROVE  PassTypes'
<1> USE DEF ScheduleInv, ScheduleTypes
<1>1. CASE UNCHANGED pass
  <2>1. now' \in Nat /\ now \in Nat /\ now <= now'
    BY DEF StoreTypes, ScheduleNext, WriterCommits, TaskChanges, Changes, Pass, PassStarts,
           PassReadsTasks, PassConsidersTask, PassClaims, PassCallsHandler, PassSettles,
           WriterRefusesPass, PassEnds, ClockTicks, TimerKicks, ScheduleStarts, ScheduleResumes,
           SchedulePauses, ScheduleStops, GraphTransition, ProcessExits, BootRecovers, BootSeeds
  <2> QED BY <1>1, <2>1 DEF PassTypes, Fires, WithTasks, WithFire
<1>2. CASE pass' = Idle
  BY <1>2 DEF PassTypes, Idle, WithTasks, WithFire
<1>3. CASE PassStarts
  BY <1>3 DEF PassStarts, PassTypes, StoreTypes, WithTasks, WithFire
<1>4. CASE PassReadsTasks
  <2>1. Owned \subseteq Tasks /\ \A t \in Owned : declared[t] \in Entities
    BY DEF Owned, StoreTypes, Undeclared
  <2>2. pass.observed \in 0..now /\ now' = now
    BY <1>4 DEF PassReadsTasks, PassTypes
  <2> DEFINE read == [t \in Owned |-> declared[t]]
  <2>3. pass' = [at |-> "task", observed |-> pass.observed, left |-> read]
    BY <1>4 DEF PassReadsTasks, GoesOver
  <2>4. DOMAIN read = Owned /\ \A t \in Owned : read[t] = declared[t]
    OBVIOUS
  <2>5. read = [t \in DOMAIN read |-> read[t]]
    OBVIOUS
  <2> QED BY <2>1, <2>2, <2>3, <2>4, <2>5 DEF PassTypes, WithTasks, WithFire
<1>5. ASSUME NEW t, pass.at \in WithTasks, GoesOver(Without(t)), now' = now
      PROVE  PassTypes'
  <2> DEFINE rest == Without(t)
  <2>1. pass' = [at |-> "task", observed |-> pass.observed, left |-> rest]
    BY <1>5 DEF GoesOver
  <2>2. DOMAIN rest = DOMAIN pass.left \ {t} /\ \A u \in DOMAIN rest : rest[u] = pass.left[u]
    BY DEF Without
  <2>3. rest = [u \in DOMAIN rest |-> rest[u]]
    BY DEF Without
  <2>4. pass.observed \in 0..now'
    BY <1>5 DEF PassTypes, WithTasks
  <2> HIDE DEF rest
  <2> QED BY <1>5, <2>1, <2>2, <2>3, <2>4 DEF PassTypes, WithTasks, WithFire
<1>6. CASE PassConsidersTask /\ pass' # Idle
  <2>1. pass.at = "task" /\ now' = now /\ Parses(pass.left[NextTask])
    BY <1>6 DEF PassConsidersTask, Throws
  <2>2. CASE NominalOf(NextTask) > Floor(NextTask)
    <3>1. pass' = [k \in DOMAIN pass \cup {"at", "fire"} |->
                     IF k \in {"at", "fire"}
                     THEN [at |-> "claim", fire |-> <<NextTask, NominalOf(NextTask)>>][k] ELSE pass[k]]
      BY <1>6, <2>1, <2>2 DEF PassConsidersTask, Steps, Throws
    <3>2. NextTask \in DOMAIN pass.left /\ NextTask \in Tasks
      <4>1. DOMAIN pass.left # {} /\ DOMAIN pass.left \subseteq Tasks
        BY <1>6, <2>1, EmptyIsEmpty DEF PassConsidersTask, PassTypes, WithTasks
      <4> QED BY <4>1, MinOfNats, TasksAssumption DEF NextTask
    <3>3. NominalOf(NextTask) \in Nominal[pass.left[NextTask].expression]
      <4>1. pass.observed \in Nat
        BY <2>1 DEF PassTypes, StoreTypes
      <4>2. Floor(NextTask) \in Nat
        BY <3>2, FloorFits
      <4> QED BY <2>1, <2>2, <4>1, <4>2, LatestFits DEF Parses, NominalOf
    <3>4. <<NextTask, NominalOf(NextTask)>> \in Fires
      BY <2>1, <3>2, <3>3, FiresFit DEF Parses
    <3>5. /\ pass'.at = "claim" /\ pass'.fire = <<NextTask, NominalOf(NextTask)>>
          /\ pass'.observed = pass.observed /\ pass'.left = pass.left
          /\ DOMAIN pass \cup {"at", "fire"} = DOMAIN pass'
      BY <2>1, <3>1 DEF PassTypes, WithTasks
    <3> QED BY <2>1, <3>2, <3>4, <3>5 DEF PassTypes, WithTasks, WithFire
  <2>3. CASE ~(NominalOf(NextTask) > Floor(NextTask))
    BY <1>5, <1>6, <2>1, <2>3 DEF PassConsidersTask, Throws, WithTasks
  <2> QED BY <2>2, <2>3
<1>7. CASE PassClaims /\ pass' # Idle
  <2>1. CASE Steps([at |-> "call"])
    <3>1. pass.at = "claim" /\ now' = now
      BY <1>7 DEF PassClaims
    <3>2. /\ pass'.at = "call" /\ pass'.fire = pass.fire
          /\ pass'.observed = pass.observed /\ pass'.left = pass.left
          /\ DOMAIN pass = DOMAIN pass'
      BY <2>1, <3>1 DEF Steps, PassTypes, WithTasks, WithFire
    <3> QED BY <3>1, <3>2 DEF PassTypes, WithTasks, WithFire
  <2> QED BY <1>5, <1>7, <2>1 DEF PassClaims, TaskDone, Throws, WithTasks
<1>8. CASE PassCallsHandler
  <2>1. PICK o \in {"result", "error"} : Steps([at |-> "settle", outcome |-> o])
    BY <1>8 DEF PassCallsHandler
  <2>2. pass.at = "call" /\ now' = now
    BY <1>8 DEF PassCallsHandler
  <2>3. /\ pass'.at = "settle" /\ pass'.fire = pass.fire /\ pass'.outcome = o
        /\ pass'.observed = pass.observed /\ pass'.left = pass.left
        /\ DOMAIN pass \subseteq DOMAIN pass'
    BY <2>1, <2>2 DEF Steps, PassTypes, WithTasks, WithFire
  <2> QED BY <2>2, <2>3 DEF PassTypes, WithTasks, WithFire
<1>9. CASE PassSettles
  BY <1>5, <1>9 DEF PassSettles, TaskDone, WithTasks
<1>10. ScheduleNext =>
          \/ UNCHANGED pass \/ pass' = Idle \/ PassStarts \/ PassReadsTasks
          \/ (PassConsidersTask /\ pass' # Idle) \/ (PassClaims /\ pass' # Idle)
          \/ PassCallsHandler \/ PassSettles
  BY DEF ScheduleNext, WriterCommits, TaskChanges, Changes, Pass, WriterRefusesPass, PassEnds, Throws,
         ClockTicks, TimerKicks, ScheduleStarts, ScheduleResumes, SchedulePauses, ScheduleStops,
         GraphTransition, ProcessExits, BootRecovers, BootSeeds
<1> QED BY <1>1, <1>2, <1>3, <1>4, <1>6, <1>7, <1>8, <1>9, <1>10

-----------------------------------------------------------------------------
(* What is called and what is open.                                        *)

\* What a step leaves alone, for the parts that do not speak of the clock,
\* the tasks or the kicks.
LEMMA StoreFrame ==
    ASSUME StoreInv, UNCHANGED <<receipt, waiting, calls, given, pass, boot, graph>>
    PROVE  StoreInv'
BY DEF StoreInv, Alive, HeldByWriter, HeldByPass, CalledOnce, OpenIsHeld

LEMMA StoreStep ==
    ASSUME ScheduleInv, ScheduleNext, ScheduleTypes'
    PROVE  StoreInv'
<1> USE DEF ScheduleInv, ScheduleTypes
<1>1. CASE WriterCommits
  <2> DEFINE w == Head(waiting)
  <2>1. waiting \in Seq(Commits) /\ waiting # <<>>
    BY <1>1 DEF WriterCommits, StoreTypes
  <2>2. /\ w \in Commits /\ w.fire \in given /\ w.fire \in Fires
        /\ w.op = "settle" /\ w.outcome = "result" => calls[w.fire] = 1
        /\ w.op \in {"claim", "settle"}
        /\ w.op = "settle" => w.outcome \in {"result", "error"}
    <3>1. 1 \in 1..Len(waiting) /\ w = waiting[1] /\ w \in Commits
      BY <2>1
    <3> QED BY <3>1 DEF Commits, StoreInv, HeldByWriter
  <2>3. \A i \in 1..Len(waiting') : i + 1 \in 1..Len(waiting) /\ waiting'[i] = waiting[i + 1]
    BY <1>1, <2>1 DEF WriterCommits
  <2>4. /\ \A f \in Fires : f # w.fire => receipt'[f] = receipt[f]
        /\ \/ receipt'[w.fire] \in {receipt[w.fire], "open"}
           \/ receipt[w.fire] = "open" /\ w.op = "settle" /\ receipt'[w.fire] = w.outcome
        /\ receipt[w.fire] # "none" => receipt'[w.fire] # "none"
    BY <1>1, <2>2, WrittenFits DEF WriterCommits
  <2>5. boot = "up" /\ pass.at \notin {"call", "settle"}
    BY <2>1 DEF StoreInv, Alive, HeldByPass
  <2> HIDE DEF w
  <2>6. Alive' /\ HeldByPass'
    BY <1>1, <2>5 DEF WriterCommits, StoreInv, Alive, HeldByPass
  <2>7. HeldByWriter'
    BY <1>1, <2>3 DEF WriterCommits, StoreInv, HeldByWriter
  <2>8. CalledOnce'
    <3> SUFFICES ASSUME NEW f \in Fires
                 PROVE  /\ calls[f] <= (IF receipt'[f] = "none" THEN 0 ELSE 1)
                        /\ receipt'[f] = "result" => calls[f] = 1
      BY <1>1 DEF WriterCommits, CalledOnce, Fires
    <3> QED BY <2>2, <2>4 DEF StoreInv, CalledOnce, StoreTypes
  <2>9. OpenIsHeld'
    BY <1>1, <2>2, <2>4, <2>5 DEF WriterCommits, StoreInv, OpenIsHeld, Fires
  <2> QED BY <2>6, <2>7, <2>8, <2>9 DEF StoreInv
<1>2. CASE TaskChanges \/ ClockTicks \/ TimerKicks \/ BootSeeds
  <2>1. CASE TaskChanges \/ ClockTicks \/ TimerKicks
    BY <2>1, StoreFrame DEF TaskChanges, Changes, ClockTicks, TimerKicks, storeVars
  <2>2. CASE BootSeeds
    BY <2>2 DEF BootSeeds, StoreInv, Alive, HeldByWriter, HeldByPass, CalledOnce, OpenIsHeld
  <2> QED BY <1>2, <2>1, <2>2
<1>3. CASE PassStarts \/ PassReadsTasks
  BY <1>3 DEF PassStarts, PassReadsTasks, GoesOver, storeVars, Idle,
              StoreInv, Alive, HeldByWriter, HeldByPass, CalledOnce, OpenIsHeld
<1>4. CASE PassConsidersTask
  <2>1. pass.at = "task" /\ UNCHANGED <<receipt, waiting, calls, boot>>
    BY <1>4 DEF PassConsidersTask, storeVars
  <2>2. \/ pass' = Idle /\ given' = given
        \/ pass'.at \in {"task", "claim"} /\ UNCHANGED <<graph, given>>
    BY <1>4, <2>1 DEF PassConsidersTask, Throws, GoesOver, Steps, PassTypes, WithTasks
  <2>3. pass'.at \notin {"call", "settle"}
    BY <2>2 DEF Idle
  <2>4. pass # Idle
    BY <2>1 DEF Idle
  <2> QED BY <2>1, <2>2, <2>3, <2>4 DEF StoreInv, Alive, HeldByWriter, HeldByPass, CalledOnce, OpenIsHeld
<1>5. CASE PassClaims
  <2>1. /\ pass.at = "claim" /\ pass # Idle /\ waiting = <<>> /\ pass.fire \in Fires
        /\ ThisClaim \in Commits /\ ThisClaim.fire = pass.fire /\ ThisClaim.op = "claim"
        /\ UNCHANGED <<waiting, boot, calls>> /\ receipt' = Written(ThisClaim)
    BY <1>5, AskedCommits DEF PassClaims, Acknowledges, Idle, PassTypes, WithFire, ThisClaim, Claim
  <2>2. /\ \A f \in Fires : f # pass.fire => receipt'[f] = receipt[f]
        /\ receipt'[pass.fire] \in {receipt[pass.fire], "open"}
        /\ receipt'[pass.fire] # receipt[pass.fire] => receipt[pass.fire] = "none"
        /\ Takes(ThisClaim) => receipt[pass.fire] = "none" /\ receipt'[pass.fire] = "open"
        /\ ~Takes(ThisClaim) => receipt'[pass.fire] = receipt[pass.fire]
    BY <2>1, WrittenFits DEF Takes
  <2>3. CalledOnce'
    <3> SUFFICES ASSUME NEW f \in Fires
                 PROVE  /\ calls[f] <= (IF receipt'[f] = "none" THEN 0 ELSE 1)
                        /\ receipt'[f] = "result" => calls[f] = 1
      BY <2>1 DEF CalledOnce, Fires
    <3> QED BY <2>1, <2>2 DEF StoreInv, CalledOnce, StoreTypes
  <2>4. CASE Takes(ThisClaim) /\ Steps([at |-> "call"]) /\ UNCHANGED <<graph, given>>
    <3>1. pass'.at = "call" /\ pass'.fire = pass.fire
      BY <2>1, <2>4 DEF Steps, PassTypes, WithFire, WithTasks
    <3>2. calls[pass.fire] = 0
      BY <2>1, <2>2, <2>4 DEF StoreInv, CalledOnce, StoreTypes
    <3>3. OpenIsHeld'
      BY <2>1, <2>2, <2>4, <3>1 DEF StoreInv, OpenIsHeld, Fires
    <3>4. HeldByWriter' /\ HeldByPass'
      BY <2>1, <2>2, <2>4, <3>1, <3>2 DEF HeldByWriter, HeldByPass
    <3>5. Alive'
      BY <2>1, <2>4, <3>1 DEF StoreInv, Alive, Idle
    <3> QED BY <2>3, <3>3, <3>4, <3>5 DEF StoreInv
  <2>5. CASE ~Takes(ThisClaim) /\ TaskDone /\ UNCHANGED <<graph, given>>
    <3>1. pass'.at = "task"
      BY <2>5 DEF TaskDone, GoesOver
    <3> QED BY <2>1, <2>2, <2>3, <2>5, <3>1
            DEF StoreInv, Alive, HeldByWriter, HeldByPass, OpenIsHeld, Idle, Fires
  <2>6. CASE ~Takes(ThisClaim) /\ Throws({})
    <3>1. pass' = Idle /\ given' = given /\ pass'.at = "idle"
      BY <2>6 DEF Throws, Idle
    <3> QED BY <2>1, <2>2, <2>3, <2>6, <3>1
            DEF StoreInv, Alive, HeldByWriter, HeldByPass, OpenIsHeld, Throws, Fires
  <2> QED BY <1>5, <2>1, <2>4, <2>5, <2>6 DEF PassClaims, Takes, ThisClaim, Claim
<1>6. CASE PassCallsHandler
  <2>1. /\ pass.at = "call" /\ pass # Idle /\ pass.fire \in Fires
        /\ UNCHANGED <<receipt, waiting, boot, graph, given>>
        /\ receipt[pass.fire] = "open" /\ waiting = <<>> /\ calls[pass.fire] = 0
    BY <1>6 DEF PassCallsHandler, storeVars, Idle, PassTypes, WithFire, StoreInv, HeldByPass
  <2>2. PICK o \in {"result", "error"} :
            /\ Steps([at |-> "settle", outcome |-> o])
            /\ \/ calls' = [calls EXCEPT ![pass.fire] = @ + 1]
               \/ o = "error" /\ calls' = calls
    BY <1>6 DEF PassCallsHandler
  <2>3. pass'.at = "settle" /\ pass'.fire = pass.fire /\ pass'.outcome = o
    BY <2>1, <2>2 DEF Steps, PassTypes, WithFire, WithTasks
  <2>4. /\ \A f \in Fires : f # pass.fire => calls'[f] = calls[f]
        /\ calls'[pass.fire] \in {0, 1} /\ (o = "result" => calls'[pass.fire] = 1)
    BY <2>1, <2>2 DEF StoreTypes
  <2>5. CalledOnce'
    <3> SUFFICES ASSUME NEW f \in Fires
                 PROVE  /\ calls'[f] <= (IF receipt[f] = "none" THEN 0 ELSE 1)
                        /\ receipt[f] = "result" => calls'[f] = 1
      BY <2>1 DEF CalledOnce, Fires
    <3> QED BY <2>1, <2>4 DEF StoreInv, CalledOnce
  <2>6. HeldByPass' /\ HeldByWriter' /\ OpenIsHeld'
    BY <2>1, <2>3, <2>4 DEF StoreInv, HeldByPass, HeldByWriter, OpenIsHeld
  <2>7. Alive'
    BY <2>1, <2>3 DEF StoreInv, Alive, Idle
  <2> QED BY <2>5, <2>6, <2>7 DEF StoreInv
<1>7. CASE PassSettles
  <2> DEFINE w == Settlement(pass.fire, pass.outcome)
  <2>1. /\ pass.at = "settle" /\ pass # Idle /\ pass.fire \in Fires
        /\ w \in Commits /\ w.fire = pass.fire /\ w.op = "settle" /\ w.outcome = pass.outcome
        /\ UNCHANGED <<waiting, boot, graph, calls, given>> /\ receipt' = Written(w)
        /\ receipt[pass.fire] = "open" /\ waiting = <<>> /\ pass.outcome \in {"result", "error"}
        /\ pass.outcome = "result" => calls[pass.fire] = 1
    BY <1>7, AskedCommits DEF PassSettles, Settlement, Idle, PassTypes, WithFire, StoreInv, HeldByPass
  <2>2. /\ \A f \in Fires : f # pass.fire => receipt'[f] = receipt[f]
        /\ receipt'[pass.fire] = pass.outcome
    BY <2>1, WrittenFits
  <2> HIDE DEF w
  <2>3. pass'.at = "task"
    BY <1>7 DEF PassSettles, TaskDone, GoesOver
  <2>4. CalledOnce'
    <3> SUFFICES ASSUME NEW f \in Fires
                 PROVE  /\ calls[f] <= (IF receipt'[f] = "none" THEN 0 ELSE 1)
                        /\ receipt'[f] = "result" => calls[f] = 1
      BY <2>1 DEF CalledOnce, Fires
    <3> QED BY <2>1, <2>2 DEF StoreInv, CalledOnce
  <2>5. OpenIsHeld'
    BY <2>1, <2>2, <2>3 DEF StoreInv, OpenIsHeld, Fires
  <2>6. Alive' /\ HeldByPass' /\ HeldByWriter'
    BY <2>1, <2>3 DEF StoreInv, Alive, HeldByPass, HeldByWriter
  <2> QED BY <2>4, <2>5, <2>6 DEF StoreInv
<1>8. CASE WriterRefusesPass
  <2>1. /\ pass.at \in {"claim", "settle"} /\ pass # Idle /\ pass.fire \in Fires
        /\ UNCHANGED <<receipt, boot, calls>>
        /\ pass' = Idle /\ given' = given \cup {pass.fire}
        /\ graph = "running" /\ boot = "up"
    BY <1>8 DEF WriterRefusesPass, storeVars, Throws, Idle, PassTypes, WithFire, StoreInv, Alive
  <2>2. pass'.at = "idle"
    BY <2>1 DEF Idle
  <2>3. HeldByWriter'
    <3>1. CASE waiting' = waiting
      BY <2>1, <3>1 DEF StoreInv, HeldByWriter
    <3>2. PICK w \in Commits :
              /\ waiting' \in {waiting, Append(waiting, w)} /\ w.fire = pass.fire
              /\ w.op = "settle" /\ w.outcome = "result" => calls[w.fire] = 1
      BY <1>8, AskedCommits DEF WriterRefusesPass, Settlement, ThisClaim, Claim, StoreInv, HeldByPass
    <3>3. CASE waiting' = Append(waiting, w)
      <4>1. waiting \in Seq(Commits)
        BY DEF StoreTypes
      <4>2. \A i \in 1..Len(waiting') : waiting'[i] = w \/ (i \in 1..Len(waiting) /\ waiting'[i] = waiting[i])
        BY <3>3, <4>1
      <4> QED BY <2>1, <3>2, <4>2 DEF StoreInv, HeldByWriter
    <3> QED BY <3>1, <3>2, <3>3
  <2>4. OpenIsHeld' /\ CalledOnce' /\ HeldByPass'
    BY <2>1, <2>2 DEF StoreInv, OpenIsHeld, CalledOnce, HeldByPass
  <2>5. Alive'
    BY <2>1 DEF Alive
  <2> QED BY <2>3, <2>4, <2>5 DEF StoreInv
<1>9. CASE PassEnds
  <2>1. /\ pass.at = "task" /\ pass # Idle /\ pass' = Idle /\ given' = given
        /\ UNCHANGED <<receipt, waiting, boot, calls>>
    BY <1>9 DEF PassEnds, storeVars, Throws, Idle
  <2>2. pass'.at = "idle"
    BY <2>1 DEF Idle
  <2> QED BY <2>1, <2>2 DEF StoreInv, Alive, HeldByWriter, HeldByPass, CalledOnce, OpenIsHeld
<1>10. CASE ScheduleStarts \/ ScheduleResumes \/ SchedulePauses \/ ScheduleStops
  BY <1>10 DEF ScheduleStarts, ScheduleResumes, SchedulePauses, ScheduleStops, GraphTransition, storeVars,
               StoreInv, Alive, HeldByWriter, HeldByPass, CalledOnce, OpenIsHeld
<1>11. CASE ProcessExits
  BY <1>11 DEF ProcessExits, storeVars, Idle,
               StoreInv, Alive, HeldByWriter, HeldByPass, CalledOnce, OpenIsHeld
<1>12. CASE BootRecovers
  <2>1. /\ waiting = <<>> /\ pass = Idle /\ pass.at = "idle" /\ graph = "none"
        /\ UNCHANGED <<waiting, pass, graph, calls>>
    BY <1>12 DEF BootRecovers, StoreInv, Alive, Idle
  <2>2. \A f \in Fires :
          /\ receipt'[f] # "open"
          /\ receipt'[f] = "none" => receipt[f] = "none"
          /\ receipt'[f] = "result" => receipt[f] = "result"
          /\ receipt[f] = "none" => receipt'[f] = "none"
    BY <1>12 DEF BootRecovers, Unfinished
  <2>3. CalledOnce' /\ OpenIsHeld'
    BY <2>1, <2>2 DEF StoreInv, CalledOnce, OpenIsHeld, Fires, StoreTypes
  <2>4. Alive' /\ HeldByWriter' /\ HeldByPass'
    BY <2>1 DEF Alive, HeldByWriter, HeldByPass
  <2> QED BY <2>3, <2>4 DEF StoreInv
<1> QED BY <1>1, <1>2, <1>3, <1>4, <1>5, <1>6, <1>7, <1>8, <1>9, <1>10, <1>11, <1>12
        DEF ScheduleNext, Pass

-----------------------------------------------------------------------------
(* What is due.                                                            *)

\* A proc that does not rest, or is about to be kicked, owes nothing; nor
\* does a pass that ended in a throw, or has not read its tasks.
LEMMA Kicked ==
    ASSUME kick' \/ graph' # "running" \/ broken' \/ ~AllParse', pass'.at \notin WithTasks
    PROVE  WakeInv'
BY DEF WakeInv, FireIsLatest, ReadIsCurrent, DueIsLeft, NothingDueIsSlept, WithTasks, WithFire

\* What only covers more, and touches no task, timer, kick or pass.
LEMMA WakeFrame ==
    ASSUME ScheduleInv, ScheduleTypes', Claimed \subseteq Claimed',
           UNCHANGED <<declared, graph, kick, timers, pass, broken>>
    PROVE  WakeInv'
<1>1. Owned' = Owned /\ (AllParse' <=> AllParse)
  BY DEF Owned, AllParse, Parses
<1>2. ASSUME NEW t \in Owned, AllParse
      PROVE  After(declared'[t].expression, Floor(t)') \subseteq After(declared[t].expression, Floor(t))
  <2>1. Floor(t) \in Nat /\ Floor(t)' \in Nat /\ Floor(t) <= Floor(t)'
    BY FloorGrows DEF ScheduleInv, ScheduleTypes, Owned
  <2>2. Nominal[declared[t].expression] \subseteq Nat
    BY <1>2, NominalAssumption DEF AllParse, Parses
  <2> QED BY <2>1, <2>2 DEF After
<1>3. FireIsLatest' /\ ReadIsCurrent'
  BY DEF ScheduleInv, WakeInv, FireIsLatest, ReadIsCurrent, Parses
<1>4. DueIsLeft' /\ NothingDueIsSlept'
  BY <1>1, <1>2 DEF ScheduleInv, WakeInv, DueIsLeft, NothingDueIsSlept
<1> QED BY <1>3, <1>4 DEF WakeInv

\* The task in hand is covered, or was: the pass goes on with the others.
LEMMA TaskIsDone ==
    ASSUME ScheduleInv, ScheduleTypes', pass.at \in WithTasks, NEW t \in Tasks,
           Claimed \subseteq Claimed', UNCHANGED <<declared, graph, kick, timers, broken>>,
           GoesOver(Without(t)),
           AllParse /\ ~kick =>
               t \in DOMAIN pass.left
               /\ \A n \in Nominal[pass.left[t].expression] : n <= pass.observed => n <= Floor(t)'
    PROVE  WakeInv'
<1>1. /\ pass'.at = "task" /\ pass'.observed = pass.observed
      /\ DOMAIN pass'.left = DOMAIN pass.left \ {t}
      /\ \A u \in DOMAIN pass'.left : pass'.left[u] = pass.left[u]
  BY DEF GoesOver, Without
<1>2. Owned' = Owned /\ (AllParse' <=> AllParse)
  BY DEF Owned, AllParse, Parses
<1>3. FireIsLatest' /\ NothingDueIsSlept'
  BY <1>1 DEF FireIsLatest, NothingDueIsSlept, Idle, WithFire
<1>4. ReadIsCurrent'
  BY <1>1 DEF ScheduleInv, WakeInv, ReadIsCurrent, WithTasks
<1>5. DueIsLeft'
  <2> SUFFICES ASSUME ~kick, AllParse, NEW u \in Owned,
                      NEW n \in After(declared[u].expression, Floor(u)'), n <= pass.observed
               PROVE  u \in DOMAIN pass.left /\ u # t
    BY <1>1, <1>2 DEF DueIsLeft
  <2>1. Floor(u) \in Nat /\ Floor(u)' \in Nat /\ Floor(u) <= Floor(u)'
    BY FloorGrows DEF ScheduleInv, ScheduleTypes, Owned
  <2>2. n \in Nominal[declared[u].expression] /\ n \in Nat /\ n > Floor(u)'
    BY NominalAssumption DEF After, AllParse, Parses
  <2>3. n \in After(declared[u].expression, Floor(u))
    BY <2>1, <2>2 DEF After
  <2>4. u \in DOMAIN pass.left
    BY <2>3 DEF ScheduleInv, WakeInv, DueIsLeft
  <2>5. declared[u] = pass.left[u]
    BY <2>4 DEF ScheduleInv, WakeInv, ReadIsCurrent
  <2> QED BY <2>1, <2>2, <2>4, <2>5
<1> QED BY <1>3, <1>4, <1>5 DEF WakeInv

\* The fire in hand is in the store: its task is done.
LEMMA FireIsDone ==
    ASSUME ScheduleInv, ScheduleTypes', pass.at \in WithFire, pass.fire \in Claimed,
           Claimed \subseteq Claimed', UNCHANGED <<declared, graph, kick, timers, broken>>,
           GoesOver(Without(pass.fire[1]))
    PROVE  WakeInv'
<1> PICK t \in Tasks : t = pass.fire[1]
  BY FiresFit DEF Claimed
<1>1. pass.at \in WithTasks /\ t \in DOMAIN pass.left
  BY DEF ScheduleInv, ScheduleTypes, PassTypes, WithFire, WithTasks
<1>2. pass.fire[2] <= Floor(t)' /\ Floor(t)' \in Nat /\ pass.fire[2] \in Nat
  <2>1. pass.fire \in Claimed' /\ pass.fire \in Fires
    BY DEF Claimed
  <2>2. Floor(t)' \in Nat /\ \A f \in Claimed' : f[1] = t => f[2] <= Floor(t)'
    BY FloorFitsNext DEF ScheduleTypes
  <2> QED BY <2>1, <2>2, FiresFit
<1>3. \A n \in Nominal[pass.left[t].expression] : n <= pass.observed => n <= Floor(t)'
  <2> SUFFICES ASSUME NEW n \in Nominal[pass.left[t].expression], n <= pass.observed
               PROVE  n <= Floor(t)'
    OBVIOUS
  <2>1. Parses(pass.left[t]) /\ n <= pass.fire[2]
    BY DEF ScheduleInv, WakeInv, FireIsLatest
  <2>2. n \in Nat
    BY <2>1, NominalAssumption DEF Parses
  <2> QED BY <1>2, <2>1, <2>2
<1> QED BY <1>1, <1>3, TaskIsDone

\* The pass keeps its fire and its tasks.
LEMMA StaysOver ==
    ASSUME ScheduleInv, ScheduleTypes', pass.at \in WithFire, Claimed \subseteq Claimed',
           UNCHANGED <<declared, kick, timers, broken>>,
           pass'.at \in WithFire, pass' # Idle, pass'.fire = pass.fire,
           pass'.left = pass.left, pass'.observed = pass.observed
    PROVE  WakeInv'
<1>1. Owned' = Owned /\ (AllParse' <=> AllParse)
  BY DEF Owned, AllParse, Parses
<1>2. FireIsLatest' /\ ReadIsCurrent' /\ NothingDueIsSlept'
  BY DEF ScheduleInv, WakeInv, FireIsLatest, ReadIsCurrent, NothingDueIsSlept, Parses, WithFire, WithTasks
<1>3. DueIsLeft'
  <2> SUFFICES ASSUME ~kick, AllParse, NEW u \in Owned,
                      NEW n \in After(declared[u].expression, Floor(u)'), n <= pass.observed
               PROVE  u \in DOMAIN pass.left
    BY <1>1 DEF DueIsLeft
  <2>1. Floor(u) \in Nat /\ Floor(u)' \in Nat /\ Floor(u) <= Floor(u)'
    BY FloorGrows DEF ScheduleInv, ScheduleTypes, Owned
  <2>2. n \in Nominal[declared[u].expression] /\ n \in Nat /\ n > Floor(u)'
    BY NominalAssumption DEF After, AllParse, Parses
  <2>3. n \in After(declared[u].expression, Floor(u))
    BY <2>1, <2>2 DEF After
  <2> QED BY <2>3 DEF ScheduleInv, WakeInv, DueIsLeft, WithFire, WithTasks
<1> QED BY <1>2, <1>3 DEF WakeInv

LEMMA PassWakeStep ==
    ASSUME ScheduleInv, Pass, ScheduleTypes'
    PROVE  WakeInv'
<1> USE DEF ScheduleInv, ScheduleTypes
<1>1. CASE PassStarts
  BY <1>1 DEF PassStarts, Idle, WakeInv, FireIsLatest, ReadIsCurrent, DueIsLeft, NothingDueIsSlept,
              WithTasks, WithFire
<1>2. CASE PassReadsTasks
  <2>1. /\ pass'.at = "task" /\ pass' # Idle
        /\ DOMAIN pass'.left = Owned /\ \A t \in Owned : pass'.left[t] = declared[t]
        /\ declared' = declared
    BY <1>2 DEF PassReadsTasks, GoesOver, storeVars, Idle
  <2>2. Owned' = Owned /\ \A t \in Owned : declared[t].own
    BY <2>1 DEF Owned
  <2> QED BY <2>1, <2>2 DEF WakeInv, FireIsLatest, ReadIsCurrent, DueIsLeft, NothingDueIsSlept, WithFire
<1>3. CASE PassConsidersTask
  <2>1. /\ pass.at = "task" /\ pass.at \in WithTasks
        /\ UNCHANGED <<declared, receipt, kick, timers, broken>> /\ Claimed \subseteq Claimed'
    BY <1>3 DEF PassConsidersTask, storeVars, WithTasks, Claimed
  <2>2. PICK t \in Tasks : t = NextTask /\ t \in DOMAIN pass.left
    <3>1. DOMAIN pass.left # {} /\ DOMAIN pass.left \subseteq Tasks
      BY <1>3, <2>1, EmptyIsEmpty DEF PassConsidersTask, PassTypes
    <3> QED BY <3>1, MinOfNats, TasksAssumption DEF NextTask
  <2>3. CASE ~Parses(pass.left[t]) /\ Throws({})
    <3>1. pass'.at = "idle" /\ pass'.at \notin WithTasks
      BY <2>3 DEF Throws, Idle, WithTasks
    <3>2. kick \/ ~AllParse
      BY <2>1, <2>2, <2>3 DEF WakeInv, ReadIsCurrent, AllParse, Owned
    <3>3. kick' \/ ~AllParse'
      BY <2>1, <3>2 DEF AllParse, Owned, Parses
    <3> QED BY <3>1, <3>3, Kicked
  <2>4. ASSUME Parses(pass.left[t])
        PROVE  /\ NominalOf(t) \in 0..pass.observed
               /\ \A n \in Nominal[pass.left[t].expression] : n <= pass.observed => n <= NominalOf(t)
    <3>1. pass.observed \in Nat
      BY <2>1 DEF PassTypes, StoreTypes
    <3> QED BY <2>4, <3>1, LatestFits DEF Parses, NominalOf
  <2>5. CASE /\ Parses(pass.left[t]) /\ UNCHANGED <<graph, given>>
             /\ Steps([at |-> "claim", fire |-> <<t, NominalOf(t)>>])
    <3>1. /\ pass'.at = "claim" /\ pass'.fire = <<t, NominalOf(t)>> /\ pass' # Idle
          /\ pass'.left = pass.left /\ pass'.observed = pass.observed
      BY <2>1, <2>5 DEF Steps, PassTypes, WithTasks, Idle
    <3>2. FireIsLatest'
      <4>1. pass'.fire[1] = t /\ pass'.fire[2] = NominalOf(t)
        BY <3>1
      <4>2. NominalOf(t) <= pass.observed
        BY <2>4, <2>5, <2>1 DEF PassTypes, StoreTypes
      <4> QED BY <2>4, <2>5, <3>1, <4>1, <4>2 DEF FireIsLatest, Parses
    <3>3. Owned' = Owned /\ (AllParse' <=> AllParse) /\ \A u \in Tasks : Floor(u)' = Floor(u)
      BY <2>1 DEF Owned, AllParse, Parses, Floor, Claimed
    <3>4. ReadIsCurrent' /\ DueIsLeft' /\ NothingDueIsSlept'
      BY <2>1, <3>1, <3>3 DEF WakeInv, ReadIsCurrent, DueIsLeft, NothingDueIsSlept, Owned
    <3> QED BY <3>2, <3>4 DEF WakeInv
  <2>6. CASE /\ Parses(pass.left[t]) /\ UNCHANGED <<graph, given>>
             /\ ~(NominalOf(t) > Floor(t)) /\ GoesOver(Without(t))
    <3>1. Floor(t) \in Nat /\ Floor(t)' = Floor(t) /\ NominalOf(t) <= Floor(t) /\ NominalOf(t) \in Nat
      BY <2>1, <2>2, <2>4, <2>6, FloorFits DEF Floor, Claimed
    <3>2. \A n \in Nominal[pass.left[t].expression] : n <= pass.observed => n <= Floor(t)'
      <4> SUFFICES ASSUME NEW n \in Nominal[pass.left[t].expression], n <= pass.observed
                   PROVE  n <= Floor(t)'
        OBVIOUS
      <4>1. n \in Nat
        BY <2>6, NominalAssumption DEF Parses
      <4> QED BY <2>4, <2>6, <3>1, <4>1
    <3> QED BY <2>1, <2>2, <2>6, <3>2, TaskIsDone
  <2> QED BY <1>3, <2>2, <2>3, <2>5, <2>6 DEF PassConsidersTask
<1>4. CASE PassClaims
  <2>1. /\ pass.at = "claim" /\ pass.at \in WithTasks /\ pass.at \in WithFire
        /\ ThisClaim \in Commits /\ ThisClaim.fire = pass.fire /\ receipt' = Written(ThisClaim)
        /\ UNCHANGED <<declared, kick, timers, broken>>
    BY <1>4, AskedCommits DEF PassClaims, WithTasks, WithFire
  <2>2. Claimed \subseteq Claimed' /\ pass.fire \in Fires /\ pass.fire[1] \in DOMAIN pass.left
    BY <2>1, WrittenClaims DEF PassTypes
  <2>3. CASE Steps([at |-> "call"]) /\ UNCHANGED <<graph, given>>
    <3>1. /\ pass'.at = "call" /\ pass'.at \in WithFire /\ pass'.fire = pass.fire /\ pass' # Idle
          /\ pass'.left = pass.left /\ pass'.observed = pass.observed
      BY <2>1, <2>3 DEF Steps, PassTypes, WithTasks, WithFire, Idle
    <3> QED BY <2>1, <2>2, <3>1, StaysOver
  <2>4. CASE receipt[pass.fire] # "none" /\ TaskDone /\ UNCHANGED <<graph, given>>
    BY <2>1, <2>2, <2>4, FireIsDone DEF TaskDone, Claimed
  <2>5. CASE receipt[pass.fire] = "none" /\ ~Matches(ThisClaim) /\ Throws({})
    <3>1. pass'.at = "idle" /\ pass'.at \notin WithTasks
      BY <2>5 DEF Throws, Idle, WithTasks
    <3>2. kick
      <4>1. ~kick => declared[pass.fire[1]] = pass.left[pass.fire[1]] /\ declared[pass.fire[1]].own
        BY <2>1, <2>2 DEF WakeInv, ReadIsCurrent
      <4> QED BY <2>5, <4>1 DEF Matches, ThisClaim, Claim
    <3> QED BY <2>1, <3>1, <3>2, Kicked
  <2> QED BY <1>4, <2>3, <2>4, <2>5 DEF PassClaims
<1>5. CASE PassCallsHandler
  <2>1. PICK o \in {"result", "error"} : Steps([at |-> "settle", outcome |-> o])
    BY <1>5 DEF PassCallsHandler
  <2>2. /\ pass.at = "call" /\ pass.at \in WithTasks /\ pass.at \in WithFire
        /\ UNCHANGED <<declared, receipt, graph, kick, timers, broken>>
    BY <1>5 DEF PassCallsHandler, storeVars, WithTasks, WithFire
  <2>3. /\ pass'.at = "settle" /\ pass'.at \in WithFire /\ pass'.fire = pass.fire /\ pass' # Idle
        /\ pass'.left = pass.left /\ pass'.observed = pass.observed
    BY <2>1, <2>2 DEF Steps, PassTypes, WithTasks, WithFire, Idle
  <2>4. Claimed' = Claimed
    BY <2>2 DEF Claimed, Fires
  <2> QED BY <2>2, <2>3, <2>4, StaysOver
<1>6. CASE PassSettles
  <2> DEFINE w == Settlement(pass.fire, pass.outcome)
  <2>1. /\ pass.at = "settle" /\ pass.at \in WithTasks /\ pass.at \in WithFire
        /\ w \in Commits /\ receipt' = Written(w) /\ receipt[pass.fire] = "open"
        /\ UNCHANGED <<declared, graph, kick, timers, broken>>
    BY <1>6, AskedCommits DEF PassSettles, WithTasks, WithFire, StoreInv, HeldByPass
  <2>2. Claimed \subseteq Claimed' /\ pass.fire \in Claimed
    BY <2>1, WrittenClaims DEF PassTypes, Claimed
  <2> HIDE DEF w
  <2> QED BY <1>6, <2>1, <2>2, FireIsDone DEF PassSettles, TaskDone
<1>7. CASE WriterRefusesPass
  <2>1. broken' /\ pass'.at = "idle" /\ pass'.at \notin WithTasks
    BY <1>7 DEF WriterRefusesPass, Throws, Idle, WithTasks
  <2> QED BY <2>1, Kicked
<1>8. CASE PassEnds
  <2>1. /\ pass.at = "task" /\ pass.at \in WithTasks /\ pass.left = <<>> /\ pass' = Idle
        /\ pass'.at = "idle" /\ pass'.at \notin WithTasks
        /\ UNCHANGED <<declared, receipt, kick, broken>>
    BY <1>8 DEF PassEnds, Throws, storeVars, Idle, WithTasks
  <2>2. Owned' = Owned /\ (AllParse' <=> AllParse) /\ \A t \in Tasks : Floor(t)' = Floor(t)
    BY <2>1 DEF Owned, AllParse, Parses, Floor, Claimed
  <2>3. CASE kick \/ ~AllParse
    BY <2>1, <2>2, <2>3, Kicked
  <2>4. CASE ~kick /\ AllParse
    <3>1. timers' = timers \cup (IF EarliestNext = {} THEN {} ELSE {Min(EarliestNext)})
      BY <1>8, <2>4 DEF PassEnds
    <3>2. EarliestNext \subseteq Nat
      BY <2>4, NominalAssumption DEF EarliestNext, After, AllParse, Parses
    <3>3. DOMAIN pass.left = {}
      BY <2>1
    <3>4. ASSUME NEW t \in Owned, NEW n \in After(declared[t].expression, Floor(t))
          PROVE  \E m \in timers' : m <= n
      <4>1. ~(n <= pass.observed)
        BY <2>1, <2>4, <3>3, <3>4 DEF WakeInv, DueIsLeft
      <4>2. n \in Nat /\ n \in Nominal[declared[t].expression] /\ pass.observed \in Nat
        BY <2>1, <2>4, <3>4, NominalAssumption DEF After, AllParse, Parses, PassTypes, StoreTypes
      <4>3. n \in EarliestNext
        BY <4>1, <4>2 DEF EarliestNext, After
      <4>4. Min(EarliestNext) <= n /\ Min(EarliestNext) \in timers'
        BY <3>1, <3>2, <4>3, MinOfNats
      <4> QED BY <4>4
    <3>5. NothingDueIsSlept'
      <4>1. Owned \subseteq Tasks
        BY DEF Owned
      <4> QED BY <2>1, <2>2, <3>4, <4>1 DEF NothingDueIsSlept
    <3> QED BY <2>1, <3>5 DEF WakeInv, FireIsLatest, ReadIsCurrent, DueIsLeft, WithTasks, WithFire
  <2> QED BY <2>3, <2>4
<1> QED BY <1>1, <1>2, <1>3, <1>4, <1>5, <1>6, <1>7, <1>8 DEF Pass

LEMMA WakeStep ==
    ASSUME ScheduleInv, ScheduleNext, ScheduleTypes'
    PROVE  WakeInv'
<1> USE DEF ScheduleInv, ScheduleTypes
<1>1. CASE WriterCommits
  <2>1. Head(waiting) \in Commits
    BY <1>1 DEF WriterCommits, StoreTypes
  <2>2. Claimed \subseteq Claimed'
    BY <1>1, <2>1, WrittenClaims DEF WriterCommits
  <2> QED BY <1>1, <2>2, WakeFrame DEF WriterCommits
<1>2. CASE TaskChanges
  <2>1. kick' \/ graph' # "running"
    BY <1>2 DEF TaskChanges, Changes, Listener
  <2>2. CASE pass.at \in WithTasks
    <3>1. Listener /\ pass' = pass
      BY <1>2 DEF TaskChanges, Changes
    <3>2. graph = "running"
      BY <2>2 DEF StoreInv, Alive, Idle, WithTasks
    <3>3. kick'
      BY <3>1, <3>2, Zenon DEF Listener
    <3> QED BY <3>1, <3>3 DEF WakeInv, FireIsLatest, ReadIsCurrent, DueIsLeft, NothingDueIsSlept, Parses
  <2>3. CASE pass.at \notin WithTasks
    BY <1>2, <2>1, <2>3, Kicked DEF TaskChanges, Changes
  <2> QED BY <2>2, <2>3
<1>3. CASE Pass
  BY <1>3, PassWakeStep
<1>4. CASE ClockTicks
  BY <1>4, WakeFrame DEF ClockTicks, storeVars, Claimed
<1>5. CASE TimerKicks
  BY <1>5 DEF TimerKicks, WakeInv, FireIsLatest, ReadIsCurrent, DueIsLeft, NothingDueIsSlept, Parses
<1>6. CASE ScheduleStarts \/ ScheduleResumes \/ SchedulePauses \/ ScheduleStops
  <2>1. kick' \/ graph' # "running"
    BY <1>6 DEF ScheduleStarts, ScheduleResumes, SchedulePauses, ScheduleStops, GraphTransition
  <2>2. pass'.at \notin WithTasks
    BY <1>6 DEF ScheduleStarts, ScheduleResumes, SchedulePauses, ScheduleStops, GraphTransition, Idle,
                WithTasks
  <2> QED BY <2>1, <2>2, Kicked
<1>7. CASE ProcessExits \/ BootRecovers \/ BootSeeds
  <2>1. graph' # "running" /\ pass' = Idle
    BY <1>7 DEF ProcessExits, BootRecovers, BootSeeds, StoreInv, Alive
  <2>2. pass'.at \notin WithTasks
    BY <2>1 DEF Idle, WithTasks
  <2> QED BY <2>1, <2>2, Kicked
<1> QED BY <1>1, <1>2, <1>3, <1>4, <1>5, <1>6, <1>7 DEF ScheduleNext

-----------------------------------------------------------------------------

LEMMA ScheduleInvHolds == ScheduleSpec => []ScheduleInv
<1>1. ScheduleInit => ScheduleInv
  <2> SUFFICES ASSUME ScheduleInit PROVE ScheduleInv
    OBVIOUS
  <2>1. pass.at = "idle" /\ pass = Idle
    BY DEF ScheduleInit, Idle
  <2>2. StoreTypes
    BY DEF ScheduleInit, StoreTypes, Undeclared, Claimed
  <2>3. ProcTypes /\ PassTypes
    BY <2>1 DEF ScheduleInit, ProcTypes, PassTypes, WithTasks, WithFire
  <2>4. StoreInv
    BY <2>1 DEF ScheduleInit, StoreInv, Alive, HeldByWriter, HeldByPass, CalledOnce, OpenIsHeld
  <2>5. WakeInv
    BY <2>1 DEF ScheduleInit, WakeInv, FireIsLatest, ReadIsCurrent, DueIsLeft, NothingDueIsSlept,
                WithTasks, WithFire
  <2> QED BY <2>2, <2>3, <2>4, <2>5 DEF ScheduleInv, ScheduleTypes
<1>2. ScheduleInv /\ [ScheduleNext]_scheduleVars => ScheduleInv'
  <2>1. ASSUME ScheduleInv, ScheduleNext PROVE ScheduleInv'
    <3>1. ScheduleTypes'
      BY <2>1, StoreTypesStep, ProcTypesStep, PassTypesStep DEF ScheduleTypes
    <3> QED BY <2>1, <3>1, StoreStep, WakeStep DEF ScheduleInv
  <2>2. ASSUME ScheduleInv, UNCHANGED scheduleVars PROVE ScheduleInv'
    <3>1. /\ UNCHANGED <<now, declared, receipt, waiting, boot, graph, kick>>
          /\ UNCHANGED <<timers, pass, calls, given, broken>>
      BY <2>2 DEF scheduleVars
    <3>2. Claimed' = Claimed /\ Owned' = Owned /\ (AllParse' <=> AllParse)
      BY <3>1 DEF Claimed, Owned, AllParse, Parses
    <3>3. ScheduleTypes'
      BY <2>2, <3>1, <3>2 DEF ScheduleInv, ScheduleTypes, StoreTypes, ProcTypes, PassTypes
    <3>4. StoreInv'
      BY <2>2, <3>1 DEF ScheduleInv, StoreInv, Alive, HeldByWriter, HeldByPass, CalledOnce, OpenIsHeld
    <3>5. WakeInv'
      BY <2>2, <3>1, <3>2, <3>3, WakeFrame
    <3> QED BY <3>3, <3>4, <3>5 DEF ScheduleInv
  <2> QED BY <2>1, <2>2
<1> QED BY <1>1, <1>2, PTL DEF ScheduleSpec

\* Tasks, receipts, the writer's queue, the proc and its pass are well typed
\* in every reachable state.
THEOREM ScheduleTypeCorrect == ScheduleSpec => []ScheduleTypes
<1>1. ScheduleInv => ScheduleTypes
  BY DEF ScheduleInv
<1> QED BY <1>1, ScheduleInvHolds, PTL

\* No fire is carried out twice, left open unnoticed, or waited for by nobody,
\* whatever the writer, the clock, the tasks and the process do.
THEOREM FiresAccounted == ScheduleSpec => []FiresAreAccounted
<1>1. ScheduleInv => FiresAreAccounted
  BY DEF ScheduleInv, StoreInv, WakeInv, FiresAreAccounted
<1> QED BY <1>1, ScheduleInvHolds, PTL
=============================================================================
