---------------------------- MODULE DatasetLock ----------------------------
(***************************************************************************)
(* The lock of the evaluation datasets                                     *)
(* (src/src-inspect-ai/src/seon_inspect/freeze.py).                        *)
(*                                                                         *)
(* The corpus of a source is drawn into three tiers.  The lock keeps the   *)
(* members of dev and milestone and a digest of the members of test, which *)
(* is recomputed for a formal evaluation.  Corpora move upstream, the      *)
(* specification of the draw is edited, and the command that writes the    *)
(* lock may be cut off.                                                    *)
(***************************************************************************)
EXTENDS SequencesExt

CONSTANTS
    Corpora,      \* the corpora upstream may serve: sets of [id, content, stratum]
    Specs,        \* the sizes, the stratification and the exclusions a source may have
    Generators,   \* the versions of the generators of the bespoke rows
    Shuffle,      \* for each seed and each length, the order the seeded generator gives
    MaxServes,    \* bound on the runs of a tier
    MaxCanaries,  \* bound on the canaries minted
    MaxEdits      \* bound on the changes upstream and in the specification

ASSUME BoundsAssumption == MaxServes \in Nat /\ MaxCanaries \in Nat /\ MaxEdits \in Nat
ASSUME SpecsAssumption == \A s \in Specs : s.dev \in Nat /\ s.milestone \in Nat

VARIABLES
    corpus,     \* what upstream serves now
    spec,       \* what the source specifies now
    generator,  \* the version of the generators
    lock,       \* datasets.lock
    artifact,   \* the dev artifact of the bespoke row: the version that wrote it
    canaries,   \* how many canaries were minted
    freezer,    \* where the command stands
    runner,     \* where the run of a split stands
    served,     \* the runs of a tier that were started
    edits       \* how often upstream or the specification changed

lockVars == <<corpus, spec, generator, lock, artifact, canaries, freezer, runner, served, edits>>

NoLock == [kind |-> "absent"]
Truncated == [kind |-> "truncated"]
Readable(l) == l.kind = "lock"

-----------------------------------------------------------------------------
(* The draw.                                                               *)

Ids(rows) == {row.id : row \in rows}
IdsOf(ordered) == [i \in DOMAIN ordered |-> ordered[i].id]

(* _dataset_rows, _manifest_rows: an id names one row. *)
NoDuplicates(rows) == \A a, b \in rows : a.id = b.id => a = b

Canonical(rows) == SetToSortSeq(rows, LAMBDA a, b : a.id < b.id)
Shuffled(seq, seed) == [i \in DOMAIN seq |-> seq[Shuffle[seed][Len(seq)][i]]]

(* The strata, each shuffled, are dealt round by round. *)
StratumQueues(rows, seed) ==
    [label \in {row.stratum : row \in rows} |->
        Shuffled(SelectSeq(Canonical(rows), LAMBDA row : row.stratum = label), seed)]

RoundRobin(queues, labels) ==
    LET rounds == {Len(queues[label]) : label \in Range(labels)}
        round(n) == FlattenSeq([i \in DOMAIN labels |->
                       IF n \in DOMAIN queues[labels[i]] THEN <<queues[labels[i]][n]>> ELSE <<>>])
    IN  FlattenSeq([n \in 1..(IF rounds = {} THEN 0 ELSE Max(rounds)) |-> round(n)])

OrderedDraw(rows, seed, stratify) ==
    IF ~stratify THEN Shuffled(Canonical(rows), seed)
    ELSE LET queues == StratumQueues(rows, seed)
         IN  RoundRobin(queues, Shuffled(SetToSortSeq(DOMAIN queues, <), seed))

(* excluded_ids, _apply_exclusions: excluded ids leave the drawn order as  *)
(* it is; one that is not in the corpus is an error.                       *)
ExclusionsPresent(rows, excluded) == excluded \subseteq Ids(rows)
Eligible(ordered, excluded) == SelectSeq(ordered, LAMBDA row : row.id \notin excluded)

(* split_ids: test is a nonempty reserve. *)
LargeEnough(ordered, devN, milestoneN) == Len(ordered) > devN + milestoneN
SplitIds(ordered, devN, milestoneN) ==
    LET ids == IdsOf(ordered)
    IN  [dev       |-> SubSeq(ids, 1, devN),
         milestone |-> SubSeq(ids, devN + 1, devN + milestoneN),
         test      |-> SubSeq(ids, devN + milestoneN + 1, Len(ids))]

Drawn(rows, seed, s) == Eligible(OrderedDraw(rows, seed, s.stratify), s.excluded)

Seed == "seed"

(* The seeded generator permutes, and the strata are dealt out: a corpus   *)
(* without duplicates is drawn row by row, no id of it twice.              *)
ASSUME DrawAssumption ==
    \A rows \in Corpora, s \in Specs :
        NoDuplicates(rows) =>
            Drawn(rows, Seed, s) \in Seq(rows) /\ IsInjective(IdsOf(Drawn(rows, Seed, s)))

Drawable(rows, s, devN, milestoneN) ==
    /\ NoDuplicates(rows)
    /\ ExclusionsPresent(rows, s.excluded)
    /\ LargeEnough(Drawn(rows, Seed, s), devN, milestoneN)

-----------------------------------------------------------------------------
(* build_lock: a canary is carried over, or minted. *)

CanaryFor(l) == IF Readable(l) THEN l.canary ELSE canaries + 1

LockOf(rows, s, version, canary) ==
    LET tiers == SplitIds(Drawn(rows, Seed, s), s.dev, s.milestone)
    IN  [kind |-> "lock", seed |-> Seed, stratify |-> s.stratify, excluded |-> s.excluded,
         content |-> rows, dev |-> tiers.dev, milestone |-> tiers.milestone,
         test |-> Range(tiers.test), canary |-> canary, artifact |-> version]

(* verify_lock: the lock is built again and compared, and so is the        *)
(* artifact.                                                               *)
Drifts(l) ==
    \/ ~Drawable(corpus, spec, spec.dev, spec.milestone)
    \/ l # LockOf(corpus, spec, generator, l.canary)
    \/ artifact # generator

-----------------------------------------------------------------------------
LockInit ==
    /\ corpus \in Corpora /\ spec \in Specs
    /\ generator \in Generators
    /\ lock = NoLock
    /\ artifact = 0
    /\ canaries = 0
    /\ freezer = [pc |-> "idle", next |-> NoLock, verdict |-> "none"]
    /\ runner = [pc |-> "idle", tier |-> "none", split |-> <<>>, canary |-> 0, wanted |-> {},
                 under |-> NoLock]
    /\ served = {}
    /\ edits = 0

(* main without --write: the lock that is there is verified. *)
Verifies ==
    /\ freezer.pc = "idle" /\ Readable(lock)
    /\ freezer' = [freezer EXCEPT !.verdict = IF Drifts(lock) THEN "drift" ELSE "verified"]
    /\ UNCHANGED <<corpus, spec, generator, lock, artifact, canaries, runner, served, edits>>

(* main, with --write or without a lock.  A lock that cannot be parsed     *)
(* ends it, and a source that cannot be drawn does.                        *)
Builds ==
    /\ freezer.pc = "idle" /\ lock # Truncated
    /\ Readable(lock) \/ canaries < MaxCanaries
    /\ Drawable(corpus, spec, spec.dev, spec.milestone)
    /\ freezer' = [freezer EXCEPT !.pc = "writes", !.verdict = "none",
                                  !.next = LockOf(corpus, spec, generator, CanaryFor(lock))]
    /\ canaries' = IF Readable(lock) THEN canaries ELSE canaries + 1
    /\ UNCHANGED <<corpus, spec, generator, lock, artifact, runner, served, edits>>

(* The lock is written in place: the command may be cut off in the middle. *)
WritesLock ==
    /\ freezer.pc = "writes"
    /\ \/ lock' = freezer.next /\ freezer' = [freezer EXCEPT !.pc = "artifacts", !.next = NoLock]
       \/ lock' = Truncated /\ freezer' = [freezer EXCEPT !.pc = "idle", !.next = NoLock]
    /\ UNCHANGED <<corpus, spec, generator, artifact, canaries, runner, served, edits>>

(* write_bespoke_artifacts, after the lock; or the command was cut off. *)
WritesArtifacts ==
    /\ freezer.pc = "artifacts"
    /\ artifact' \in {artifact, lock.artifact}
    /\ freezer' = [freezer EXCEPT !.pc = "idle"]
    /\ UNCHANGED <<corpus, spec, generator, lock, canaries, runner, served, edits>>

(* A lock that cannot be read is deleted by hand. *)
DeletesLock ==
    /\ lock = Truncated /\ freezer.pc = "idle"
    /\ lock' = NoLock
    /\ UNCHANGED <<corpus, spec, generator, artifact, canaries, freezer, runner, served, edits>>

-----------------------------------------------------------------------------
(* load_split, run_split.                                                  *)

Selects(tier, ids, canary) ==
    runner' = [pc |-> "loads", tier |-> tier, split |-> ids, canary |-> canary, wanted |-> {},
               under |-> lock]

(* dev and milestone are read from the lock alone. *)
LoadsTunedTier ==
    /\ runner.pc = "idle" /\ Cardinality(served) < MaxServes /\ Readable(lock)
    /\ \/ Selects("dev", lock.dev, 0)
       \/ Selects("milestone", lock.milestone, 0)
    /\ UNCHANGED <<corpus, spec, generator, lock, artifact, canaries, freezer, served, edits>>

(* Mutant of FormalTierFits: the reserve is not compared with the lock. *)
FormalTierUnchecked(l) == Drawable(corpus, spec, Len(l.dev), Len(l.milestone))

(* test is drawn again from what upstream serves, with the seed and the    *)
(* sizes of the lock, and its digest is compared with the lock's.          *)
FormalSplit(l) == SplitIds(Drawn(corpus, l.seed, spec), Len(l.dev), Len(l.milestone)).test

FormalTierFits(l) ==
    /\ Drawable(corpus, spec, Len(l.dev), Len(l.milestone))
    /\ Range(FormalSplit(l)) = l.test

LoadsFormalTier ==
    /\ runner.pc = "idle" /\ Cardinality(served) < MaxServes /\ Readable(lock)
    /\ FormalTierFits(lock)
    /\ Selects("test", FormalSplit(lock), lock.canary)
    /\ UNCHANGED <<corpus, spec, generator, lock, artifact, canaries, freezer, served, edits>>

(* _position_subset: all of the split, or the ids at some positions of it; *)
(* the run is filtered by them, in whatever order.                         *)
PositionSubset(split, positions) ==
    IF positions = {} THEN Range(split) ELSE {split[i] : i \in positions}

SelectsPositions ==
    /\ runner.pc = "loads"
    /\ \E positions \in SUBSET DOMAIN runner.split :
          runner' = [runner EXCEPT !.pc = "runs", !.wanted = PositionSubset(runner.split, positions)]
    /\ UNCHANGED <<corpus, spec, generator, lock, artifact, canaries, freezer, served, edits>>

(* The task is loaded from upstream, the samples of the formal tier are    *)
(* marked with the canary, and the run is filtered by the ids.             *)
RunsSplit ==
    /\ runner.pc = "runs"
    /\ served' = served \cup
          {[tier |-> runner.tier, canary |-> runner.canary, under |-> runner.under,
            ids |-> runner.wanted \cap Ids(corpus)]}
    /\ runner' = [runner EXCEPT !.pc = "idle", !.split = <<>>, !.wanted = {}, !.tier = "none",
                                !.canary = 0, !.under = NoLock]
    /\ UNCHANGED <<corpus, spec, generator, lock, artifact, canaries, freezer, edits>>

-----------------------------------------------------------------------------
UpstreamMoves ==
    /\ edits < MaxEdits
    /\ \/ corpus' \in Corpora \ {corpus} /\ UNCHANGED <<spec, generator>>
       \/ spec' \in Specs \ {spec} /\ UNCHANGED <<corpus, generator>>
       \/ generator' \in Generators \ {generator} /\ UNCHANGED <<corpus, spec>>
    /\ edits' = edits + 1
    /\ UNCHANGED <<lock, artifact, canaries, freezer, runner, served>>

LockNext ==
    \/ Verifies \/ Builds \/ WritesLock \/ WritesArtifacts \/ DeletesLock
    \/ LoadsTunedTier \/ LoadsFormalTier \/ SelectsPositions \/ RunsSplit
    \/ UpstreamMoves

LockSpec == LockInit /\ [][LockNext]_lockVars

-----------------------------------------------------------------------------
(* The blind reserve stays blind: under one lock, no sample of a formal    *)
(* evaluation is a sample that was run for development or as a milestone,  *)
(* whatever upstream serves and the source specifies by then.              *)
BlindStaysBlind ==
    \A formal, tuned \in served :
        formal.tier = "test" /\ tuned.tier # "test" /\ formal.under = tuned.under =>
            formal.ids \cap tuned.ids = {}
=============================================================================
