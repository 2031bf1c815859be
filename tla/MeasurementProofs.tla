-------------------------- MODULE MeasurementProofs --------------------------
(***************************************************************************)
(* What TLAPS proves of the graders, and of the offline tools and data.    *)
(*                                                                         *)
(* Of the tools, for any rows, limits, plans, budgets, losses and kills:   *)
(* that the tools take up again what they were cut short in.  In a         *)
(* prediction run every row is in the file, in one request in flight, or   *)
(* not yet handed out, and a save appends what is in neither the file nor  *)
(* another request.  In a training run the weights have every batch before *)
(* the step beside them, and only a kill between the two files gives them  *)
(* more; what a batch is follows from packing row by row, by induction on  *)
(* the rows that are packed.                                               *)
(*                                                                         *)
(* Of the data, for any cards, dumps, menus and situations: that a         *)
(* full call bridges back to the form of its turn, whatever order the      *)
(* tools are listed in, and that a training row made for a function is one *)
(* it accepted when the row's query was gated, and shares nothing with     *)
(* what is held out.  A row is followed from its building on; the calls of *)
(* a row are translated one argument at a time and bridged back likewise,  *)
(* and a menu is trimmed and topped up tool by tool, by induction on the   *)
(* tools.                                                                  *)
(*                                                                         *)
(* Of the graders, for any forms, openings, plans, pods and leases: that a *)
(* pass is earned.  The world an episode leaves is what its rows made of   *)
(* it, and a response in order is those rows, so what an oracle finds in   *)
(* the rows happened.  Milestones: what the pod holds is witnessed by rows *)
(* one after the other.  Continuity: the instants of the steps are of      *)
(* their phase, and how the rows went about it is told by the rows.  The   *)
(* plan experiment: every plan there was is one of the evidence or of the  *)
(* harness's record.  Reachability: prompts and rows are moments in order, *)
(* and what follows in them an agent's chain followed too.  The product    *)
(* scenarios: the snapshot is of the branch as it is.                      *)
(***************************************************************************)
EXTENDS Measurement, SequenceTheorems, FiniteSetTheorems, WellFoundedInduction, TLAPS

-----------------------------------------------------------------------------
(* ExtensionTraining: the batches of a plan.                               *)

\* Induction on the natural numbers, said of a set.
LEMMA NatInductionInSet ==
    ASSUME NEW S, 0 \in S, \A n \in Nat : n \in S => n + 1 \in S
    PROVE  Nat \subseteq S
<1> SUFFICES ASSUME ~(Nat \subseteq S) PROVE FALSE
  OBVIOUS
<1> DEFINE T == Nat \ S
<1>1. T \subseteq Nat /\ T # {}
  OBVIOUS
<1>2. PICK m \in T : \A n \in T : <<n, m>> \notin OpToRel(<, Nat)
  BY <1>1, WFMin, NatLessThanWellFounded, Zenon
<1>3. m \in Nat /\ m \notin S /\ m # 0 /\ m - 1 \in Nat
  OBVIOUS
<1>4. m - 1 \notin T
  <2> SUFFICES ASSUME m - 1 \in T PROVE FALSE
    OBVIOUS
  <2>1. m - 1 < m
    BY <1>3
  <2> QED BY <1>2, <1>3, <2>1, Zenon DEF OpToRel
<1>5. (m - 1) + 1 \in S
  BY <1>3, <1>4
<1> QED BY <1>3, <1>5

\* Among any rows one is the longest, and the first of those.
LEMMA LongestExists ==
    ASSUME NEW n \in Nat, NEW lens \in [1..n -> Nat], NEW rows \in SUBSET (1..n), rows # {}
    PROVE  \E i \in rows : \A j \in rows : lens[j] < lens[i] \/ (lens[j] = lens[i] /\ i <= j)
<1> DEFINE Longest(R, i) == i \in R /\ \A j \in R : lens[j] < lens[i] \/ (lens[j] = lens[i] /\ i <= j)
           S == {m \in Nat : m <= n => \A R \in SUBSET (1..m) : R # {} => \E i : Longest(R, i)}
<1>1. 0 \in S
  OBVIOUS
<1>2. ASSUME NEW m \in Nat, m \in S PROVE m + 1 \in S
  <2> SUFFICES ASSUME m + 1 <= n PROVE \A R \in SUBSET (1..(m + 1)) : R # {} => \E i : Longest(R, i)
    <3> HIDE DEF Longest
    <3> QED OBVIOUS
  <2> TAKE R \in SUBSET (1..(m + 1))
  <2> HAVE R # {}
  <2>1. CASE m + 1 \notin R
    <3>1. R \in SUBSET (1..m)
      BY <2>1
    <3> QED BY <1>2, <3>1
  <2>2. CASE R = {m + 1}
    <3>1. Longest(R, m + 1)
      BY <2>2
    <3> QED BY <3>1
  <2>3. CASE m + 1 \in R /\ R # {m + 1}
    <3>1. R \ {m + 1} \in SUBSET (1..m) /\ R \ {m + 1} # {}
      BY <2>3
    <3>2. PICK i : Longest(R \ {m + 1}, i)
      <4> HIDE DEF Longest
      <4>1. m <= n
        OBVIOUS
      <4>2. \A Q \in SUBSET (1..m) : Q # {} => \E i : Longest(Q, i)
        BY <1>2, <4>1
      <4> QED BY <3>1, <4>2, Zenon
    <3>3. \A j \in R : lens[j] \in Nat /\ j \in Nat
      OBVIOUS
    <3>4. CASE lens[m + 1] > lens[i]
      <4>1. Longest(R, m + 1)
        BY <2>3, <3>2, <3>3, <3>4
      <4> QED BY <4>1
    <3>5. CASE ~(lens[m + 1] > lens[i])
      <4>1. Longest(R, i)
        BY <2>3, <3>1, <3>2, <3>3, <3>5
      <4> QED BY <4>1
    <3> QED BY <3>4, <3>5
  <2> QED BY <2>1, <2>2, <2>3
<1>3. n \in S
  <2> HIDE DEF S
  <2> QED BY <1>1, <1>2, NatInductionInSet
<1>4. \E i : Longest(rows, i)
  <2> HIDE DEF Longest
  <2> QED BY <1>3
<1> QED BY <1>4

\* What is packed after each row is what a row adds to what was packed before.
LEMMA PackingIsDefined ==
    ASSUME NEW lens, Len(lens) \in Nat
    PROVE  Packing(lens) =
             [k \in 0..Len(lens) |-> IF k = 0 THEN [batches |-> <<>>, current |-> {}, rest |-> DOMAIN lens]
                                              ELSE Packs(lens, Packing(lens)[k - 1])]
<1> DEFINE base == [batches |-> <<>>, current |-> {}, rest |-> DOMAIN lens]
           Packed(f, n) == f = [k \in 0..n |-> IF k = 0 THEN base ELSE Packs(lens, f[k - 1])]
           S == {n \in Nat : \E f : Packed(f, n)}
<1> HIDE DEF base
<1>1. 0 \in S
  <2>1. Packed([k \in 0..0 |-> base], 0)
    OBVIOUS
  <2> QED BY <2>1
<1>2. ASSUME NEW n \in Nat, n \in S PROVE n + 1 \in S
  <2>1. PICK f : Packed(f, n)
    BY <1>2
  <2> DEFINE g == [k \in 0..(n + 1) |-> IF k = n + 1 THEN Packs(lens, f[n]) ELSE f[k]]
  <2>2. ASSUME NEW k \in 0..(n + 1) PROVE g[k] = IF k = 0 THEN base ELSE Packs(lens, g[k - 1])
    <3>1. CASE k = n + 1
      <4>1. k - 1 = n /\ n \in 0..(n + 1) /\ n # n + 1 /\ k # 0
        BY <3>1
      <4>2. g[k - 1] = f[n]
        BY <4>1
      <4> QED BY <3>1, <4>1, <4>2
    <3>2. CASE k = 0
      BY <2>1, <3>2
    <3>3. CASE k \in 1..n
      <4>1. g[k] = f[k] /\ g[k - 1] = f[k - 1]
        BY <3>3
      <4>2. f[k] = Packs(lens, f[k - 1])
        BY <2>1, <3>3
      <4> QED BY <3>3, <4>1, <4>2
    <3> QED BY <3>1, <3>2, <3>3
  <2>3. g = [k \in 0..(n + 1) |-> IF k = 0 THEN base ELSE Packs(lens, g[k - 1])]
    <3> HIDE DEF g
    <3>1. g = [k \in 0..(n + 1) |-> g[k]]
      BY DEF g
    <3> QED BY <2>2, <3>1
  <2>4. Packed(g, n + 1)
    BY <2>3
  <2> HIDE DEF g, Packed
  <2> QED BY <2>4
<1>3. \E f : Packed(f, Len(lens))
  <2>1. Len(lens) \in S
    <3> HIDE DEF S
    <3> QED BY <1>1, <1>2, NatInductionInSet
  <2> QED BY <2>1
<1>4. Packed(CHOOSE f : Packed(f, Len(lens)), Len(lens))
  <2> HIDE DEF Packed
  <2> QED BY <1>3
<1>5. Packing(lens) = CHOOSE f : Packed(f, Len(lens))
  BY DEF Packing, base
<1> QED BY <1>4, <1>5 DEF base

\* The longest of some rows is a number, theirs.
LEMMA LongestOfRows ==
    ASSUME NEW n \in Nat, NEW lens \in [1..n -> Nat], NEW rows \in SUBSET (1..n)
    PROVE  LongestOf(lens, rows) \in Nat
<1>1. CASE rows = {}
  BY <1>1 DEF LongestOf
<1>2. CASE rows # {}
  <2>1. PICK i \in rows : \A j \in rows : lens[j] < lens[i] \/ (lens[j] = lens[i] /\ i <= j)
    BY <1>2, LongestExists
  <2>2. \A j \in rows : lens[j] \in Nat /\ lens[j] <= lens[i]
    BY <2>1
  <2>3. \E m \in {lens[j] : j \in rows} : \A j \in rows : lens[j] <= m
    BY <2>2
  <2>4. LongestOf(lens, rows) \in {lens[j] : j \in rows}
    BY <1>2, <2>3 DEF LongestOf
  <2> QED BY <2>2, <2>4
<1> QED BY <1>1, <1>2

Fits(lens, batch) ==
    Cardinality(batch) = 1 \/ Cardinality(batch) * LongestOf(lens, batch) <= TokenBudget

\* What is packed after k rows: each row is in one batch, in the batch that is
\* filled, or among the rest; and a batch fits.
PackedSoFar(n, lens, k, acc) ==
    /\ acc \in [batches : Seq(SUBSET (1..n)), current : SUBSET (1..n), rest : SUBSET (1..n)]
    /\ Cardinality(acc.rest) = n - k
    /\ \A i \in 1..n : i \in acc.rest \/ i \in acc.current \/ \E b \in DOMAIN acc.batches : i \in acc.batches[b]
    /\ acc.rest \cap acc.current = {}
    /\ \A b \in DOMAIN acc.batches : acc.batches[b] \cap (acc.rest \cup acc.current) = {}
    /\ \A b, c \in DOMAIN acc.batches : b # c => acc.batches[b] \cap acc.batches[c] = {}
    /\ \A b \in DOMAIN acc.batches : Fits(lens, acc.batches[b])
    /\ acc.current # {} => Fits(lens, acc.current)

LEMMA PacksKeeps ==
    ASSUME NEW n \in Nat, NEW lens \in [1..n -> Nat], NEW k \in 0..(n - 1), NEW acc,
           PackedSoFar(n, lens, k, acc)
    PROVE  PackedSoFar(n, lens, k + 1, Packs(lens, acc))
<1> DEFINE i == NextLongest(lens, acc.rest)
           padded == LongestOf(lens, {i} \cup acc.current)
           new == Packs(lens, acc)
<1>1. /\ acc \in [batches : Seq(SUBSET (1..n)), current : SUBSET (1..n), rest : SUBSET (1..n)]
      /\ Cardinality(acc.rest) = n - k
  BY DEF PackedSoFar
<1>2. IsFiniteSet(acc.rest) /\ IsFiniteSet(acc.current)
  <2>1. IsFiniteSet(1..n)
    BY FS_Interval
  <2>2. acc.rest \subseteq 1..n /\ acc.current \subseteq 1..n
    BY <1>1
  <2> QED BY <2>1, <2>2, FS_Subset
<1>3. acc.rest # {}
  <2> SUFFICES ASSUME acc.rest = {} PROVE FALSE
    OBVIOUS
  <2>1. Cardinality(acc.rest) = 0
    BY FS_EmptySet
  <2> QED BY <1>1, <2>1
<1>4. i \in acc.rest
  <2>1. \E r \in acc.rest : \A j \in acc.rest : lens[j] < lens[r] \/ (lens[j] = lens[r] /\ r <= j)
    BY <1>1, <1>3, LongestExists
  <2> QED BY <2>1 DEF NextLongest
<1>5. Cardinality(acc.rest \ {i}) = n - (k + 1)
  <2>1. Cardinality(acc.rest \ {i}) = Cardinality(acc.rest) - 1
    BY <1>2, <1>4, FS_RemoveElement
  <2> QED BY <1>1, <2>1
<1>6. i \in 1..n /\ i \notin acc.current /\ \A b \in DOMAIN acc.batches : i \notin acc.batches[b]
  BY <1>1, <1>4 DEF PackedSoFar
<1>7. padded \in Nat /\ TokenBudget \in Nat
  BY <1>1, <1>6, LongestOfRows, TrainingConstants
<1>8. Cardinality(acc.current \cup {i}) = Cardinality(acc.current) + 1 /\ Cardinality(acc.current) \in Nat
  BY <1>2, <1>6, FS_AddElement, FS_CardinalityType
<1>9. Fits(lens, {i})
  BY FS_Singleton DEF Fits
<1>10. CASE acc.current # {} /\ (Cardinality(acc.current) + 1) * padded > TokenBudget
  <2>1. new = [batches |-> Append(acc.batches, acc.current), current |-> {i}, rest |-> acc.rest \ {i}]
    BY <1>10 DEF Packs
  <2> DEFINE m == Len(acc.batches)
  <2>2. /\ acc.batches \in Seq(SUBSET (1..n)) /\ m \in Nat /\ DOMAIN acc.batches = 1..m
        /\ new.batches \in Seq(SUBSET (1..n)) /\ DOMAIN new.batches = 1..(m + 1)
        /\ new.batches[m + 1] = acc.current /\ \A b \in 1..m : new.batches[b] = acc.batches[b]
        /\ new.current = {i} /\ new.rest = acc.rest \ {i}
    BY <1>1, <2>1
  <2>3. new \in [batches : Seq(SUBSET (1..n)), current : SUBSET (1..n), rest : SUBSET (1..n)]
    BY <1>1, <1>6, <2>1, <2>2
  <2>8. /\ \A b \in 1..m : acc.batches[b] \cap (acc.rest \cup acc.current) = {} /\ Fits(lens, acc.batches[b])
        /\ \A b, c \in 1..m : b # c => acc.batches[b] \cap acc.batches[c] = {}
        /\ acc.rest \cap acc.current = {} /\ Fits(lens, acc.current)
        /\ \A j \in 1..n : j \in acc.rest \/ j \in acc.current \/ \E b \in 1..m : j \in acc.batches[b]
    BY <1>10, <2>2 DEF PackedSoFar
  <2>9. \A b \in DOMAIN new.batches : b = m + 1 \/ b \in 1..m
    BY <2>2
  <2>10. \A b \in 1..(m + 1) : b = m + 1 \/ b \in 1..m
    BY <2>2
  <2> HIDE DEF new, i, padded, m
  <2>4. \A j \in 1..n : j \in new.rest \/ j \in new.current \/ \E b \in DOMAIN new.batches : j \in new.batches[b]
    <3> SUFFICES ASSUME NEW j \in 1..n PROVE j \in new.rest \/ j \in new.current \/ \E b \in DOMAIN new.batches : j \in new.batches[b]
      OBVIOUS
    <3>1. CASE j \in acc.rest
      BY <2>2, <3>1
    <3>2. CASE j \in acc.current
      <4>1. m + 1 \in DOMAIN new.batches /\ j \in new.batches[m + 1]
        BY <2>2, <3>2
      <4> QED BY <4>1
    <3>3. CASE \E b \in 1..m : j \in acc.batches[b]
      <4>1. PICK b \in 1..m : j \in acc.batches[b]
        BY <3>3
      <4>2. b \in DOMAIN new.batches /\ j \in new.batches[b]
        BY <2>2, <4>1, SMTT(30)
      <4> QED BY <4>2
    <3> QED BY <2>8, <3>1, <3>2, <3>3
  <2>5. \A b \in DOMAIN new.batches : new.batches[b] \cap (new.rest \cup new.current) = {}
    <3> SUFFICES ASSUME NEW b \in 1..(m + 1) PROVE new.batches[b] \cap (new.rest \cup new.current) = {}
      BY <2>2
    <3>1. CASE b = m + 1
      BY <1>6, <2>2, <2>8, <3>1
    <3>2. CASE b \in 1..m
      <4>1. new.batches[b] = acc.batches[b] /\ acc.batches[b] \cap (acc.rest \cup acc.current) = {}
        BY <2>2, <2>8, <3>2
      <4>2. new.rest \cup new.current \subseteq acc.rest \cup {i} /\ i \in acc.rest
        BY <1>4, <2>2
      <4> QED BY <4>1, <4>2
    <3> QED BY <2>10, <3>1, <3>2
  <2>6. \A b, c \in DOMAIN new.batches : b # c => new.batches[b] \cap new.batches[c] = {}
    <3> SUFFICES ASSUME NEW b \in 1..(m + 1), NEW c \in 1..(m + 1), b # c PROVE new.batches[b] \cap new.batches[c] = {}
      BY <2>2
    <3>1. CASE b \in 1..m /\ c \in 1..m
      <4>1. new.batches[b] = acc.batches[b] /\ new.batches[c] = acc.batches[c]
        BY <2>2, <3>1
      <4> QED BY <2>8, <3>1, <4>1
    <3>2. CASE b = m + 1
      <4>1. c \in 1..m /\ new.batches[b] = acc.current /\ new.batches[c] = acc.batches[c]
        BY <2>2, <2>10, <3>2
      <4> QED BY <2>8, <4>1
    <3>3. CASE c = m + 1
      <4>1. b \in 1..m /\ new.batches[c] = acc.current /\ new.batches[b] = acc.batches[b]
        BY <2>2, <2>10, <3>3
      <4> QED BY <2>8, <4>1
    <3> QED BY <2>10, <3>1, <3>2, <3>3
  <2>7. \A b \in DOMAIN new.batches : Fits(lens, new.batches[b])
    <3> TAKE b \in DOMAIN new.batches
    <3>1. CASE b = m + 1
      BY <2>2, <2>8, <3>1
    <3>2. CASE b \in 1..m
      BY <2>2, <2>8, <3>2
    <3> QED BY <2>9, <3>1, <3>2
  <2>11. Cardinality(new.rest) = n - (k + 1) /\ Fits(lens, new.current) /\ new.rest \cap new.current = {}
    BY <1>4, <1>5, <1>9, <2>2
  <2>12. PackedSoFar(n, lens, k + 1, new)
    BY <2>3, <2>4, <2>5, <2>6, <2>7, <2>11 DEF PackedSoFar
  <2> QED BY <2>12 DEF new
<1>11. CASE ~(acc.current # {} /\ (Cardinality(acc.current) + 1) * padded > TokenBudget)
  <2>1. new = [acc EXCEPT !.current = @ \cup {i}, !.rest = @ \ {i}]
    BY <1>11 DEF Packs
  <2>6. i \in 1..n
    BY <1>6
  <2> HIDE DEF i, padded, new
  <2>2. /\ new.batches = acc.batches /\ new.current = acc.current \cup {i} /\ new.rest = acc.rest \ {i}
        /\ new \in [batches : Seq(SUBSET (1..n)), current : SUBSET (1..n), rest : SUBSET (1..n)]
    BY <1>1, <2>1, <2>6
  <2>3. Fits(lens, new.current)
    <3>1. CASE acc.current = {}
      BY <1>9, <2>2, <3>1
    <3>2. CASE acc.current # {}
      <4>1. (Cardinality(acc.current) + 1) * padded <= TokenBudget
        BY <1>7, <1>8, <1>11, <3>2
      <4>2. {i} \cup acc.current = new.current
        BY <2>2
      <4> QED BY <1>8, <2>2, <4>1, <4>2 DEF Fits, padded
    <3> QED BY <3>1, <3>2
  <2>4. \A j \in 1..n : j \in new.rest \/ j \in new.current \/ \E b \in DOMAIN new.batches : j \in new.batches[b]
    BY <2>2 DEF PackedSoFar
  <2>5. /\ new.rest \cap new.current = {}
        /\ \A b \in DOMAIN new.batches : new.batches[b] \cap (new.rest \cup new.current) = {}
    BY <1>4, <1>6, <2>2, SMTT(30) DEF PackedSoFar
  <2>7. /\ \A b, c \in DOMAIN new.batches : b # c => new.batches[b] \cap new.batches[c] = {}
        /\ \A b \in DOMAIN new.batches : Fits(lens, new.batches[b])
    BY <2>2 DEF PackedSoFar
  <2>8. Cardinality(new.rest) = n - (k + 1)
    BY <1>5, <2>2
  <2> QED BY <2>2, <2>3, <2>4, <2>5, <2>7, <2>8 DEF PackedSoFar, new
<1> QED BY <1>10, <1>11

LEMMA PackingIsWhole ==
    ASSUME NEW n \in Nat, NEW lens \in [1..n -> Nat]
    PROVE  PackedSoFar(n, lens, n, Packing(lens)[n])
<1> DEFINE S == {k \in Nat : k <= n => PackedSoFar(n, lens, k, Packing(lens)[k])}
<1>1. Len(lens) = n /\ DOMAIN lens = 1..n /\ lens \in Seq(Nat)
  OBVIOUS
<1>2. \A k \in 0..n : Packing(lens)[k] =
          IF k = 0 THEN [batches |-> <<>>, current |-> {}, rest |-> 1..n] ELSE Packs(lens, Packing(lens)[k - 1])
  BY <1>1, PackingIsDefined
<1>3. 0 \in S
  <2> DEFINE acc == [batches |-> <<>>, current |-> {}, rest |-> 1..n]
  <2>1. Packing(lens)[0] = acc
    <3>1. 0 \in 0..n
      OBVIOUS
    <3> QED BY <1>2, <3>1
  <2>2. Cardinality(1..n) = n
    BY FS_Interval
  <2>3. acc \in [batches : Seq(SUBSET (1..n)), current : SUBSET (1..n), rest : SUBSET (1..n)]
    OBVIOUS
  <2>4. PackedSoFar(n, lens, 0, acc)
    BY <2>2, <2>3 DEF PackedSoFar
  <2> QED BY <2>1, <2>4
<1>4. ASSUME NEW k \in Nat, k \in S PROVE k + 1 \in S
  <2> SUFFICES ASSUME k + 1 <= n PROVE PackedSoFar(n, lens, k + 1, Packing(lens)[k + 1])
    OBVIOUS
  <2>1. k \in 0..(n - 1) /\ k + 1 \in 0..n /\ k + 1 # 0 /\ (k + 1) - 1 = k
    OBVIOUS
  <2>2. PackedSoFar(n, lens, k, Packing(lens)[k])
    BY <1>4, <2>1
  <2>3. Packing(lens)[k + 1] = Packs(lens, Packing(lens)[k])
    BY <1>2, <2>1
  <2> QED BY <2>1, <2>2, <2>3, PacksKeeps
<1>5. n \in S
  <2> HIDE DEF S
  <2> QED BY <1>3, <1>4, NatInductionInSet
<1> QED BY <1>5

\* The batches of a packing are a sequence, of each row once, and each fits.
LEMMA BatchesOfRows ==
    ASSUME NEW n \in Nat, NEW lens \in [1..n -> Nat]
    PROVE  /\ PackBatches(lens) \in Seq(SUBSET (1..n))
           /\ UNION {PackBatches(lens)[i] : i \in DOMAIN PackBatches(lens)} = 1..n
           /\ \A i, j \in DOMAIN PackBatches(lens) : i # j => PackBatches(lens)[i] \cap PackBatches(lens)[j] = {}
           /\ \A i \in DOMAIN PackBatches(lens) : Fits(lens, PackBatches(lens)[i])
<1> DEFINE acc == Packing(lens)[n]
           m == Len(acc.batches)
<1>1. Len(lens) = n
  OBVIOUS
<1>2. PackedSoFar(n, lens, n, acc)
  BY PackingIsWhole
<1> HIDE DEF acc
<1>3. /\ acc.batches \in Seq(SUBSET (1..n)) /\ acc.current \in SUBSET (1..n)
      /\ m \in Nat /\ DOMAIN acc.batches = 1..m /\ acc.rest \in SUBSET (1..n) /\ Cardinality(acc.rest) = 0
  BY <1>2 DEF PackedSoFar
<1>4. acc.rest = {}
  <2>1. IsFiniteSet(1..n)
    BY FS_Interval
  <2>2. IsFiniteSet(acc.rest)
    BY <1>3, <2>1, FS_Subset
  <2> QED BY <1>3, <2>2, FS_EmptySet
<1>5. \A i \in 1..n : i \in acc.current \/ \E b \in 1..m : i \in acc.batches[b]
  BY <1>2, <1>3, <1>4 DEF PackedSoFar
<1>6. \A b \in 1..m : acc.batches[b] \in SUBSET (1..n) /\ acc.batches[b] \cap acc.current = {} /\ Fits(lens, acc.batches[b])
  BY <1>2, <1>3 DEF PackedSoFar
<1>7. \A b, c \in 1..m : b # c => acc.batches[b] \cap acc.batches[c] = {}
  BY <1>2, <1>3 DEF PackedSoFar
<1>8. CASE acc.current = {}
  <2>1. PackBatches(lens) = acc.batches
    BY <1>1, <1>8 DEF PackBatches, acc
  <2>2. UNION {acc.batches[i] : i \in 1..m} = 1..n
    BY <1>5, <1>6, <1>8
  <2>3. UNION {PackBatches(lens)[i] : i \in DOMAIN PackBatches(lens)} = 1..n
    BY <1>3, <2>1, <2>2
  <2>4. \A i, j \in DOMAIN PackBatches(lens) : i # j => PackBatches(lens)[i] \cap PackBatches(lens)[j] = {}
    BY <1>3, <1>7, <2>1
  <2> QED BY <1>3, <1>6, <2>1, <2>3, <2>4
<1>9. CASE acc.current # {}
  <2>1. PackBatches(lens) = Append(acc.batches, acc.current)
    BY <1>1, <1>9 DEF PackBatches, acc
  <2> DEFINE all == PackBatches(lens)
  <2>2. /\ all \in Seq(SUBSET (1..n)) /\ DOMAIN all = 1..(m + 1)
        /\ all[m + 1] = acc.current /\ \A b \in 1..m : all[b] = acc.batches[b]
    BY <1>3, <2>1
  <2> HIDE DEF all
  <2>3. \A i \in 1..(m + 1) : all[i] \in SUBSET (1..n)
    BY <1>3, <1>6, <2>2
  <2>4. \A i \in 1..n : \E b \in 1..(m + 1) : i \in all[b]
    <3> TAKE i \in 1..n
    <3>1. CASE i \in acc.current
      BY <1>3, <2>2, <3>1, SMTT(30)
    <3>2. CASE \E b \in 1..m : i \in acc.batches[b]
      BY <1>3, <2>2, <3>2
    <3> QED BY <1>5, <3>1, <3>2
  <2>5. UNION {all[i] : i \in 1..(m + 1)} = 1..n
    BY <2>3, <2>4
  <2>6. \A i, j \in 1..(m + 1) : i # j => all[i] \cap all[j] = {}
    <3> SUFFICES ASSUME NEW i \in 1..(m + 1), NEW j \in 1..(m + 1), i # j PROVE all[i] \cap all[j] = {}
      OBVIOUS
    <3>1. CASE i \in 1..m /\ j \in 1..m
      BY <1>7, <2>2, <3>1
    <3>2. CASE i = m + 1
      <4>1. j \in 1..m
        BY <1>3, <3>2
      <4> QED BY <1>6, <2>2, <3>2, <4>1
    <3>3. CASE j = m + 1
      <4>1. i \in 1..m
        BY <1>3, <3>3
      <4> QED BY <1>6, <2>2, <3>3, <4>1
    <3> QED BY <1>3, <3>1, <3>2, <3>3, SMTT(30)
  <2>7. \A i \in 1..(m + 1) : Fits(lens, all[i])
    <3>1. \A i \in 1..m : Fits(lens, all[i])
      BY <1>6, <2>2
    <3>2. Fits(lens, all[m + 1])
      <4>1. acc.current # {} => Fits(lens, acc.current)
        BY <1>2 DEF PackedSoFar
      <4> QED BY <1>9, <2>2, <4>1
    <3>3. \A i \in 1..(m + 1) : i \in 1..m \/ i = m + 1
      BY <1>3
    <3> QED BY <3>1, <3>2, <3>3
  <2>8. UNION {all[i] : i \in DOMAIN all} = 1..n
    BY <2>2, <2>5
  <2>9. \A i, j \in DOMAIN all : i # j => all[i] \cap all[j] = {}
    BY <2>2, <2>6
  <2>10. \A i \in DOMAIN all : Fits(lens, all[i])
    BY <2>2, <2>7
  <2> QED BY <2>2, <2>8, <2>9, <2>10 DEF all
<1> QED BY <1>8, <1>9

LEMMA PackedPlans ==
    ASSUME NEW plan \in TrainingPlans, NEW e \in DOMAIN plan
    PROVE  Len(plan[e]) \in Nat /\ plan[e] \in [1..Len(plan[e]) -> Nat]
<1>1. plan \in Seq(Seq(Nat \ {0}))
  BY TrainingConstants
<1>2. plan[e] \in Seq(Nat \ {0})
  BY <1>1
<1> QED BY <1>2

\* For any rows and any budget: an epoch's batches are its rows, each in one,
\* and only a row alone is padded past the budget (pack_batches in extend.py).
THEOREM BatchesAreFit ==
    ASSUME rowLengths \in TrainingPlans
    PROVE  BatchesFit
<1> SUFFICES ASSUME NEW e \in DOMAIN rowLengths PROVE
        LET lens == rowLengths[e]  batches == PackBatches(lens) IN
        /\ UNION {batches[i] : i \in DOMAIN batches} = DOMAIN lens
        /\ \A i, j \in DOMAIN batches : i # j => batches[i] \cap batches[j] = {}
        /\ \A i \in DOMAIN batches :
            \/ Cardinality(batches[i]) = 1
            \/ Cardinality(batches[i]) * LongestOf(lens, batches[i]) <= TokenBudget
  BY DEF BatchesFit
<1>1. Len(rowLengths[e]) \in Nat /\ rowLengths[e] \in [1..Len(rowLengths[e]) -> Nat]
  BY PackedPlans
<1>2. DOMAIN rowLengths[e] = 1..Len(rowLengths[e])
  BY <1>1
<1> QED BY <1>1, <1>2, BatchesOfRows DEF Fits

-----------------------------------------------------------------------------
(* Sums.                                                                   *)

\* A sum is what the sum before it and the next number come to.
LEMMA SumsAreDefined ==
    ASSUME NEW a, Len(a) \in Nat
    PROVE  PrefixSums(a) = [k \in 0..Len(a) |-> IF k = 0 THEN 0 ELSE PrefixSums(a)[k - 1] + a[k]]
<1> DEFINE Summed(f, n) == f = [k \in 0..n |-> IF k = 0 THEN 0 ELSE f[k - 1] + a[k]]
           S == {n \in Nat : \E f : Summed(f, n)}
<1>1. 0 \in S
  <2>1. Summed([k \in 0..0 |-> 0], 0)
    OBVIOUS
  <2> QED BY <2>1
<1>2. ASSUME NEW n \in Nat, n \in S PROVE n + 1 \in S
  <2>1. PICK f : Summed(f, n)
    BY <1>2
  <2> DEFINE g == [k \in 0..(n + 1) |-> IF k = n + 1 THEN f[n] + a[n + 1] ELSE f[k]]
  <2>2. ASSUME NEW k \in 0..(n + 1)
        PROVE  g[k] = IF k = 0 THEN 0 ELSE g[k - 1] + a[k]
    <3>1. CASE k = n + 1
      <4>1. k - 1 = n /\ n \in 0..(n + 1) /\ n # n + 1 /\ k # 0
        BY <3>1
      <4>2. g[k - 1] = f[n]
        BY <4>1
      <4> QED BY <3>1, <4>1, <4>2
    <3>2. CASE k = 0
      BY <2>1, <3>2
    <3>3. CASE k \in 1..n
      <4>1. g[k] = f[k] /\ g[k - 1] = f[k - 1]
        BY <3>3
      <4>2. f[k] = f[k - 1] + a[k]
        BY <2>1, <3>3
      <4> QED BY <3>3, <4>1, <4>2
    <3> QED BY <3>1, <3>2, <3>3
  <2>3. g = [k \in 0..(n + 1) |-> IF k = 0 THEN 0 ELSE g[k - 1] + a[k]]
    <3> HIDE DEF g
    <3>1. g = [k \in 0..(n + 1) |-> g[k]]
      BY DEF g
    <3> QED BY <2>2, <3>1
  <2>4. Summed(g, n + 1)
    BY <2>3
  <2> HIDE DEF g, Summed
  <2> QED BY <2>4
<1>3. \E f : Summed(f, Len(a))
  <2>1. Len(a) \in S
    <3> HIDE DEF S
    <3> QED BY <1>1, <1>2, NatInductionInSet
  <2> QED BY <2>1
<1>4. Summed(CHOOSE f : Summed(f, Len(a)), Len(a))
  <2> HIDE DEF Summed
  <2> QED BY <1>3
<1>5. PrefixSums(a) = CHOOSE f : Summed(f, Len(a))
  BY DEF PrefixSums
<1> QED BY <1>4, <1>5

LEMMA SumsFollow ==
    ASSUME NEW n \in Nat, NEW a \in [1..n -> Nat]
    PROVE  /\ Len(a) = n /\ TotalOf(a) = PrefixSums(a)[n]
           /\ PrefixSums(a)[0] = 0
           /\ \A k \in 0..(n - 1) : PrefixSums(a)[k + 1] = PrefixSums(a)[k] + a[k + 1]
           /\ \A k \in 0..n : PrefixSums(a)[k] \in Nat
<1>1. Len(a) = n
  OBVIOUS
<1>2. \A k \in 0..n : PrefixSums(a)[k] = IF k = 0 THEN 0 ELSE PrefixSums(a)[k - 1] + a[k]
  BY <1>1, SumsAreDefined
<1>3. \A k \in 0..(n - 1) : PrefixSums(a)[k + 1] = PrefixSums(a)[k] + a[k + 1]
  <2> TAKE k \in 0..(n - 1)
  <2>1. k + 1 \in 0..n /\ k + 1 # 0 /\ (k + 1) - 1 = k
    OBVIOUS
  <2> QED BY <1>2, <2>1
<1> DEFINE S == {k \in Nat : k <= n => PrefixSums(a)[k] \in Nat}
<1>4. 0 \in S
  BY <1>2
<1>5. ASSUME NEW k \in Nat, k \in S PROVE k + 1 \in S
  <2> SUFFICES ASSUME k + 1 <= n PROVE PrefixSums(a)[k + 1] \in Nat
    OBVIOUS
  <2>1. PrefixSums(a)[k] \in Nat /\ k \in 0..(n - 1) /\ a[k + 1] \in Nat
    BY <1>5
  <2> QED BY <1>3, <2>1
<1>6. Nat \subseteq S
  <2> HIDE DEF S
  <2> QED BY <1>4, <1>5, NatInductionInSet
<1> QED BY <1>1, <1>2, <1>3, <1>6 DEF TotalOf

LEMMA TotalIsNat ==
    ASSUME NEW n \in Nat, NEW a \in [1..n -> Nat]
    PROVE  TotalOf(a) \in Nat
<1>1. n \in 0..n
  OBVIOUS
<1> QED BY <1>1, SumsFollow

\* Lists that begin alike count alike.
LEMMA SumsOfPart ==
    ASSUME NEW n \in Nat, NEW a \in [1..n -> Nat], NEW m \in 0..n, NEW b \in [1..m -> Nat],
           \A k \in 1..m : b[k] = a[k]
    PROVE  TotalOf(b) = PrefixSums(a)[m]
<1> DEFINE S == {k \in Nat : k <= m => PrefixSums(b)[k] = PrefixSums(a)[k]}
<1>1. 0 \in S
  <2>1. PrefixSums(b)[0] = 0 /\ PrefixSums(a)[0] = 0
    BY SumsFollow
  <2> QED BY <2>1
<1>2. ASSUME NEW k \in Nat, k \in S PROVE k + 1 \in S
  <2> SUFFICES ASSUME k + 1 <= m PROVE PrefixSums(b)[k + 1] = PrefixSums(a)[k + 1]
    OBVIOUS
  <2>1. PrefixSums(b)[k] = PrefixSums(a)[k] /\ k \in 0..(m - 1) /\ k \in 0..(n - 1) /\ a[k + 1] = b[k + 1]
    BY <1>2
  <2>2. PrefixSums(a)[k + 1] = PrefixSums(a)[k] + a[k + 1]
    BY <2>1, SumsFollow
  <2>3. PrefixSums(b)[k + 1] = PrefixSums(b)[k] + b[k + 1]
    <3>1. m \in Nat
      OBVIOUS
    <3> QED BY <2>1, <3>1, SumsFollow
  <2> QED BY <2>1, <2>2, <2>3
<1>3. m \in S
  <2>1. m \in Nat
    OBVIOUS
  <2> HIDE DEF S
  <2> QED BY <1>1, <1>2, <2>1, NatInductionInSet
<1>4. m \in Nat /\ TotalOf(b) = PrefixSums(b)[m]
  BY SumsFollow
<1> QED BY <1>3, <1>4

\* A number more is that much more.
LEMMA TotalWithLast ==
    ASSUME NEW n \in Nat, NEW a \in [1..(n + 1) -> Nat]
    PROVE  TotalOf(a) = TotalOf([k \in 1..n |-> a[k]]) + a[n + 1]
<1>1. n + 1 \in Nat /\ n \in 0..(n + 1) /\ n \in 0..((n + 1) - 1)
  OBVIOUS
<1>2. TotalOf([k \in 1..n |-> a[k]]) = PrefixSums(a)[n]
  <2>1. [k \in 1..n |-> a[k]] \in [1..n -> Nat]
    OBVIOUS
  <2> QED BY <1>1, <2>1, SumsOfPart
<1>3. TotalOf(a) = PrefixSums(a)[n + 1]
  BY <1>1, SumsFollow
<1> QED BY <1>1, <1>2, <1>3, SumsFollow

\* And one left out is that much less, wherever it stood.
LEMMA TotalWithout ==
    ASSUME NEW n \in Nat, NEW a \in [1..(n + 1) -> Nat], NEW p \in 1..(n + 1)
    PROVE  TotalOf([k \in 1..n |-> IF k < p THEN a[k] ELSE a[k + 1]]) = TotalOf(a) - a[p]
<1> DEFINE b == [k \in 1..n |-> IF k < p THEN a[k] ELSE a[k + 1]]
           Sa == PrefixSums(a)
           Sb == PrefixSums(b)
           S == {k \in Nat : k <= n => Sb[k] = IF k < p THEN Sa[k] ELSE Sa[k + 1] - a[p]}
<1>1. b \in [1..n -> Nat] /\ n + 1 \in Nat
  OBVIOUS
<1>2. /\ Sa[0] = 0 /\ \A k \in 0..n : Sa[k + 1] = Sa[k] + a[k + 1]
      /\ \A k \in 0..(n + 1) : Sa[k] \in Nat
      /\ TotalOf(a) = Sa[n + 1]
  <2>1. 0..((n + 1) - 1) = 0..n
    OBVIOUS
  <2>2. /\ TotalOf(a) = Sa[n + 1] /\ Sa[0] = 0
        /\ \A k \in 0..((n + 1) - 1) : Sa[k + 1] = Sa[k] + a[k + 1]
        /\ \A k \in 0..(n + 1) : Sa[k] \in Nat
    BY <1>1, SumsFollow
  <2> HIDE DEF Sa
  <2> QED BY <2>1, <2>2
<1>3. /\ Sb[0] = 0 /\ \A k \in 0..(n - 1) : Sb[k + 1] = Sb[k] + b[k + 1]
      /\ TotalOf(b) = Sb[n]
  <2> HIDE DEF b
  <2> QED BY <1>1, SumsFollow
<1>4. \A k \in 1..(n + 1) : a[k] \in Nat
  OBVIOUS
<1>5. 0 \in S
  <2> HIDE DEF Sa, Sb
  <2> QED BY <1>2, <1>3, <1>4
<1>6. ASSUME NEW k \in Nat, k \in S PROVE k + 1 \in S
  <2> SUFFICES ASSUME k + 1 <= n
               PROVE Sb[k + 1] = IF k + 1 < p THEN Sa[k + 1] ELSE Sa[(k + 1) + 1] - a[p]
    OBVIOUS
  <2>1. k <= n /\ k \in 0..n /\ k + 1 \in 0..n /\ k \in 0..(n - 1) /\ k + 1 \in 1..n
    OBVIOUS
  <2>2. Sb[k] = IF k < p THEN Sa[k] ELSE Sa[k + 1] - a[p]
    BY <1>6, <2>1
  <2>3. Sb[k + 1] = Sb[k] + b[k + 1]
    BY <1>3, <2>1
  <2>4. Sa[k + 1] = Sa[k] + a[k + 1] /\ Sa[(k + 1) + 1] = Sa[k + 1] + a[(k + 1) + 1]
    BY <1>2, <2>1
  <2>5. b[k + 1] = IF k + 1 < p THEN a[k + 1] ELSE a[(k + 1) + 1]
    BY <2>1
  <2>6. Sa[k] \in Nat /\ Sa[k + 1] \in Nat /\ Sa[(k + 1) + 1] \in Nat
        /\ a[k + 1] \in Nat /\ a[(k + 1) + 1] \in Nat /\ a[p] \in Nat
    BY <1>2, <1>4, <2>1
  <2> HIDE DEF Sa, Sb, b, S
  <2>7. CASE k + 1 < p
    BY <2>2, <2>3, <2>4, <2>5, <2>6, <2>7
  <2>8. CASE k + 1 = p
    <3>1. a[p] = a[k + 1] /\ k < p /\ ~(k + 1 < p)
      BY <2>8
    <3>2. Sb[k + 1] = Sa[k] + a[(k + 1) + 1]
      BY <2>2, <2>3, <2>5, <3>1
    <3> DEFINE s == Sa[k]
               t == Sa[k + 1]
               u == Sa[(k + 1) + 1]
               c == a[k + 1]
               d == a[(k + 1) + 1]
    <3>3. s + d = u - c
      <4>1. s \in Nat /\ t \in Nat /\ u \in Nat /\ c \in Nat /\ d \in Nat /\ t = s + c /\ u = t + d
        BY <2>4, <2>6
      <4> HIDE DEF s, t, u, c, d
      <4> QED BY <4>1
    <3> QED BY <3>1, <3>2, <3>3
  <2>9. CASE k + 1 > p
    <3>1. ~(k < p) /\ ~(k + 1 < p)
      BY <2>9
    <3>2. Sb[k + 1] = (Sa[k + 1] - a[p]) + a[(k + 1) + 1]
      BY <2>2, <2>3, <2>5, <3>1
    <3> DEFINE t == Sa[k + 1]
               u == Sa[(k + 1) + 1]
               c == a[p]
               d == a[(k + 1) + 1]
    <3>3. (t - c) + d = u - c
      <4>1. t \in Nat /\ u \in Nat /\ c \in Nat /\ d \in Nat /\ u = t + d
        BY <2>4, <2>6
      <4> HIDE DEF t, u, c, d
      <4> QED BY <4>1
    <3> QED BY <3>1, <3>2, <3>3
  <2> QED BY <2>7, <2>8, <2>9
<1>7. n \in S
  <2> HIDE DEF S
  <2> QED BY <1>5, <1>6, NatInductionInSet
<1>8. Sb[n] = IF n < p THEN Sa[n] ELSE Sa[n + 1] - a[p]
  BY <1>7
<1>9. TotalOf(b) = TotalOf(a) - a[p]
  <2>1. Sa[n + 1] = Sa[n] + a[n + 1] /\ Sa[n] \in Nat /\ a[p] \in Nat /\ a[n + 1] \in Nat
    BY <1>2, <1>4
  <2>2. n < p => a[p] = a[n + 1]
    OBVIOUS
  <2> HIDE DEF Sa, Sb, b, S
  <2> QED BY <1>2, <1>3, <1>8, <2>1, <2>2
<1> QED BY <1>9

\* The order does not matter.
LEMMA TotalOfShuffled ==
    ASSUME NEW n \in Nat, NEW a \in [1..n -> Nat], NEW p \in Bijection(1..n, 1..n)
    PROVE  TotalOf([i \in 1..n |-> a[p[i]]]) = TotalOf(a)
<1> DEFINE Even(m) == \A b \in [1..m -> Nat], q \in Bijection(1..m, 1..m) :
                          TotalOf([i \in 1..m |-> b[q[i]]]) = TotalOf(b)
           S == {m \in Nat : Even(m)}
<1>1. 0 \in S
  <2>1. ASSUME NEW b \in [1..0 -> Nat], NEW q \in Bijection(1..0, 1..0)
        PROVE  TotalOf([i \in 1..0 |-> b[q[i]]]) = TotalOf(b)
    <3>1. [i \in 1..0 |-> b[q[i]]] = b
      OBVIOUS
    <3> QED BY <3>1
  <2> QED BY <2>1
<1>2. ASSUME NEW m \in Nat, m \in S PROVE m + 1 \in S
  <2> SUFFICES Even(m + 1)
    <3> HIDE DEF Even
    <3> QED OBVIOUS
  <2> SUFFICES ASSUME NEW b \in [1..(m + 1) -> Nat], NEW q \in Bijection(1..(m + 1), 1..(m + 1))
               PROVE  TotalOf([i \in 1..(m + 1) |-> b[q[i]]]) = TotalOf(b)
    BY Zenon
  <2> DEFINE c == [i \in 1..(m + 1) |-> b[q[i]]]
  <2>1. /\ q \in [1..(m + 1) -> 1..(m + 1)]
        /\ \A i, j \in 1..(m + 1) : q[i] = q[j] => i = j
        /\ \A j \in 1..(m + 1) : \E i \in 1..(m + 1) : q[i] = j
    BY DEF Bijection, Injection, Surjection, IsInjective
  <2>2. PICK k \in 1..(m + 1) : q[k] = m + 1
    BY <2>1
  <2> DEFINE r == [i \in 1..m |-> IF i < k THEN q[i] ELSE q[i + 1]]
             d == [i \in 1..m |-> b[i]]
             e == [i \in 1..m |-> IF i < k THEN c[i] ELSE c[i + 1]]
  <2>3. r \in [1..m -> 1..m]
    <3>1. ASSUME NEW i \in 1..m PROVE r[i] \in 1..m
      <4>1. i \in 1..(m + 1) /\ i + 1 \in 1..(m + 1)
        OBVIOUS
      <4>2. r[i] \in 1..(m + 1)
        BY <2>1, <4>1
      <4>3. i < k => q[i] # q[k]
        BY <2>1, <4>1
      <4>4. ~(i < k) => q[i + 1] # q[k]
        <5>1. ~(i < k) => i + 1 # k
          OBVIOUS
        <5> QED BY <2>1, <4>1, <5>1
      <4>5. r[i] # m + 1
        BY <2>2, <4>3, <4>4
      <4>6. \A x \in 1..(m + 1) : x # m + 1 => x \in 1..m
        OBVIOUS
      <4> HIDE DEF r
      <4> QED BY <4>2, <4>5, <4>6, Zenon
    <3> QED BY <3>1
  <2>4. \A i, j \in 1..m : r[i] = r[j] => i = j
    <3> TAKE i, j \in 1..m
    <3>1. i \in 1..(m + 1) /\ j \in 1..(m + 1) /\ i + 1 \in 1..(m + 1) /\ j + 1 \in 1..(m + 1)
      OBVIOUS
    <3>2. CASE i < k /\ j < k
      BY <2>1, <3>1, <3>2
    <3>3. CASE i < k /\ ~(j < k)
      <4>1. q[i] # q[j + 1]
        <5>1. i # j + 1
          BY <3>3
        <5> QED BY <2>1, <3>1, <5>1
      <4> QED BY <3>3, <4>1
    <3>4. CASE ~(i < k) /\ j < k
      <4>1. q[j] # q[i + 1]
        <5>1. j # i + 1
          BY <3>4
        <5> QED BY <2>1, <3>1, <5>1
      <4> QED BY <3>4, <4>1
    <3>5. CASE ~(i < k) /\ ~(j < k)
      <4>1. q[i + 1] = q[j + 1] => i + 1 = j + 1
        BY <2>1, <3>1
      <4> QED BY <3>5, <4>1
    <3> QED BY <3>2, <3>3, <3>4, <3>5
  <2>5. \A j \in 1..m : \E i \in 1..m : r[i] = j
    <3> TAKE j \in 1..m
    <3>1. PICK i \in 1..(m + 1) : q[i] = j
      BY <2>1
    <3>2. i # k
      BY <2>2, <3>1
    <3>3. CASE i < k
      <4>1. i \in 1..m /\ r[i] = j
        BY <3>1, <3>3
      <4> QED BY <4>1
    <3>4. CASE i > k
      <4>1. i - 1 \in 1..m /\ ~(i - 1 < k) /\ (i - 1) + 1 = i
        BY <3>4
      <4>2. r[i - 1] = j
        BY <3>1, <4>1
      <4> QED BY <4>1, <4>2
    <3> QED BY <3>2, <3>3, <3>4
  <2>6. r \in Bijection(1..m, 1..m)
    <3> HIDE DEF r
    <3> QED BY <2>3, <2>4, <2>5 DEF Bijection, Injection, Surjection, IsInjective
  <2>7. d \in [1..m -> Nat] /\ c \in [1..(m + 1) -> Nat] /\ c[k] = b[m + 1] /\ b[m + 1] \in Nat
    <3>1. \A i \in 1..(m + 1) : b[i] \in Nat
      OBVIOUS
    <3>2. d \in [1..m -> Nat]
      BY <3>1
    <3>3. c \in [1..(m + 1) -> Nat]
      BY <2>1, <3>1
    <3>4. c[k] = b[m + 1] /\ m + 1 \in 1..(m + 1)
      BY <2>2
    <3> QED BY <3>1, <3>2, <3>3, <3>4
  <2>8. e = [i \in 1..m |-> d[r[i]]]
    <3>1. ASSUME NEW i \in 1..m PROVE e[i] = d[r[i]]
      <4>1. i \in 1..(m + 1) /\ i + 1 \in 1..(m + 1)
        OBVIOUS
      <4>2. e[i] = b[r[i]]
        BY <4>1
      <4> QED BY <2>3, <4>2
    <3>2. e = [i \in 1..m |-> e[i]]
      OBVIOUS
    <3> HIDE DEF e, d, r
    <3> QED BY <3>1, <3>2
  <2>9. TotalOf(e) = TotalOf(d)
    <3>1. Even(m)
      BY <1>2
    <3> HIDE DEF c, d, e, r
    <3> QED BY <2>6, <2>7, <2>8, <3>1
  <2>10. TotalOf(e) = TotalOf(c) - c[k]
    <3> HIDE DEF c
    <3> QED BY <2>7, TotalWithout
  <2>11. TotalOf(b) = TotalOf(d) + b[m + 1]
    BY TotalWithLast
  <2>12. TotalOf(d) \in Nat /\ TotalOf(c) \in Nat
    <3>1. m + 1 \in Nat /\ m \in 0..m /\ m + 1 \in 0..(m + 1)
      OBVIOUS
    <3> HIDE DEF c, d
    <3>2. TotalOf(d) \in Nat
      BY <2>7, <3>1, TotalIsNat
    <3>3. TotalOf(c) \in Nat
      BY <2>7, <3>1, TotalIsNat
    <3> QED BY <3>2, <3>3
  <2>13. TotalOf(c) = TotalOf(b)
    <3>1. \A x, y, z \in Nat : x = y - z => y = x + z
      OBVIOUS
    <3> HIDE DEF c, d, e, r
    <3>2. TotalOf(d) = TotalOf(c) - b[m + 1]
      BY <2>7, <2>9, <2>10, Zenon
    <3>3. TotalOf(c) = TotalOf(d) + b[m + 1]
      BY <2>7, <2>12, <3>1, <3>2, Zenon
    <3> QED BY <2>11, <3>3, Zenon
  <2> QED BY <2>13
<1>3. Even(n)
  <2>1. n \in S
    <3> HIDE DEF S
    <3> QED BY <1>1, <1>2, NatInductionInSet
  <2> QED BY <2>1
<1> QED BY <1>3

-----------------------------------------------------------------------------
\* A plan is a number of batches.
LEMMA BatchesAreCounted ==
    ASSUME NEW plan \in TrainingPlans
    PROVE  BatchesOf(plan) \in Nat
<1> DEFINE n == Len(plan)
           batches == [e \in DOMAIN plan |-> Len(PackBatches(plan[e]))]
<1>1. n \in Nat /\ DOMAIN plan = 1..n
  BY TrainingConstants
<1>2. \A e \in 1..n : Len(PackBatches(plan[e])) \in Nat
  <2> TAKE e \in 1..n
  <2>1. Len(plan[e]) \in Nat /\ plan[e] \in [1..Len(plan[e]) -> Nat]
    BY <1>1, PackedPlans
  <2> QED BY <2>1, BatchesOfRows
<1>3. batches \in [1..n -> Nat]
  <2> HIDE DEF n
  <2> QED BY <1>1, <1>2
<1>4. TotalOf(batches) \in Nat
  <2> HIDE DEF n, batches
  <2> QED BY <1>1, <1>3, TotalIsNat
<1> QED BY <1>4 DEF BatchesOf, BatchesIn

-----------------------------------------------------------------------------
(* ExtensionTraining: no batch is lost.                                    *)

Weights == [1..TotalBatches -> Nat]
Saving  == {"best", "latest", "meta", "log"}

TrainTypes ==
    /\ rowLengths \in TrainingPlans
    /\ writing \in Saving \cup {"down", "train", "lastLog", "finished"}
    /\ due \in Seq({"val", "save"})
    /\ step \in 0..TotalBatches
    /\ writing # "down" => applied \in Weights
    /\ bestVal \in 0..Infinity /\ vals \subseteq Losses
    /\ disk \in [best : SUBSET (0..Infinity), latest : SUBSET Weights, meta : SUBSET (0..TotalBatches),
                 log : SUBSET SUBSET Losses, final : SUBSET Weights]
    /\ repeats \in BOOLEAN

\* A file is written for a checkpoint that is due, the best weights and the
\* log for a validation; and a run that has nothing left to write has saved.
WritesWhatIsDue ==
    /\ writing \in Saving => due # <<>>
    /\ writing \in {"best", "log"} => Head(due) = "val"
    /\ writing = "meta" => disk.latest = {applied}
    /\ writing \in {"log", "lastLog", "finished"} \/ (writing = "train" /\ due = <<>>) => disk.meta # {}

\* The latest weights are there when their step is, and the step when the log
\* is; the step on disk is one, and no later than the run's.
StepOnDisk ==
    /\ disk.meta # {} => disk.latest # {}
    /\ disk.log # {} => disk.meta # {}
    /\ \A m, n \in disk.meta : m = n
    /\ writing # "down" => \A m \in disk.meta : m <= step

\* Weights have every batch before their step, and unless a kill parted them
\* from it, those and no other, once.
Applies(w, n) ==
    /\ \A b \in 1..n : w[b] >= 1
    /\ ~repeats => \A b \in 1..TotalBatches : w[b] = IF b <= n THEN 1 ELSE 0

WeightsAreWhole ==
    /\ writing # "down" => Applies(applied, step)
    /\ \A w \in disk.latest, m \in disk.meta : \A b \in 1..m : w[b] >= 1
    /\ writing # "meta" => \A w \in disk.latest, m \in disk.meta : Applies(w, m)
    /\ \A w \in disk.final : Applies(w, TotalBatches)

\* The best loss is no more than any the log tells of, in memory and on disk,
\* the best weights on disk not behind it but while they are written.
BestIsLeast ==
    /\ \A v \in vals : bestVal <= v
    /\ writing # "down" => \A log \in disk.log : \A v \in log : bestVal <= v
    /\ writing # "best" => \A b \in disk.best : b <= bestVal
    /\ \A b \in disk.best, log \in disk.log : \A v \in log : b <= v

TrainInv == TrainTypes /\ WritesWhatIsDue /\ StepOnDisk /\ WeightsAreWhole /\ BestIsLeast

LEMMA LossesAreBelow ==
    Infinity \in 0..Infinity /\ Losses \subseteq 0..Infinity /\ Losses \subseteq Nat
BY TrainingConstants

\* The batches that are passed over are those before the start.
LEMMA SkippedAreCounted ==
    ASSUME NEW T \in Nat, NEW start \in 0..T
    PROVE  Cardinality({b \in 1..T : Skipped(b, start)}) = start
<1>1. {b \in 1..T : Skipped(b, start)} = 1..start
  BY DEF Skipped
<1>2. Cardinality(1..start) = start
  BY FS_Interval
<1> QED BY <1>1, <1>2

\* A log that tells of losses tells of a lowest.
LEMMA LeastOfLosses ==
    ASSUME NEW S, S \subseteq Losses, S # {}
    PROVE  LET least == CHOOSE v \in S : \A u \in S : v <= u IN
           least \in S /\ \A u \in S : least <= u
<1>1. Losses \subseteq Nat
  BY LossesAreBelow
<1>2. PICK m \in S : \A n \in S : <<n, m>> \notin OpToRel(<, Nat)
  BY <1>1, WFMin, NatLessThanWellFounded, Zenon
<1>3. \A n \in S : ~(n < m)
  <2> TAKE n \in S
  <2>1. n \in Nat /\ m \in Nat
    BY <1>1
  <2> QED BY <1>2, <2>1, Zenon DEF OpToRel
<1>4. \A n \in S : m <= n
  BY <1>1, <1>3
<1> QED BY <1>4

LEMMA TrainInvStarts ==
    ASSUME TrainInit
    PROVE  TrainInv
<1>1. TotalBatches \in Nat
  BY BatchesAreCounted DEF TrainInit, TotalBatches
<1>2. TrainTypes
  <2>1. disk \in [best : SUBSET (0..Infinity), latest : SUBSET Weights, meta : SUBSET (0..TotalBatches),
                  log : SUBSET SUBSET Losses, final : SUBSET Weights]
    BY DEF TrainInit, TrainRests, NoFiles
  <2>2. repeats \in BOOLEAN
    BY DEF TrainInit, TrainRests
  <2> QED BY <1>1, <2>1, <2>2, LossesAreBelow DEF TrainInit, TrainRests, TrainTypes
<1>3. WritesWhatIsDue /\ StepOnDisk /\ WeightsAreWhole /\ BestIsLeast
  BY DEF TrainInit, TrainRests, NoFiles, WritesWhatIsDue, Saving, StepOnDisk, WeightsAreWhole, BestIsLeast
<1> QED BY <1>2, <1>3 DEF TrainInv

LEMMA BeginsKeeps ==
    ASSUME TrainInv, Begins
    PROVE  TrainInv'
<1> DEFINE resumed == disk.meta # {}
           start   == IF resumed THEN CHOOSE m \in disk.meta : TRUE ELSE 0
           logged  == IF resumed THEN UNION disk.log ELSE {}
<1>1. /\ TotalBatches \in Nat /\ TotalBatches' = TotalBatches /\ Weights' = Weights
      /\ UNCHANGED <<rowLengths, disk, repeats>>
      /\ writing = "down" /\ writing' = "train"
  BY BatchesAreCounted DEF TrainInv, TrainTypes, Begins, TotalBatches, Weights
<1>2. resumed <=> disk.latest # {} /\ disk.meta # {}
  BY DEF TrainInv, StepOnDisk
<1>3. start \in 0..TotalBatches /\ (resumed => start \in disk.meta)
  BY <1>1 DEF TrainInv, TrainTypes
<1>4. step' = start
  <2>1. step' = Cardinality({b \in 1..TotalBatches : Skipped(b, start)})
    BY <1>2, Zenon DEF Begins
  <2> QED BY <1>1, <1>3, <2>1, SkippedAreCounted
<1>5. resumed => applied' \in disk.latest
  BY <1>2 DEF Begins
<1>6. ~resumed => applied' = [b \in 1..TotalBatches |-> 0]
  BY <1>2 DEF Begins
<1>7. vals' = logged /\ due' = IF resumed THEN <<>> ELSE <<"val">>
  BY <1>2, Zenon DEF Begins
<1>8. logged \subseteq Losses
  BY DEF TrainInv, TrainTypes
<1>9. /\ bestVal' \in 0..Infinity
      /\ \A v \in logged : bestVal' <= v
      /\ bestVal' = Infinity \/ bestVal' \in logged
  <2>1. CASE logged = {}
    <3>1. bestVal' = Infinity
      BY <1>2, <2>1 DEF Begins
    <3> QED BY <2>1, <3>1, LossesAreBelow
  <2>2. CASE logged # {}
    <3>1. bestVal' = CHOOSE v \in logged : \A u \in logged : v <= u
      BY <1>2, <2>2 DEF Begins
    <3>2. bestVal' \in logged /\ \A u \in logged : bestVal' <= u
      BY <1>8, <2>2, <3>1, LeastOfLosses
    <3> QED BY <1>8, <3>2, LossesAreBelow
  <2> QED BY <2>1, <2>2
<1>10. TrainTypes'
  <2>1. applied' \in Weights
    BY <1>5, <1>6 DEF TrainInv, TrainTypes, Weights
  <2>2. due' \in Seq({"val", "save"})
    <3>1. due' = <<>> \/ due' = <<"val">>
      BY <1>7
    <3>2. <<>> \in Seq({"val", "save"}) /\ <<"val">> \in Seq({"val", "save"})
      OBVIOUS
    <3> QED BY <3>1, <3>2
  <2> QED BY <1>1, <1>3, <1>4, <1>7, <1>8, <1>9, <2>1, <2>2 DEF TrainInv, TrainTypes
<1>11. WritesWhatIsDue'
  BY <1>1, <1>7 DEF WritesWhatIsDue, Saving
<1>12. StepOnDisk'
  <2>1. \A m \in disk.meta : m <= start
    BY <1>1, <1>3 DEF TrainInv, TrainTypes, StepOnDisk
  <2> QED BY <1>1, <1>4, <2>1 DEF TrainInv, StepOnDisk
<1>13. WeightsAreWhole'
  <2>1. Applies(applied, step)'
    <3>1. CASE resumed
      BY <1>1, <1>3, <1>4, <1>5, <3>1 DEF TrainInv, WeightsAreWhole, Applies
    <3>2. CASE ~resumed
      BY <1>1, <1>4, <1>6, <3>2 DEF Applies
    <3> QED BY <3>1, <3>2
  <2>2. \A w \in disk.latest, m \in disk.meta : Applies(w, m)'
    BY <1>1 DEF TrainInv, WeightsAreWhole, Applies
  <2>3. \A w \in disk.final : Applies(w, TotalBatches)'
    BY <1>1 DEF TrainInv, WeightsAreWhole, Applies
  <2> QED BY <1>1, <2>1, <2>2, <2>3 DEF TrainInv, WeightsAreWhole, Applies
<1>14. BestIsLeast'
  <2>1. \A log \in disk.log : log \subseteq logged
    BY DEF TrainInv, StepOnDisk
  <2>2. \A b \in disk.best : \A v \in logged : b <= v
    BY DEF TrainInv, BestIsLeast
  <2>3. \A b \in disk.best : b <= bestVal'
    BY <1>9, <2>2, LossesAreBelow DEF TrainInv, TrainTypes
  <2> QED BY <1>1, <1>7, <1>9, <2>1, <2>3 DEF TrainInv, BestIsLeast
<1> QED BY <1>10, <1>11, <1>12, <1>13, <1>14 DEF TrainInv

LEMMA TrainsKeeps ==
    ASSUME TrainInv, Trains
    PROVE  TrainInv'
<1>1. /\ TotalBatches \in Nat /\ TotalBatches' = TotalBatches /\ Weights' = Weights
      /\ UNCHANGED <<rowLengths, writing, bestVal, vals, disk, repeats>>
      /\ writing = "train" /\ due = <<>>
      /\ step' = step + 1 /\ step' \in 1..TotalBatches
  BY BatchesAreCounted DEF TrainInv, TrainTypes, Trains, TotalBatches, Weights
<1>2. due' \in Seq({"val", "save"})
  <2> DEFINE first  == IF step' % ValEvery = 0 THEN <<"val">>
                       ELSE IF step' % SaveEvery = 0 THEN <<"save">> ELSE <<>>
             second == IF step' \in EpochEnds THEN <<"val">> ELSE <<>>
  <2>1. due' = first \o second
    BY Zenon DEF Trains
  <2>2. <<>> \in Seq({"val", "save"}) /\ <<"val">> \in Seq({"val", "save"})
        /\ <<"save">> \in Seq({"val", "save"})
    OBVIOUS
  <2>3. first \in Seq({"val", "save"}) /\ second \in Seq({"val", "save"})
    BY <2>2, Zenon
  <2> HIDE DEF first, second
  <2> QED BY <2>1, <2>3
<1>3. applied' = [applied EXCEPT ![step'] = @ + 1] /\ applied \in Weights /\ applied' \in Weights
  BY <1>1 DEF Trains, TrainInv, TrainTypes, Weights
<1>4. TrainTypes'
  BY <1>1, <1>2, <1>3 DEF TrainInv, TrainTypes
<1>5. WritesWhatIsDue'
  BY <1>1 DEF TrainInv, WritesWhatIsDue, Saving
<1>6. StepOnDisk'
  BY <1>1 DEF TrainInv, TrainTypes, StepOnDisk
<1>7. Applies(applied, step)'
  BY <1>1, <1>3 DEF TrainInv, TrainTypes, WeightsAreWhole, Applies, Weights
<1>8. WeightsAreWhole'
  BY <1>1, <1>7 DEF TrainInv, WeightsAreWhole, Applies
<1>9. BestIsLeast'
  BY <1>1 DEF TrainInv, BestIsLeast
<1> QED BY <1>4, <1>5, <1>6, <1>8, <1>9 DEF TrainInv

LEMMA ValidatesKeeps ==
    ASSUME TrainInv, Validates
    PROVE  TrainInv'
<1>1. /\ TotalBatches' = TotalBatches /\ Weights' = Weights
      /\ UNCHANGED <<rowLengths, due, applied, step, disk, repeats>>
      /\ writing = "train" /\ due # <<>> /\ Head(due) = "val"
  BY DEF Validates, TotalBatches, Weights
<1>2. PICK loss \in Losses :
        /\ vals' = vals \cup {loss}
        /\ bestVal' = IF loss < bestVal THEN loss ELSE bestVal
        /\ writing' = IF loss < bestVal THEN "best" ELSE "latest"
  BY DEF Validates
<1>3. /\ bestVal \in 0..Infinity /\ bestVal' \in 0..Infinity /\ bestVal' <= bestVal /\ bestVal' <= loss
      /\ writing' \in {"best", "latest"} /\ (writing' # "best" => bestVal' = bestVal)
  BY <1>2, LossesAreBelow DEF TrainInv, TrainTypes
<1>4. TrainTypes'
  BY <1>1, <1>2, <1>3 DEF TrainInv, TrainTypes, Saving
<1>5. WritesWhatIsDue'
  BY <1>1, <1>3 DEF WritesWhatIsDue, Saving
<1>6. StepOnDisk' /\ WeightsAreWhole'
  BY <1>1, <1>3 DEF TrainInv, StepOnDisk, WeightsAreWhole, Applies
<1>7. BestIsLeast'
  <2>1. \A v \in vals : v \in Nat /\ bestVal <= v
    BY LossesAreBelow DEF TrainInv, TrainTypes, BestIsLeast
  <2>2. \A log \in disk.log : \A v \in log : v \in Nat /\ bestVal <= v
    BY <1>1, LossesAreBelow DEF TrainInv, TrainTypes, BestIsLeast
  <2>3. \A v \in vals' : bestVal' <= v
    BY <1>2, <1>3, <2>1
  <2>4. \A log \in disk.log : \A v \in log : bestVal' <= v
    BY <1>3, <2>2
  <2> QED BY <1>1, <1>3, <2>3, <2>4 DEF TrainInv, BestIsLeast
<1> QED BY <1>4, <1>5, <1>6, <1>7 DEF TrainInv

LEMMA SavesOnlyKeeps ==
    ASSUME TrainInv, SavesOnly
    PROVE  TrainInv'
<1>1. /\ TotalBatches' = TotalBatches /\ Weights' = Weights
      /\ UNCHANGED <<rowLengths, due, applied, step, bestVal, vals, disk, repeats>>
      /\ writing = "train" /\ due # <<>> /\ writing' = "latest"
  BY DEF SavesOnly, TotalBatches, Weights
<1> QED BY <1>1 DEF TrainInv, TrainTypes, Saving, WritesWhatIsDue, StepOnDisk, WeightsAreWhole,
                    Applies, BestIsLeast

\* Each file has its contents, and the next its place.
LEMMA FilesFollow ==
    /\ FileContents("best") = {bestVal} /\ FileContents("latest") = {applied}
    /\ FileContents("meta") = {step} /\ FileContents("log") = {vals}
    /\ FileAfter("best") = "latest" /\ FileAfter("latest") = "meta"
    /\ FileAfter("meta") = IF Head(due) = "val" THEN "log" ELSE "train"
    /\ FileAfter("log") = "train"
BY DEF FileContents, FileAfter

LEMMA WritesFileKeeps ==
    ASSUME TrainInv, WritesFile
    PROVE  TrainInv'
<1>1. /\ TotalBatches' = TotalBatches /\ Weights' = Weights
      /\ UNCHANGED <<rowLengths, applied, step, bestVal, vals, repeats>>
      /\ writing \in Saving /\ due # <<>> /\ due \in Seq({"val", "save"})
      /\ disk' = [disk EXCEPT ![writing] = FileContents(writing)]
      /\ writing' = FileAfter(writing)
      /\ due' = IF FileAfter(writing) = "train" THEN Tail(due) ELSE due
  BY DEF WritesFile, TotalBatches, Weights, TrainInv, TrainTypes, WritesWhatIsDue, Saving
<1>2. due' \in Seq({"val", "save"})
  BY <1>1
<1>3. disk \in [best : SUBSET (0..Infinity), latest : SUBSET Weights, meta : SUBSET (0..TotalBatches),
                log : SUBSET SUBSET Losses, final : SUBSET Weights]
      /\ applied \in Weights /\ step \in 0..TotalBatches /\ bestVal \in 0..Infinity /\ vals \subseteq Losses
  BY <1>1 DEF TrainInv, TrainTypes, Saving
<1>4. CASE writing = "best"
  <2>1. disk' = [disk EXCEPT !.best = {bestVal}] /\ writing' = "latest" /\ due' = due
    BY <1>1, <1>4, FilesFollow
  <2>2. TrainTypes'
    BY <1>1, <1>2, <1>3, <2>1 DEF TrainInv, TrainTypes, Saving
  <2>3. WritesWhatIsDue' /\ StepOnDisk'
    BY <1>1, <1>3, <1>4, <2>1 DEF TrainInv, WritesWhatIsDue, StepOnDisk, Saving
  <2>4. WeightsAreWhole'
    BY <1>1, <1>3, <1>4, <2>1 DEF TrainInv, WeightsAreWhole, Applies
  <2>5. BestIsLeast'
    BY <1>1, <1>3, <1>4, <2>1 DEF TrainInv, BestIsLeast
  <2> QED BY <2>2, <2>3, <2>4, <2>5 DEF TrainInv
<1>5. CASE writing = "latest"
  <2>1. disk' = [disk EXCEPT !.latest = {applied}] /\ writing' = "meta" /\ due' = due
    BY <1>1, <1>5, FilesFollow
  <2>2. TrainTypes'
    BY <1>1, <1>2, <1>3, <2>1 DEF TrainInv, TrainTypes, Saving
  <2>3. WritesWhatIsDue' /\ StepOnDisk'
    BY <1>1, <1>3, <1>5, <2>1, SMTT(30) DEF TrainInv, WritesWhatIsDue, StepOnDisk, Saving
  <2>4. WeightsAreWhole'
    <3>1. \A m \in disk.meta : m \in Nat /\ m <= step
      BY <1>3, <1>5 DEF TrainInv, StepOnDisk
    <3>2. Applies(applied, step) /\ \A w \in disk.final : Applies(w, TotalBatches)
      BY <1>5 DEF TrainInv, WeightsAreWhole
    <3>3. \A m \in disk.meta : \A b \in 1..m : applied[b] >= 1
      BY <1>3, <3>1, <3>2 DEF Applies
    <3> QED BY <1>1, <1>3, <2>1, <3>2, <3>3 DEF WeightsAreWhole, Applies
  <2>5. BestIsLeast'
    BY <1>1, <1>3, <1>5, <2>1 DEF TrainInv, BestIsLeast
  <2> QED BY <2>2, <2>3, <2>4, <2>5 DEF TrainInv
<1>6. CASE writing = "meta"
  <2>1. /\ disk' = [disk EXCEPT !.meta = {step}]
        /\ writing' = IF Head(due) = "val" THEN "log" ELSE "train"
        /\ due' = IF Head(due) = "val" THEN due ELSE Tail(due)
    <3>1. disk' = [disk EXCEPT !.meta = {step}]
      BY <1>1, <1>6, FilesFollow
    <3>2. CASE Head(due) = "val"
      BY <1>1, <1>6, <3>1, <3>2, FilesFollow
    <3>3. CASE Head(due) # "val"
      BY <1>1, <1>6, <3>1, <3>3, FilesFollow
    <3> QED BY <3>2, <3>3
  <2>2. TrainTypes'
    <3>1. disk' \in [best : SUBSET (0..Infinity), latest : SUBSET Weights, meta : SUBSET (0..TotalBatches),
                     log : SUBSET SUBSET Losses, final : SUBSET Weights]
      BY <1>3, <2>1
    <3>2. writing' \in {"log", "train"}
      BY <2>1
    <3> QED BY <1>1, <1>2, <1>3, <3>1, <3>2 DEF TrainInv, TrainTypes, Saving
  <2>3. disk.latest = {applied}
    BY <1>6 DEF TrainInv, WritesWhatIsDue
  <2>4. WritesWhatIsDue' /\ StepOnDisk'
    <3>1. disk'.meta = {step} /\ disk'.latest # {}
      BY <1>3, <2>1, <2>3
    <3>2. StepOnDisk'
      <4>1. \A m \in disk'.meta : m = step /\ m <= step'
        BY <1>1, <1>3, <3>1
      <4> QED BY <3>1, <4>1 DEF StepOnDisk
    <3>3. WritesWhatIsDue'
      BY <1>1, <2>1, <3>1 DEF WritesWhatIsDue, Saving
    <3> QED BY <3>2, <3>3
  <2>5. WeightsAreWhole'
    <3>1. Applies(applied, step) /\ \A w \in disk.final : Applies(w, TotalBatches)
      BY <1>6 DEF TrainInv, WeightsAreWhole
    <3> QED BY <1>1, <1>3, <2>1, <2>3, <3>1 DEF WeightsAreWhole, Applies
  <2>6. BestIsLeast'
    BY <1>1, <1>3, <1>6, <2>1 DEF TrainInv, BestIsLeast
  <2> QED BY <2>2, <2>4, <2>5, <2>6 DEF TrainInv
<1>7. CASE writing = "log"
  <2>1. disk' = [disk EXCEPT !.log = {vals}] /\ writing' = "train" /\ due' = Tail(due)
    BY <1>1, <1>7, FilesFollow
  <2>2. TrainTypes'
    BY <1>1, <1>2, <1>3, <2>1 DEF TrainInv, TrainTypes, Saving
  <2>3. WritesWhatIsDue' /\ StepOnDisk'
    BY <1>1, <1>3, <1>7, <2>1 DEF TrainInv, WritesWhatIsDue, StepOnDisk, Saving
  <2>4. WeightsAreWhole'
    BY <1>1, <1>3, <1>7, <2>1 DEF TrainInv, WeightsAreWhole, Applies
  <2>5. BestIsLeast'
    <3>1. \A v \in vals : v \in Nat /\ bestVal <= v
      BY <1>3, LossesAreBelow DEF TrainInv, BestIsLeast
    <3>2. \A b \in disk.best : b \in Nat /\ b <= bestVal
      BY <1>3, <1>7 DEF TrainInv, BestIsLeast
    <3>3. \A b \in disk.best : \A v \in vals : b <= v
      BY <1>3, <3>1, <3>2
    <3> QED BY <1>1, <1>3, <2>1, <3>1, <3>2, <3>3 DEF BestIsLeast
  <2> QED BY <2>2, <2>3, <2>4, <2>5 DEF TrainInv
<1> QED BY <1>1, <1>4, <1>5, <1>6, <1>7 DEF Saving

LEMMA EndsKeeps ==
    ASSUME TrainInv, Ends
    PROVE  TrainInv'
<1>1. /\ TotalBatches' = TotalBatches /\ Weights' = Weights
      /\ UNCHANGED <<rowLengths, due, applied, step, bestVal, vals, repeats>>
      /\ writing = "train" /\ due = <<>> /\ step = TotalBatches
      /\ disk' = [disk EXCEPT !.final = {applied}] /\ writing' = "lastLog"
  BY DEF Ends, TotalBatches, Weights
<1>2. disk \in [best : SUBSET (0..Infinity), latest : SUBSET Weights, meta : SUBSET (0..TotalBatches),
                log : SUBSET SUBSET Losses, final : SUBSET Weights]
      /\ applied \in Weights
  BY <1>1 DEF TrainInv, TrainTypes
<1>3. TrainTypes'
  BY <1>1, <1>2 DEF TrainInv, TrainTypes
<1>4. WritesWhatIsDue' /\ StepOnDisk'
  BY <1>1, <1>2 DEF TrainInv, WritesWhatIsDue, StepOnDisk, Saving
<1>5. WeightsAreWhole' /\ BestIsLeast'
  BY <1>1, <1>2 DEF TrainInv, WeightsAreWhole, Applies, BestIsLeast
<1> QED BY <1>3, <1>4, <1>5 DEF TrainInv

LEMMA WritesLastLogKeeps ==
    ASSUME TrainInv, WritesLastLog
    PROVE  TrainInv'
<1>1. /\ TotalBatches' = TotalBatches /\ Weights' = Weights
      /\ UNCHANGED <<rowLengths, due, applied, step, bestVal, vals, repeats>>
      /\ writing = "lastLog" /\ writing' = "finished"
      /\ disk' = [disk EXCEPT !.log = {vals}]
  BY DEF WritesLastLog, TotalBatches, Weights
<1>2. disk \in [best : SUBSET (0..Infinity), latest : SUBSET Weights, meta : SUBSET (0..TotalBatches),
                log : SUBSET SUBSET Losses, final : SUBSET Weights]
      /\ vals \subseteq Losses /\ bestVal \in 0..Infinity
  BY <1>1 DEF TrainInv, TrainTypes
<1>3. TrainTypes'
  BY <1>1, <1>2, SMTT(30) DEF TrainInv, TrainTypes
<1>4. WritesWhatIsDue' /\ StepOnDisk'
  BY <1>1, <1>2 DEF TrainInv, WritesWhatIsDue, StepOnDisk, Saving
<1>5. WeightsAreWhole'
  BY <1>1, <1>2 DEF TrainInv, WeightsAreWhole, Applies
<1>6. BestIsLeast'
  <2>1. \A v \in vals : v \in Nat /\ bestVal <= v
    BY <1>2, LossesAreBelow DEF TrainInv, BestIsLeast
  <2>2. \A b \in disk.best : b \in Nat /\ b <= bestVal
    BY <1>1, <1>2 DEF TrainInv, BestIsLeast
  <2>3. \A b \in disk.best : \A v \in vals : b <= v
    BY <1>2, <2>1, <2>2
  <2> QED BY <1>1, <1>2, <2>1, <2>2, <2>3 DEF BestIsLeast
<1> QED BY <1>3, <1>4, <1>5, <1>6 DEF TrainInv

LEMMA TrainingKilledKeeps ==
    ASSUME TrainInv, TrainingKilled
    PROVE  TrainInv'
<1>1. /\ TotalBatches \in Nat /\ TotalBatches' = TotalBatches /\ Weights' = Weights
      /\ UNCHANGED <<rowLengths, disk>>
      /\ writing' = "down" /\ due' = <<>> /\ step' = 0 /\ bestVal' = Infinity /\ vals' = {}
  BY BatchesAreCounted DEF TrainInv, TrainTypes, TrainingKilled, TotalBatches, Weights
<1>2. repeats' \in BOOLEAN /\ (~repeats' => ~repeats /\ writing # "meta")
  BY DEF TrainingKilled
<1>3. TrainTypes'
  BY <1>1, <1>2, LossesAreBelow DEF TrainInv, TrainTypes
<1>4. WritesWhatIsDue' /\ StepOnDisk'
  BY <1>1 DEF TrainInv, WritesWhatIsDue, StepOnDisk, Saving
<1>5. WeightsAreWhole'
  BY <1>1, <1>2 DEF TrainInv, WeightsAreWhole, Applies
<1>6. BestIsLeast'
  BY <1>1 DEF TrainInv, TrainTypes, BestIsLeast
<1> QED BY <1>3, <1>4, <1>5, <1>6 DEF TrainInv

LEMMA TrainInvNext ==
    ASSUME TrainInv, [TrainNext]_trainVars
    PROVE  TrainInv'
<1>1. CASE UNCHANGED trainVars
  BY <1>1 DEF trainVars, TotalBatches, Weights, TrainInv, TrainTypes, Saving, WritesWhatIsDue,
              StepOnDisk, WeightsAreWhole, Applies, BestIsLeast
<1> QED BY <1>1, BeginsKeeps, TrainsKeeps, ValidatesKeeps, SavesOnlyKeeps, WritesFileKeeps, EndsKeeps,
           WritesLastLogKeeps, TrainingKilledKeeps DEF TrainNext

LEMMA TrainInvHolds == TrainSpec => []TrainInv
BY TrainInvStarts, TrainInvNext, PTL DEF TrainSpec

\* The weights in memory and in the files are counts of the plan's batches, and
\* the step of the run and of its file are of the plan (train in train_extend).
THEOREM TrainTypeCorrect == TrainSpec => []TrainTypes
<1>1. TrainInv => TrainTypes
  BY DEF TrainInv
<1> QED BY <1>1, TrainInvHolds, PTL

LEMMA TrainInvLosesNone ==
    ASSUME TrainInv
    PROVE  NoBatchIsLost
<1>1. TotalBatches \in Nat
  BY BatchesAreCounted DEF TrainInv, TrainTypes, TotalBatches
<1>2. \A w \in disk.final : \A b \in 1..TotalBatches : w[b] >= 1 /\ (~repeats => w[b] = 1)
  BY <1>1 DEF TrainInv, WeightsAreWhole, Applies
<1> QED BY <1>2 DEF TrainInv, WeightsAreWhole, Applies, BestIsLeast, NoBatchIsLost

\* Wherever a training run is killed, and however often, the weights it goes on
\* with have every batch before their step, the final ones the whole plan, and
\* the best ones are as good as any the log tells of (train, save_state and
\* resume in train_extend).
THEOREM WeightsAreKept == TrainSpec => []NoBatchIsLost
BY TrainInvHolds, TrainInvLosesNone, PTL

-----------------------------------------------------------------------------
(* ResumableRuns: the prediction files.                                    *)

Tools == {ReduxApi, ReduxLocal, CoderModels, Drafts, BridgeArm, SeonQueries}
FileLines == [row : 1..NRows, reply : BOOLEAN, torn : BOOLEAN]

RequestTypes ==
    /\ tool \in Tools
    /\ lines \in Seq(FileLines)
    /\ runPhase \in {"down", "asking", "stopping"}
    /\ wanted \subseteq 1..NRows /\ todo \subseteq 1..NRows /\ done \subseteq 1..NRows /\ gaveUp \subseteq 1..NRows
    /\ requests \subseteq [rows : SUBSET (1..NRows), left : Nat]

\* A line tells of a row no other tells of, only the last is torn, and what
\* stands for no reply is of the tool that fills in.
LinesAreApart ==
    \A i, j \in DOMAIN lines :
        /\ lines[i].row = lines[j].row => i = j
        /\ lines[i].torn => i = Len(lines)
        /\ ~lines[i].torn /\ ~lines[i].reply => tool.fills

\* A running tool knows what its file holds, and a tool that is not running
\* has nothing in flight.
FileIsKnown ==
    /\ runPhase # "down" => done = Answered /\ \A i \in DOMAIN lines : ~lines[i].torn
    /\ runPhase = "down" => requests = {}
    /\ runPhase # "asking" => todo = {}

\* A row is answered, in one request, or not yet handed out.
RowsAreApart ==
    /\ todo \cap done = {}
    /\ \A r \in requests : r.rows \cap done = {} /\ r.rows \cap todo = {}
    /\ \A r, q \in requests : r # q => r.rows \cap q.rows = {}

\* What is wanted is what the limit leaves, and of it nothing is forgotten.
WantedAreKept ==
    /\ runPhase # "down" => \E limit \in Limits \cup {0} : wanted = EvalIds(limit)
    /\ runPhase = "asking" =>
        \A i \in wanted : i \in todo \cup done \cup gaveUp \/ \E r \in requests : i \in r.rows

\* A tool that leaves the exemplars out never has one in hand.
ExemplarsAreOut ==
    tool.excludes =>
        /\ \A i \in DOMAIN lines : lines[i].row \notin Exemplars
        /\ todo \cap Exemplars = {} /\ \A r \in requests : r.rows \cap Exemplars = {}

ConclusionsAreSaved ==
    \A c \in concluded :
        /\ c.wanted \subseteq c.used /\ c.used \subseteq Answered
        /\ tool.excludes => c.used \cap Exemplars = {}
        /\ \E limit \in Limits \cup {0} : c.wanted = EvalIds(limit)

PredictionsInv ==
    /\ RequestTypes /\ LinesAreApart /\ FileIsKnown /\ RowsAreApart
    /\ WantedAreKept /\ ExemplarsAreOut /\ ConclusionsAreSaved

-----------------------------------------------------------------------------
LEMMA RowsAreCounted ==
    ASSUME NEW rows \in SUBSET (1..NRows)
    PROVE  Cardinality(rows) \in Nat
<1>1. IsFiniteSet(1..NRows)
  BY RunConstants, FS_Interval
<1> QED BY <1>1, FS_Subset, FS_CardinalityType

AnsweredIn(file) == {file[i].row : i \in {j \in DOMAIN file : ~file[j].torn}}

\* A file that was read: whole lines, each of another row.
WholeFile(file) ==
    /\ file \in Seq(FileLines) /\ \A i \in DOMAIN file : ~file[i].torn
    /\ \A i, j \in DOMAIN file : file[i].row = file[j].row => i = j

\* What the lines of some rows, or the first of them, make of it.
Extends(file, rows, replied, torn, new) ==
    /\ new \in Seq(FileLines)
    /\ \A i, j \in DOMAIN new : new[i].row = new[j].row => i = j
    /\ \A i \in DOMAIN new : new[i].torn => i = Len(new) /\ torn
    /\ \A i \in DOMAIN new : new[i].row \in rows \/ \E j \in DOMAIN file : new[i] = file[j]
    /\ \A i \in DOMAIN new : ~new[i].torn /\ ~new[i].reply =>
         ~(rows \subseteq replied) \/ \E j \in DOMAIN file : new[i] = file[j]
    /\ AnsweredIn(file) \subseteq AnsweredIn(new)

LEMMA AppendedLines ==
    ASSUME NEW file, WholeFile(file), NEW rows \in SUBSET (1..NRows), rows \cap AnsweredIn(file) = {},
           NEW s \in InOrder(rows), NEW n \in 0..Cardinality(rows), NEW replied, NEW torn \in BOOLEAN
    PROVE  LET new == file \o Appended(s, n, replied, torn) IN
           /\ Extends(file, rows, replied, torn, new)
           /\ ~torn /\ n = Cardinality(rows) => AnsweredIn(new) = AnsweredIn(file) \cup rows
<1> DEFINE new == file \o Appended(s, n, replied, torn)
<1>13. /\ file \in Seq(FileLines) /\ \A i \in DOMAIN file : ~file[i].torn
       /\ \A i, j \in DOMAIN file : file[i].row = file[j].row => i = j
       /\ Cardinality(rows) \in Nat
  BY RowsAreCounted DEF WholeFile
<1> DEFINE tail == Appended(s, n, replied, torn)
           m == Len(file)
<1>1. /\ s \in [1..Cardinality(rows) -> rows] /\ n \in Nat
      /\ \A i, j \in 1..Cardinality(rows) : i < j => s[i] < s[j]
      /\ \A row \in rows : \E i \in 1..Cardinality(rows) : s[i] = row
  <2>1. s \in [1..Cardinality(rows) -> rows] /\ DOMAIN s = 1..Cardinality(rows)
    BY DEF InOrder
  <2>2. /\ \A i, j \in DOMAIN s : i < j => s[i] < s[j]
        /\ rows = {s[i] : i \in DOMAIN s}
    BY DEF InOrder
  <2>3. \A row \in rows : \E i \in DOMAIN s : s[i] = row
    BY <2>2
  <2>4. n \in Nat /\ n <= Cardinality(rows)
    OBVIOUS
  <2> QED BY <2>1, <2>2, <2>3, <2>4
<1>2. \A i, j \in 1..n : s[i] = s[j] => i = j
  <2> SUFFICES ASSUME NEW i \in 1..n, NEW j \in 1..n, i < j PROVE s[i] # s[j]
    BY <1>1
  <2>1. i \in 1..Cardinality(rows) /\ j \in 1..Cardinality(rows)
    BY <1>1, <1>13
  <2>2. s[i] < s[j] /\ s[i] \in rows /\ s[j] \in rows
    BY <1>1, <2>1
  <2>3. s[i] \in Nat /\ s[j] \in Nat
    <3>1. rows \subseteq Nat
      BY RunConstants
    <3> QED BY <2>2, <3>1
  <2> QED BY <2>2, <2>3
<1>3. \A i \in 1..n : /\ tail[i] \in FileLines /\ tail[i].row = s[i] /\ s[i] \in rows
                      /\ tail[i].torn => i = n /\ torn
                      /\ ~tail[i].torn /\ ~tail[i].reply => s[i] \notin replied
                      /\ ~torn => ~tail[i].torn
  <2> TAKE i \in 1..n
  <2>5. i \in 1..Cardinality(rows)
    BY <1>1, <1>13
  <2>1. s[i] \in rows /\ s[i] \in 1..NRows
    BY <1>1, <2>5
  <2>2. tail[i] = IF torn /\ i = n THEN Torn(s[i]) ELSE Whole(s[i], s[i] \in replied)
    BY DEF Appended
  <2>3. CASE torn /\ i = n
    BY <2>1, <2>2, <2>3 DEF Torn, FileLines
  <2>4. CASE ~(torn /\ i = n)
    <3>1. tail[i] = Whole(s[i], s[i] \in replied)
      BY <2>2, <2>4
    <3>2. tail[i].row = s[i] /\ tail[i].torn = FALSE /\ tail[i].reply = (s[i] \in replied)
      BY <3>1 DEF Whole
    <3>3. (s[i] \in replied) \in BOOLEAN
      OBVIOUS
    <3>4. tail[i] \in FileLines
      BY <2>1, <3>1, <3>3 DEF Whole, FileLines
    <3> QED BY <2>1, <3>2, <3>4
  <2> QED BY <2>3, <2>4
<1>4. tail \in Seq(FileLines) /\ Len(tail) = n /\ m \in Nat /\ DOMAIN file = 1..m
  <2>1. tail = [i \in 1..n |-> tail[i]]
    BY DEF Appended
  <2> HIDE DEF tail
  <2>2. tail \in [1..n -> FileLines] /\ n \in Nat
    BY <1>1, <1>3, <2>1
  <2>3. tail \in Seq(FileLines) /\ Len(tail) = n
    BY <2>2
  <2> QED BY <2>3
<1>12. new = file \o tail
  OBVIOUS
<1> HIDE DEF tail, new
<1>5. /\ new \in Seq(FileLines) /\ Len(new) = m + n /\ DOMAIN new = 1..(m + n)
      /\ \A i \in 1..m : new[i] = file[i]
      /\ \A i \in (m + 1)..(m + n) : new[i] = tail[i - m] /\ i - m \in 1..n
  <2>5. file \in Seq(FileLines) /\ tail \in Seq(FileLines) /\ Len(tail) = n
    BY <1>4, <1>13
  <2>1. new \in Seq(FileLines) /\ Len(new) = m + n
    <3>1. file \o tail \in Seq(FileLines) /\ Len(file \o tail) = Len(file) + Len(tail)
      <4>1. ASSUME NEW t \in Seq(FileLines) PROVE file \o t \in Seq(FileLines) /\ Len(file \o t) = Len(file) + Len(t)
        BY <1>13
      <4> QED BY <2>5, <4>1
    <3> QED BY <1>12, <2>5, <3>1
  <2>2. DOMAIN new = 1..(m + n)
    BY <1>4, <2>1
  <2>3. \A i \in 1..m : new[i] = file[i]
    BY <1>1, <1>4, <1>12
  <2>4. ASSUME NEW i \in (m + 1)..(m + n) PROVE new[i] = tail[i - m] /\ i - m \in 1..n
    <3>1. i - m \in 1..n /\ i \in 1..(m + n) /\ i > m
      BY <1>1, <1>4
    <3> QED BY <1>4, <1>12, <3>1
  <2> QED BY <2>1, <2>2, <2>3, <2>4
<1>6. \A i \in 1..(m + n) : i \in 1..m \/ i \in (m + 1)..(m + n)
  BY <1>1, <1>4
<1> HIDE DEF m
<1>7. \A i \in 1..m : file[i].row \notin rows
  BY <1>4, <1>13 DEF AnsweredIn
<1>8. \A i, j \in DOMAIN new : new[i].row = new[j].row => i = j
  <2> SUFFICES ASSUME NEW i \in 1..(m + n), NEW j \in 1..(m + n), new[i].row = new[j].row PROVE i = j
    BY <1>5
  <2>1. CASE i \in 1..m /\ j \in 1..m
    BY <1>4, <1>13, <1>5, <2>1
  <2>2. CASE i \in 1..m /\ j \in (m + 1)..(m + n)
    <3>1. new[i].row \notin rows /\ new[j] = tail[j - m] /\ j - m \in 1..n
      BY <1>5, <1>7, <2>2
    <3> QED BY <1>3, <3>1
  <2>3. CASE j \in 1..m /\ i \in (m + 1)..(m + n)
    <3>1. new[j].row \notin rows /\ new[i] = tail[i - m] /\ i - m \in 1..n
      BY <1>5, <1>7, <2>3
    <3> QED BY <1>3, <3>1
  <2>4. CASE i \in (m + 1)..(m + n) /\ j \in (m + 1)..(m + n)
    <3>2. /\ new[i] = tail[i - m] /\ i - m \in 1..n
          /\ new[j] = tail[j - m] /\ j - m \in 1..n
      BY <1>5, <2>4
    <3>3. s[i - m] = s[j - m]
      BY <1>3, <3>2
    <3>1. i - m = j - m
      BY <1>2, <3>2, <3>3
    <3> QED BY <1>4, <2>4, <3>1
  <2> QED BY <1>6, <2>1, <2>2, <2>3, <2>4
<1>9. ASSUME NEW i \in DOMAIN new
      PROVE  /\ new[i].torn => i = Len(new) /\ torn
             /\ new[i].row \in rows \/ \E j \in DOMAIN file : new[i] = file[j]
             /\ ~new[i].torn /\ ~new[i].reply =>
                  ~(rows \subseteq replied) \/ \E j \in DOMAIN file : new[i] = file[j]
  <2>1. CASE i \in 1..m
    BY <1>4, <1>13, <1>5, <2>1
  <2>2. CASE i \in (m + 1)..(m + n)
    <3>1. new[i] = tail[i - m] /\ i - m \in 1..n
      BY <1>5, <2>2
    <3>2. i - m = n => i = Len(new)
      BY <1>1, <1>4, <1>5, <2>2
    <3> QED BY <1>3, <3>1, <3>2
  <2> QED BY <1>5, <1>6, <2>1, <2>2
<1>10. AnsweredIn(file) \subseteq AnsweredIn(new)
  <2>1. \A i \in 1..m : i \in DOMAIN new /\ new[i] = file[i]
    BY <1>1, <1>4, <1>5
  <2> QED BY <1>4, <2>1 DEF AnsweredIn
<1>11. ASSUME ~torn, n = Cardinality(rows) PROVE AnsweredIn(new) = AnsweredIn(file) \cup rows
  <2>1. AnsweredIn(new) \subseteq AnsweredIn(file) \cup rows
    <3> SUFFICES ASSUME NEW i \in DOMAIN new, new[i].row \notin rows PROVE new[i].row \in AnsweredIn(file)
      BY DEF AnsweredIn
    <3>1. PICK j \in DOMAIN file : new[i] = file[j]
      BY <1>9
    <3> QED BY <1>13, <3>1 DEF AnsweredIn
  <2>2. ASSUME NEW row \in rows PROVE row \in AnsweredIn(new)
    <3>1. PICK i \in 1..n : s[i] = row
      BY <1>1, <1>11
    <3>2. m + i \in (m + 1)..(m + n) /\ (m + i) - m = i
      BY <1>1, <1>4
    <3>3. m + i \in DOMAIN new /\ new[m + i] = tail[i]
      BY <1>1, <1>4, <1>5, <3>2
    <3>4. new[m + i].row = row /\ ~new[m + i].torn
      BY <1>3, <1>11, <3>1, <3>3
    <3> QED BY <3>3, <3>4 DEF AnsweredIn
  <2> QED BY <1>10, <2>1, <2>2
<1> QED BY <1>5, <1>8, <1>9, <1>10, <1>11 DEF Extends, new

LEMMA EvalIdsAreRows ==
    ASSUME NEW limit
    PROVE  /\ EvalIds(limit) \subseteq 1..NRows
           /\ tool.excludes => EvalIds(limit) \cap Exemplars = {}
BY DEF EvalIds, FirstOf

LEMMA ToolsAreTools ==
    ASSUME tool \in Tools
    PROVE  /\ tool.attempts \in Nat /\ tool.rows \in Nat
           /\ tool.fills \in BOOLEAN /\ tool.excludes \in BOOLEAN /\ tool.usesAll \in BOOLEAN
<1>1. Patience \in Nat /\ Batch \in Nat
  BY RunConstants
<1>2. CASE tool = ReduxApi
  BY <1>1, <1>2 DEF Tool, ReduxApi
<1>3. CASE tool = ReduxLocal
  BY <1>1, <1>3 DEF Tool, ReduxLocal
<1>4. CASE tool = CoderModels
  BY <1>1, <1>4 DEF Tool, CoderModels
<1>5. CASE tool = Drafts
  BY <1>1, <1>5 DEF Tool, Drafts
<1>6. CASE tool = BridgeArm
  BY <1>1, <1>6 DEF Tool, BridgeArm
<1>7. CASE tool = SeonQueries
  BY <1>1, <1>7 DEF Tool, SeonQueries
<1> QED BY <1>2, <1>3, <1>4, <1>5, <1>6, <1>7 DEF Tools

\* Conclusions stand while the file only grows.
LEMMA ConclusionsStand ==
    ASSUME ConclusionsAreSaved, UNCHANGED <<tool, concluded>>, Answered \subseteq Answered'
    PROVE  ConclusionsAreSaved'
<1>1. \A limit : EvalIds(limit)' = EvalIds(limit)
  BY DEF EvalIds
<1> QED BY <1>1 DEF ConclusionsAreSaved

\* The lines of a request in flight, saved behind the file.
LEMMA SavedLines ==
    ASSUME PredictionsInv, runPhase # "down", NEW r \in requests, NEW s \in InOrder(r.rows),
           NEW n \in 0..Cardinality(r.rows), NEW replied, NEW torn \in BOOLEAN,
           tool.fills \/ r.rows \subseteq replied,
           lines' = lines \o Appended(s, n, replied, torn), UNCHANGED tool
    PROVE  /\ lines' \in Seq(FileLines) /\ LinesAreApart'
           /\ Answered \subseteq Answered'
           /\ ~torn /\ n = Cardinality(r.rows) => /\ Answered' = Answered \cup r.rows
                                                  /\ \A i \in DOMAIN lines' : ~lines'[i].torn
           /\ \A i \in DOMAIN lines' : lines'[i].row \in r.rows \/ \E j \in DOMAIN lines : lines'[i].row = lines[j].row
<1>1. /\ lines \in Seq(FileLines) /\ r.rows \in SUBSET (1..NRows)
      /\ \A i \in DOMAIN lines : ~lines[i].torn
      /\ \A i, j \in DOMAIN lines : lines[i].row = lines[j].row => i = j
      /\ \A i \in DOMAIN lines : ~lines[i].torn /\ ~lines[i].reply => tool.fills
  BY DEF PredictionsInv, RequestTypes, FileIsKnown, LinesAreApart
<1>2. Answered = AnsweredIn(lines) /\ Answered' = AnsweredIn(lines')
  BY DEF Answered, AnsweredIn
<1>3. r.rows \cap AnsweredIn(lines) = {} /\ Cardinality(r.rows) \in Nat
  BY <1>1, <1>2, RowsAreCounted DEF PredictionsInv, FileIsKnown, RowsAreApart
<1> DEFINE new == lines'
<1>4. WholeFile(lines) /\ new = lines \o Appended(s, n, replied, torn)
  BY <1>1 DEF WholeFile
<1> HIDE DEF new
<1>7. /\ Extends(lines, r.rows, replied, torn, new)
      /\ ~torn /\ n = Cardinality(r.rows) => AnsweredIn(new) = AnsweredIn(lines) \cup r.rows
  <2> DEFINE made == lines \o Appended(s, n, replied, torn)
  <2>1. Extends(lines, r.rows, replied, torn, made)
    BY <1>1, <1>3, <1>4, AppendedLines
  <2>2. ASSUME ~torn, n = Cardinality(r.rows) PROVE AnsweredIn(made) = AnsweredIn(lines) \cup r.rows
    BY <1>1, <1>3, <1>4, <2>2, AppendedLines
  <2> HIDE DEF made
  <2>3. new = made
    BY <1>4 DEF made
  <2> QED BY <2>1, <2>2, <2>3
<1>5. /\ new \in Seq(FileLines)
      /\ \A i, j \in DOMAIN new : new[i].row = new[j].row => i = j
      /\ \A i \in DOMAIN new : new[i].torn => i = Len(new) /\ torn
      /\ \A i \in DOMAIN new : new[i].row \in r.rows \/ \E j \in DOMAIN lines : new[i] = lines[j]
      /\ \A i \in DOMAIN new : ~new[i].torn /\ ~new[i].reply =>
           ~(r.rows \subseteq replied) \/ \E j \in DOMAIN lines : new[i] = lines[j]
      /\ AnsweredIn(lines) \subseteq AnsweredIn(new)
  BY <1>7 DEF Extends
<1>6. \A i \in DOMAIN new : ~new[i].torn /\ ~new[i].reply => tool.fills
  BY <1>1, <1>5
<1> QED BY <1>2, <1>5, <1>6, <1>7 DEF new, LinesAreApart

LEMMA PredictionsInvStarts == RunInit => PredictionsInv
<1> SUFFICES ASSUME RunInit PROVE PredictionsInv
  OBVIOUS
<1>1. RequestTypes /\ LinesAreApart /\ FileIsKnown
  BY DEF RunInit, RequestTypes, Tools, LinesAreApart, FileIsKnown
<1>2. RowsAreApart /\ WantedAreKept /\ ExemplarsAreOut /\ ConclusionsAreSaved
  BY DEF RunInit, RowsAreApart, WantedAreKept, ExemplarsAreOut, ConclusionsAreSaved
<1> QED BY <1>1, <1>2 DEF PredictionsInv

LEMMA RunStartsKeeps ==
    ASSUME PredictionsInv, RunStarts
    PROVE  PredictionsInv'
<1>1. /\ runPhase = "down" /\ requests = {} /\ UNCHANGED <<tool, lines, requests, concluded>> /\ gaveUp' = {}
      /\ todo = {}
  BY DEF RunStarts, PredictionsInv, FileIsKnown
<1>2. Answered' = Answered /\ \A limit : EvalIds(limit)' = EvalIds(limit)
  BY <1>1 DEF Answered, EvalIds
<1>3. ConclusionsAreSaved' /\ LinesAreApart'
  <2>1. LinesAreApart'
    BY <1>1 DEF PredictionsInv, LinesAreApart
  <2> QED BY <1>1, <1>2, <2>1, ConclusionsStand DEF PredictionsInv
<1>4. Answered \subseteq 1..NRows
  <2>1. \A i \in DOMAIN lines : lines[i] \in FileLines
    BY DEF PredictionsInv, RequestTypes
  <2> QED BY <2>1 DEF Answered, FileLines
<1>5. CASE UNCHANGED <<runPhase, wanted, todo, done>>
  <2>1. RequestTypes'
    BY <1>1, <1>5 DEF PredictionsInv, RequestTypes
  <2>2. FileIsKnown' /\ RowsAreApart' /\ WantedAreKept' /\ ExemplarsAreOut'
    BY <1>1, <1>5 DEF PredictionsInv, FileIsKnown, RowsAreApart, WantedAreKept, ExemplarsAreOut
  <2> QED BY <1>3, <2>1, <2>2 DEF PredictionsInv
<1>6. ASSUME NEW limit \in Limits \cup {0}, ~ \E i \in DOMAIN lines : lines[i].torn, runPhase' = "asking",
             done' = Answered, wanted' = EvalIds(limit), todo' = EvalIds(limit) \ Answered
      PROVE  PredictionsInv'
  <2>1. RequestTypes'
    BY <1>1, <1>4, <1>6, EvalIdsAreRows DEF PredictionsInv, RequestTypes
  <2>2. FileIsKnown' /\ RowsAreApart'
    BY <1>1, <1>2, <1>6 DEF FileIsKnown, RowsAreApart
  <2>3. WantedAreKept'
    BY <1>2, <1>6 DEF WantedAreKept
  <2>4. ExemplarsAreOut'
    BY <1>1, <1>6, EvalIdsAreRows DEF PredictionsInv, ExemplarsAreOut
  <2> QED BY <1>3, <2>1, <2>2, <2>3, <2>4 DEF PredictionsInv
<1> QED BY <1>5, <1>6 DEF RunStarts, Resume

LEMMA AsksKeeps ==
    ASSUME PredictionsInv, Asks
    PROVE  PredictionsInv'
<1> DEFINE handed == FirstOf(todo, tool.rows)
           new == [rows |-> handed, left |-> tool.attempts]
<1>1. /\ UNCHANGED <<tool, lines, runPhase, wanted, done, gaveUp, concluded>> /\ runPhase = "asking"
      /\ requests' = requests \cup {new} /\ todo' = todo \ handed /\ handed \subseteq todo
  BY DEF Asks, FirstOf
<1>2. tool.attempts \in Nat /\ todo \subseteq 1..NRows
  BY ToolsAreTools DEF PredictionsInv, RequestTypes
<1>3. new \in [rows : SUBSET (1..NRows), left : Nat] /\ new.rows = handed
  BY <1>1, <1>2
<1> HIDE DEF new, handed
<1>4. RequestTypes'
  BY <1>1, <1>2, <1>3 DEF PredictionsInv, RequestTypes
<1>5. LinesAreApart' /\ FileIsKnown'
  BY <1>1 DEF PredictionsInv, LinesAreApart, FileIsKnown, Answered
<1>6. RowsAreApart'
  BY <1>1, <1>3 DEF PredictionsInv, RowsAreApart
<1>7. WantedAreKept'
  <2>1. \A limit : EvalIds(limit)' = EvalIds(limit)
    BY <1>1 DEF EvalIds
  <2>2. ASSUME NEW i \in wanted
        PROVE  i \in todo' \cup done \cup gaveUp \/ \E r \in requests' : i \in r.rows
    <3>1. i \in todo \cup done \cup gaveUp \/ \E r \in requests : i \in r.rows
      BY <1>1 DEF PredictionsInv, WantedAreKept
    <3>2. CASE i \in handed
      BY <1>1, <1>3, <3>2
    <3> QED BY <1>1, <3>1, <3>2
  <2> QED BY <1>1, <2>1, <2>2 DEF PredictionsInv, WantedAreKept
<1>8. ExemplarsAreOut' /\ ConclusionsAreSaved'
  <2>1. Answered' = Answered
    BY <1>1 DEF Answered
  <2>2. ExemplarsAreOut'
    BY <1>1, <1>3 DEF PredictionsInv, ExemplarsAreOut
  <2> QED BY <1>1, <2>1, <2>2, ConclusionsStand DEF PredictionsInv
<1> QED BY <1>4, <1>5, <1>6, <1>7, <1>8 DEF PredictionsInv

LEMMA RetriesKeeps ==
    ASSUME PredictionsInv, Retries
    PROVE  PredictionsInv'
<1>1. PICK r \in requests : /\ r.left > 1
                            /\ requests' = (requests \ {r}) \cup {[r EXCEPT !.left = @ - 1]}
                            /\ UNCHANGED <<tool, lines, runPhase, wanted, todo, done, gaveUp, concluded>>
  BY DEF Retries
<1> DEFINE new == [r EXCEPT !.left = @ - 1]
<1>2. r \in [rows : SUBSET (1..NRows), left : Nat]
  BY DEF PredictionsInv, RequestTypes
<1>3. new \in [rows : SUBSET (1..NRows), left : Nat] /\ new.rows = r.rows
  BY <1>1, <1>2
<1>4. requests' = (requests \ {r}) \cup {new}
  BY <1>1
<1> HIDE DEF new
<1>5. Answered' = Answered /\ \A limit : EvalIds(limit)' = EvalIds(limit)
  BY <1>1 DEF Answered, EvalIds
<1>6. RequestTypes'
  BY <1>1, <1>3, <1>4 DEF PredictionsInv, RequestTypes
<1>7. LinesAreApart' /\ FileIsKnown'
  BY <1>1, <1>5 DEF PredictionsInv, LinesAreApart, FileIsKnown
<1>8. RowsAreApart'
  BY <1>1, <1>3, <1>4 DEF PredictionsInv, RowsAreApart
<1>9. WantedAreKept'
  <2>1. ASSUME NEW i, \E q \in requests : i \in q.rows PROVE \E q \in requests' : i \in q.rows
    BY <1>3, <1>4, <2>1
  <2> QED BY <1>1, <1>5, <2>1 DEF PredictionsInv, WantedAreKept
<1>10. ExemplarsAreOut' /\ ConclusionsAreSaved'
  <2>1. ExemplarsAreOut'
    BY <1>1, <1>3, <1>4 DEF PredictionsInv, ExemplarsAreOut
  <2> QED BY <1>1, <1>5, <2>1, ConclusionsStand DEF PredictionsInv
<1> QED BY <1>6, <1>7, <1>8, <1>9, <1>10 DEF PredictionsInv

\* A request is settled by its lines.
LEMMA SettledKeeps ==
    ASSUME PredictionsInv, NEW r \in requests, NEW s \in InOrder(r.rows), NEW replied,
           tool.fills \/ r.rows \subseteq replied,
           lines' = lines \o Appended(s, Cardinality(r.rows), replied, FALSE),
           done' = done \cup r.rows, requests' = requests \ {r},
           UNCHANGED <<tool, runPhase, wanted, todo, gaveUp, concluded>>
    PROVE  PredictionsInv'
<1>1. r \in [rows : SUBSET (1..NRows), left : Nat] /\ runPhase # "down"
  BY DEF PredictionsInv, RequestTypes, FileIsKnown
<1>2. Cardinality(r.rows) \in 0..Cardinality(r.rows)
  BY <1>1, RowsAreCounted
<1>3. /\ lines' \in Seq(FileLines) /\ LinesAreApart'
      /\ Answered' = Answered \cup r.rows
      /\ \A i \in DOMAIN lines' : ~lines'[i].torn
      /\ \A i \in DOMAIN lines' : lines'[i].row \in r.rows \/ \E j \in DOMAIN lines : lines'[i].row = lines[j].row
  BY <1>1, <1>2, SavedLines
<1>4. Answered \subseteq Answered' /\ \A limit : EvalIds(limit)' = EvalIds(limit)
  BY <1>3 DEF EvalIds
<1>5. RequestTypes'
  BY <1>1, <1>3 DEF PredictionsInv, RequestTypes
<1>6. FileIsKnown'
  BY <1>1, <1>3 DEF PredictionsInv, FileIsKnown
<1>7. RowsAreApart'
  BY DEF PredictionsInv, RowsAreApart
<1>8. WantedAreKept'
  <2>1. ASSUME NEW i \in wanted, runPhase = "asking"
        PROVE  i \in todo \cup done' \cup gaveUp \/ \E q \in requests' : i \in q.rows
    <3>1. i \in todo \cup done \cup gaveUp \/ \E q \in requests : i \in q.rows
      BY <2>1 DEF PredictionsInv, WantedAreKept
    <3> QED BY <3>1
  <2> QED BY <1>1, <1>4, <2>1 DEF PredictionsInv, WantedAreKept
<1>9. ExemplarsAreOut'
  BY <1>3 DEF PredictionsInv, ExemplarsAreOut
<1>10. ConclusionsAreSaved'
  BY <1>4, ConclusionsStand DEF PredictionsInv
<1> QED BY <1>3, <1>5, <1>6, <1>7, <1>8, <1>9, <1>10 DEF PredictionsInv

LEMMA SavesKeeps ==
    ASSUME PredictionsInv, Saves
    PROVE  PredictionsInv'
<1>1. PICK r \in requests : \E s \in InOrder(r.rows), replied \in RepliesTo(r) :
        /\ lines' = lines \o Appended(s, Cardinality(r.rows), replied, FALSE)
        /\ done' = done \cup r.rows
        /\ requests' = requests \ {r}
        /\ UNCHANGED <<tool, runPhase, wanted, todo, gaveUp, concluded, starts>>
  BY DEF Saves
<1>2. PICK s \in InOrder(r.rows), replied \in RepliesTo(r) :
        lines' = lines \o Appended(s, Cardinality(r.rows), replied, FALSE)
  BY <1>1
<1>3. tool.fills \/ r.rows \subseteq replied
  BY <1>2 DEF RepliesTo
<1> QED BY <1>1, <1>2, <1>3, SettledKeeps

LEMMA GivesUpKeeps ==
    ASSUME PredictionsInv, GivesUp
    PROVE  PredictionsInv'
<1>1. PICK r \in requests :
        /\ requests' = requests \ {r}
        /\ IF tool.fills
           THEN /\ \E s \in InOrder(r.rows) :
                       lines' = lines \o Appended(s, Cardinality(r.rows), {}, FALSE)
                /\ done' = done \cup r.rows
                /\ UNCHANGED <<runPhase, todo, gaveUp>>
           ELSE /\ gaveUp' = gaveUp \cup r.rows
                /\ IF tool.inFlight = 1 THEN runPhase' = "stopping" /\ todo' = {}
                                        ELSE UNCHANGED <<runPhase, todo>>
                /\ UNCHANGED <<lines, done>>
        /\ UNCHANGED <<tool, wanted, concluded, starts>>
  BY DEF GivesUp
<1>2. CASE tool.fills
  BY <1>1, <1>2, SettledKeeps
<1>3. CASE ~tool.fills
  <2>1. /\ gaveUp' = gaveUp \cup r.rows /\ requests' = requests \ {r}
        /\ (runPhase' = "stopping" /\ todo' = {}) \/ (runPhase' = runPhase /\ todo' = todo)
        /\ UNCHANGED <<lines, done, tool, wanted, concluded>>
    BY <1>1, <1>3
  <2>2. r.rows \subseteq 1..NRows /\ runPhase # "down"
    BY DEF PredictionsInv, RequestTypes, FileIsKnown
  <2>3. Answered' = Answered /\ \A limit : EvalIds(limit)' = EvalIds(limit)
    BY <2>1 DEF Answered, EvalIds
  <2>4. RequestTypes'
    BY <2>1, <2>2 DEF PredictionsInv, RequestTypes
  <2>5. LinesAreApart' /\ FileIsKnown'
    BY <2>1, <2>2, <2>3 DEF PredictionsInv, LinesAreApart, FileIsKnown
  <2>6. RowsAreApart' /\ ExemplarsAreOut'
    BY <2>1 DEF PredictionsInv, RowsAreApart, ExemplarsAreOut
  <2>7. WantedAreKept'
    <3>1. ASSUME NEW i \in wanted, runPhase = "asking", todo' = todo
          PROVE  i \in todo' \cup done' \cup gaveUp' \/ \E q \in requests' : i \in q.rows
      <4>1. i \in todo \cup done \cup gaveUp \/ \E q \in requests : i \in q.rows
        BY <3>1 DEF PredictionsInv, WantedAreKept
      <4> QED BY <2>1, <3>1, <4>1
    <3> QED BY <2>1, <2>2, <2>3, <3>1 DEF PredictionsInv, WantedAreKept
  <2>8. ConclusionsAreSaved'
    BY <2>1, <2>3, ConclusionsStand DEF PredictionsInv
  <2> QED BY <2>4, <2>5, <2>6, <2>7, <2>8 DEF PredictionsInv
<1> QED BY <1>2, <1>3

LEMMA StopsKeeps ==
    ASSUME PredictionsInv, Surfaces \/ Stops
    PROVE  PredictionsInv'
<1>1. /\ UNCHANGED <<tool, lines, wanted, requests, gaveUp, concluded>>
      /\ todo' = {} /\ runPhase # "down"
      /\ \/ runPhase' = "stopping" /\ done' = done
         \/ runPhase' = "down" /\ done' = {} /\ requests = {}
  BY DEF Surfaces, Stops, PredictionsInv, FileIsKnown
<1>2. Answered' = Answered /\ \A limit : EvalIds(limit)' = EvalIds(limit)
  BY <1>1 DEF Answered, EvalIds
<1>3. RequestTypes'
  BY <1>1 DEF PredictionsInv, RequestTypes
<1>4. LinesAreApart' /\ FileIsKnown'
  BY <1>1, <1>2 DEF PredictionsInv, LinesAreApart, FileIsKnown
<1>5. RowsAreApart' /\ ExemplarsAreOut' /\ WantedAreKept'
  BY <1>1, <1>2 DEF PredictionsInv, RowsAreApart, ExemplarsAreOut, WantedAreKept
<1>6. ConclusionsAreSaved'
  BY <1>1, <1>2, ConclusionsStand DEF PredictionsInv
<1> QED BY <1>3, <1>4, <1>5, <1>6 DEF PredictionsInv

LEMMA ConcludesKeeps ==
    ASSUME PredictionsInv, Concludes
    PROVE  PredictionsInv'
<1> DEFINE new == [wanted |-> wanted, used |-> IF tool.usesAll THEN done ELSE wanted]
<1>1. /\ UNCHANGED <<tool, lines, wanted, todo, requests, gaveUp>>
      /\ runPhase = "asking" /\ todo = {} /\ requests = {} /\ gaveUp = {}
      /\ runPhase' = "down" /\ done' = {}
  BY DEF Concludes
<1>2. concluded' = concluded \cup {new}
  BY DEF Concludes
<1>3. Answered' = Answered /\ \A limit : EvalIds(limit)' = EvalIds(limit)
  BY <1>1 DEF Answered, EvalIds
<1>4. wanted \subseteq done /\ done = Answered
  BY <1>1 DEF PredictionsInv, WantedAreKept, FileIsKnown
<1>5. PICK limit \in Limits \cup {0} : wanted = EvalIds(limit)
  BY <1>1 DEF PredictionsInv, WantedAreKept
<1>6. /\ new.wanted \subseteq new.used /\ new.used \subseteq Answered /\ new.wanted = EvalIds(limit)
      /\ new.used \subseteq done
  BY <1>4, <1>5
<1>7. tool.excludes => new.used \cap Exemplars = {}
  <2> SUFFICES ASSUME tool.excludes PROVE Answered \cap Exemplars = {}
    BY <1>6
  <2>1. \A i \in DOMAIN lines : lines[i].row \notin Exemplars
    BY DEF PredictionsInv, ExemplarsAreOut
  <2> QED BY <2>1 DEF Answered
<1> HIDE DEF new
<1>8. ConclusionsAreSaved'
  BY <1>1, <1>2, <1>3, <1>6, <1>7 DEF PredictionsInv, ConclusionsAreSaved
<1>9. RequestTypes'
  BY <1>1 DEF PredictionsInv, RequestTypes
<1>10. LinesAreApart' /\ FileIsKnown'
  BY <1>1, <1>3 DEF PredictionsInv, LinesAreApart, FileIsKnown
<1>11. RowsAreApart' /\ ExemplarsAreOut' /\ WantedAreKept'
  BY <1>1, <1>3 DEF PredictionsInv, RowsAreApart, ExemplarsAreOut, WantedAreKept
<1> QED BY <1>8, <1>9, <1>10, <1>11 DEF PredictionsInv

LEMMA RunKilledKeeps ==
    ASSUME PredictionsInv, RunKilled
    PROVE  PredictionsInv'
<1>1. /\ runPhase # "down" /\ UNCHANGED <<tool, wanted, concluded>>
      /\ runPhase' = "down" /\ todo' = {} /\ requests' = {} /\ done' = {} /\ gaveUp' = {}
  BY DEF RunKilled
<1>2. /\ lines' \in Seq(FileLines) /\ LinesAreApart' /\ Answered \subseteq Answered'
      /\ tool.excludes => \A i \in DOMAIN lines' : lines'[i].row \notin Exemplars
  <2>1. CASE lines' = lines
    <3>1. LinesAreApart' /\ Answered' = Answered
      BY <1>1, <2>1 DEF PredictionsInv, LinesAreApart, Answered
    <3> QED BY <2>1, <3>1 DEF PredictionsInv, RequestTypes, ExemplarsAreOut
  <2>2. CASE lines' # lines
    <3>1. PICK r \in requests : \E s \in InOrder(r.rows), replied \in RepliesTo(r) :
            \E n \in 0..Cardinality(r.rows), torn \in BOOLEAN :
                lines' = lines \o Appended(s, n, replied, torn)
      BY <2>2 DEF RunKilled
    <3>2. PICK s \in InOrder(r.rows), replied \in RepliesTo(r), n \in 0..Cardinality(r.rows), torn \in BOOLEAN :
            lines' = lines \o Appended(s, n, replied, torn)
      BY <3>1
    <3>3. tool.fills \/ r.rows \subseteq replied
      BY <3>2 DEF RepliesTo
    <3>4. /\ lines' \in Seq(FileLines) /\ LinesAreApart' /\ Answered \subseteq Answered'
          /\ \A i \in DOMAIN lines' :
                lines'[i].row \in r.rows \/ \E j \in DOMAIN lines : lines'[i].row = lines[j].row
      BY <1>1, <3>2, <3>3, SavedLines
    <3> QED BY <3>4 DEF PredictionsInv, ExemplarsAreOut
  <2> QED BY <2>1, <2>2
<1>3. RequestTypes'
  BY <1>1, <1>2 DEF PredictionsInv, RequestTypes
<1>4. FileIsKnown' /\ RowsAreApart' /\ ExemplarsAreOut' /\ WantedAreKept'
  BY <1>1, <1>2 DEF FileIsKnown, RowsAreApart, ExemplarsAreOut, WantedAreKept
<1>5. ConclusionsAreSaved'
  BY <1>1, <1>2, ConclusionsStand DEF PredictionsInv
<1> QED BY <1>2, <1>3, <1>4, <1>5 DEF PredictionsInv

LEMMA PredictionsInvNext ==
    ASSUME PredictionsInv, [RunNext]_runVars
    PROVE  PredictionsInv'
<1>1. CASE UNCHANGED runVars
  <2>1. UNCHANGED <<tool, lines, runPhase, wanted, todo, requests, done, gaveUp, concluded>>
    BY <1>1 DEF runVars
  <2>2. Answered' = Answered /\ \A limit : EvalIds(limit)' = EvalIds(limit)
    BY <2>1 DEF Answered, EvalIds
  <2>3. RequestTypes' /\ LinesAreApart' /\ FileIsKnown'
    BY <2>1, <2>2 DEF PredictionsInv, RequestTypes, LinesAreApart, FileIsKnown
  <2>4. RowsAreApart' /\ WantedAreKept' /\ ExemplarsAreOut' /\ ConclusionsAreSaved'
    BY <2>1, <2>2, ConclusionsStand DEF PredictionsInv, RowsAreApart, WantedAreKept, ExemplarsAreOut
  <2> QED BY <2>3, <2>4 DEF PredictionsInv
<1> QED BY <1>1, RunStartsKeeps, AsksKeeps, RetriesKeeps, SavesKeeps, GivesUpKeeps, StopsKeeps,
           ConcludesKeeps, RunKilledKeeps DEF RunNext

LEMMA PredictionsInvIsWhole == PredictionsInv => PredictionsAreWhole
<1> SUFFICES ASSUME PredictionsInv PROVE PredictionsAreWhole
  OBVIOUS
<1>1. \A i, j \in DOMAIN lines :
        /\ lines[i].row = lines[j].row => i = j
        /\ lines[i].torn => i = Len(lines)
        /\ ~lines[i].torn /\ ~lines[i].reply => tool.fills
  BY DEF PredictionsInv, LinesAreApart
<1>2. \A c \in concluded :
        /\ c.wanted \subseteq c.used /\ c.used \subseteq Answered
        /\ tool.excludes => c.used \cap Exemplars = {}
        /\ \E limit \in Limits \cup {0} : c.wanted = EvalIds(limit)
  BY DEF PredictionsInv, ConclusionsAreSaved
<1> QED BY <1>1, <1>2, Zenon DEF PredictionsAreWhole

\* For any rows, limits, replies, failures and kills: no file tells of a row
\* twice, only its last line is torn, and what is concluded rests on every row
\* that was wanted and on no exemplar (eval_ids, predict and analyze in
\* kt3_redux and the tools built like it).
THEOREM PredictionsStayWhole == RunSpec => []PredictionsAreWhole
<1> QED BY PredictionsInvStarts, PredictionsInvNext, PredictionsInvIsWhole, PTL DEF RunSpec

-----------------------------------------------------------------------------
(* The offline tools side by side.                                         *)

OfflineInv == PredictionsInv /\ TrainInv

LEMMA OfflineInvNext ==
    ASSUME OfflineInv, [OfflineNext]_offlineVars
    PROVE  OfflineInv'
<1>1. [RunNext]_runVars /\ [TrainNext]_trainVars
  BY DEF OfflineNext, offlineVars
<1> QED BY <1>1, PredictionsInvNext, TrainInvNext DEF OfflineInv

\* However the offline tools are killed, resumed and interleaved: no prediction
\* file loses or doubles a row, and no training run loses a batch, trains a row
\* twice in an epoch or packs one past the budget (predict and analyze in
\* kt3_redux and its siblings, pack_batches, train and resume in train_extend).
THEOREM OfflineRunsStayWhole == OfflineSpec => []OfflineRunsAreWhole
<1>1. OfflineInit => OfflineInv
  BY PredictionsInvStarts, TrainInvStarts DEF OfflineInit, OfflineInv
<1>2. OfflineInv => OfflineRunsAreWhole
  <2> SUFFICES ASSUME OfflineInv PROVE OfflineRunsAreWhole
    OBVIOUS
  <2>1. BatchesFit
    BY BatchesAreFit DEF OfflineInv, TrainInv, TrainTypes
  <2> QED BY <2>1, PredictionsInvIsWhole, TrainInvLosesNone
          DEF OfflineInv, OfflineRunsAreWhole, TrainingIsWhole
<1> QED BY <1>1, <1>2, OfflineInvNext, PTL DEF OfflineSpec

-----------------------------------------------------------------------------
(* TrainingRows: what the rows are made of.                                *)

\* The last of some places of a list.
LEMMA LastPlace ==
    ASSUME NEW n \in Nat, NEW S \in SUBSET (1..n), S # {}
    PROVE  Max(S) \in S /\ \A k \in S : k <= Max(S)
<1> DEFINE T == {n - k : k \in S}
<1>1. T \subseteq Nat /\ T # {}
  <2>1. \A k \in S : k \in 1..n /\ n - k \in Nat
    OBVIOUS
  <2>2. PICK k \in S : TRUE
    OBVIOUS
  <2>3. n - k \in T
    OBVIOUS
  <2> QED BY <2>1, <2>3
<1>2. PICK m \in T : \A k \in T : <<k, m>> \notin OpToRel(<, Nat)
  BY <1>1, WFMin, NatLessThanWellFounded, Zenon
<1>3. \A k \in T : ~(k < m)
  <2> TAKE k \in T
  <2>1. k \in Nat /\ m \in Nat
    BY <1>1
  <2> QED BY <1>2, <2>1, Zenon DEF OpToRel
<1>4. PICK x \in S : m = n - x
  OBVIOUS
<1>5. \A y \in S : x >= y
  BY <1>3, <1>4
<1>6. Max(S) \in S /\ \A y \in S : Max(S) >= y
  BY <1>5, Zenon DEF Max
<1> QED BY <1>6

LEMMA EnlargingIsDefined ==
    ASSUME NEW own, NEW order, Len(order) \in Nat, NEW target
    PROVE  Enlarging(own, order, target) =
             [k \in 0..Len(order) |->
                IF k = 0 THEN [tools |-> own, full |-> FALSE]
                         ELSE Adds(Enlarging(own, order, target)[k - 1], order[k], target)]
<1> DEFINE Added(f, n) == f = [k \in 0..n |-> IF k = 0 THEN [tools |-> own, full |-> FALSE]
                                                       ELSE Adds(f[k - 1], order[k], target)]
           S == {n \in Nat : \E f : Added(f, n)}
<1>1. 0 \in S
  <2>1. Added([k \in 0..0 |-> [tools |-> own, full |-> FALSE]], 0)
    OBVIOUS
  <2> QED BY <2>1
<1>2. ASSUME NEW n \in Nat, n \in S PROVE n + 1 \in S
  <2>1. PICK f : Added(f, n)
    BY <1>2
  <2> DEFINE g == [k \in 0..(n + 1) |-> IF k = n + 1 THEN Adds(f[n], order[n + 1], target) ELSE f[k]]
  <2>2. ASSUME NEW k \in 0..(n + 1)
        PROVE  g[k] = IF k = 0 THEN [tools |-> own, full |-> FALSE] ELSE Adds(g[k - 1], order[k], target)
    <3>1. CASE k = n + 1
      <4>1. k - 1 = n /\ n \in 0..(n + 1) /\ n # n + 1 /\ k # 0
        BY <3>1
      <4>2. g[k - 1] = f[n]
        BY <4>1
      <4> QED BY <3>1, <4>1, <4>2
    <3>2. CASE k = 0
      BY <2>1, <3>2
    <3>3. CASE k \in 1..n
      <4>1. g[k] = f[k] /\ g[k - 1] = f[k - 1]
        BY <3>3
      <4>2. k \in 0..n /\ k # 0
        BY <3>3
      <4>3. f[k] = Adds(f[k - 1], order[k], target)
        BY <2>1, <4>2, Zenon
      <4> QED BY <3>3, <4>1, <4>3
    <3> QED BY <3>1, <3>2, <3>3
  <2>3. g = [k \in 0..(n + 1) |-> IF k = 0 THEN [tools |-> own, full |-> FALSE]
                                            ELSE Adds(g[k - 1], order[k], target)]
    <3> HIDE DEF g
    <3>1. g = [k \in 0..(n + 1) |-> g[k]]
      BY DEF g
    <3> QED BY <2>2, <3>1
  <2>4. Added(g, n + 1)
    BY <2>3
  <2> HIDE DEF g, Added
  <2> QED BY <2>4
<1>3. \E f : Added(f, Len(order))
  <2>1. Len(order) \in S
    <3> HIDE DEF S
    <3> QED BY <1>1, <1>2, NatInductionInSet
  <2> QED BY <2>1
<1>4. Added(CHOOSE f : Added(f, Len(order)), Len(order))
  <2> HIDE DEF Added
  <2> QED BY <1>3
<1>5. Enlarging(own, order, target) = CHOOSE f : Added(f, Len(order))
  BY DEF Enlarging
<1> QED BY <1>4, <1>5

LEMMA TrimmingIsDefined ==
    ASSUME NEW menu, NEW expected, Len(menu) \in Nat
    PROVE  Trimming(menu, expected) =
             [k \in 0..Len(menu) |-> IF k = 0 THEN menu ELSE Trims(Trimming(menu, expected)[k - 1], expected)]
<1> DEFINE Done(f, n) == f = [k \in 0..n |-> IF k = 0 THEN menu ELSE Trims(f[k - 1], expected)]
           S == {n \in Nat : \E f : Done(f, n)}
<1>1. 0 \in S
  <2>1. Done([k \in 0..0 |-> menu], 0)
    OBVIOUS
  <2> QED BY <2>1
<1>2. ASSUME NEW n \in Nat, n \in S PROVE n + 1 \in S
  <2>1. PICK f : Done(f, n)
    BY <1>2
  <2> DEFINE g == [k \in 0..(n + 1) |-> IF k = n + 1 THEN Trims(f[n], expected) ELSE f[k]]
  <2>2. ASSUME NEW k \in 0..(n + 1)
        PROVE  g[k] = IF k = 0 THEN menu ELSE Trims(g[k - 1], expected)
    <3>1. CASE k = n + 1
      <4>1. k - 1 = n /\ n \in 0..(n + 1) /\ n # n + 1 /\ k # 0
        BY <3>1
      <4>2. g[k - 1] = f[n]
        BY <4>1
      <4> QED BY <3>1, <4>1, <4>2
    <3>2. CASE k = 0
      BY <2>1, <3>2
    <3>3. CASE k \in 1..n
      <4>1. g[k] = f[k] /\ g[k - 1] = f[k - 1]
        BY <3>3
      <4>2. f[k] = Trims(f[k - 1], expected)
        BY <2>1, <3>3
      <4> QED BY <3>3, <4>1, <4>2
    <3> QED BY <3>1, <3>2, <3>3
  <2>3. g = [k \in 0..(n + 1) |-> IF k = 0 THEN menu ELSE Trims(g[k - 1], expected)]
    <3> HIDE DEF g
    <3>1. g = [k \in 0..(n + 1) |-> g[k]]
      BY DEF g
    <3> QED BY <2>2, <3>1
  <2>4. Done(g, n + 1)
    BY <2>3
  <2> HIDE DEF g, Done
  <2> QED BY <2>4
<1>3. \E f : Done(f, Len(menu))
  <2>1. Len(menu) \in S
    <3> HIDE DEF S
    <3> QED BY <1>1, <1>2, NatInductionInSet
  <2> QED BY <2>1
<1>4. Done(CHOOSE f : Done(f, Len(menu)), Len(menu))
  <2> HIDE DEF Done
  <2> QED BY <1>3
<1>5. Trimming(menu, expected) = CHOOSE f : Done(f, Len(menu))
  BY DEF Trimming
<1> QED BY <1>4, <1>5

-----------------------------------------------------------------------------
\* One list of offered tools is as long as its numbers say.
LEMMA LengthWithOneMore ==
    ASSUME NEW tools \in Seq(OfferedTools), NEW t \in OfferedTools
    PROVE  /\ LengthOf(tools) \in Nat
           /\ LengthOf(Append(tools, t)) = LengthOf(tools) + t.length
<1> DEFINE n == Len(tools)
           more == Append(tools, t)
           a == [i \in DOMAIN more |-> more[i].length]
           b == [i \in DOMAIN tools |-> tools[i].length]
<1>1. n \in Nat /\ DOMAIN tools = 1..n /\ DOMAIN more = 1..(n + 1)
  OBVIOUS
<1>2. (\A i \in 1..n : more[i] = tools[i] /\ tools[i] \in OfferedTools) /\ more[n + 1] = t
  OBVIOUS
<1>3. a \in [1..(n + 1) -> Nat] /\ b \in [1..n -> Nat]
  BY <1>1, <1>2, TrainingRowConstants
<1>4. b = [i \in 1..n |-> a[i]] /\ a[n + 1] = t.length
  BY <1>1, <1>2
<1>5. TotalOf(a) = TotalOf(b) + t.length
  <2> HIDE DEF a, b, n
  <2> QED BY <1>1, <1>3, <1>4, TotalWithLast
<1>6. TotalOf(b) \in Nat
  <2> HIDE DEF b, n
  <2> QED BY <1>1, <1>3, TotalIsNat
<1> QED BY <1>5, <1>6 DEF LengthOf

\* Shuffling changes neither the tools nor their length.
LEMMA ShuffledTools ==
    ASSUME NEW tools \in Seq(OfferedTools), NEW shuffled \in Shuffles(tools)
    PROVE  /\ Len(shuffled) = Len(tools) /\ ToSet(shuffled) = ToSet(tools)
           /\ shuffled \in Seq(OfferedTools)
           /\ LengthOf(shuffled) = LengthOf(tools)
<1> DEFINE n == Len(tools)
           a == [i \in DOMAIN tools |-> tools[i].length]
<1>1. n \in Nat /\ DOMAIN tools = 1..n /\ \A i \in 1..n : tools[i] \in OfferedTools
  OBVIOUS
<1>2. PICK p \in Bijection(1..n, 1..n) : shuffled = [i \in 1..n |-> tools[p[i]]]
  BY <1>1 DEF Shuffles
<1>3. p \in [1..n -> 1..n] /\ \A j \in 1..n : \E i \in 1..n : p[i] = j
  BY DEF Bijection, Injection, Surjection
<1>4. DOMAIN shuffled = 1..n /\ shuffled \in Seq(OfferedTools) /\ Len(shuffled) = n
  <2>1. shuffled \in [1..n -> OfferedTools]
    BY <1>1, <1>2, <1>3
  <2> QED BY <1>1, <2>1
<1>5. ToSet(shuffled) = ToSet(tools)
  BY <1>1, <1>2, <1>3, <1>4 DEF ToSet
<1>6. a \in [1..n -> Nat]
  BY <1>1, TrainingRowConstants
<1>7. [i \in DOMAIN shuffled |-> shuffled[i].length] = [i \in 1..n |-> a[p[i]]]
  BY <1>1, <1>2, <1>3, <1>4
<1>8. TotalOf([i \in 1..n |-> a[p[i]]]) = TotalOf(a)
  <2> HIDE DEF a, n
  <2> QED BY <1>1, <1>6, TotalOfShuffled
<1> QED BY <1>4, <1>5, <1>7, <1>8 DEF LengthOf

-----------------------------------------------------------------------------
(* TrainingRows: the menus.                                                *)

\* What a menu is while tools are added to it.
EnlargedFrom(own, acc) ==
    /\ acc \in [tools : Seq(OfferedTools), full : BOOLEAN]
    /\ Len(acc.tools) >= Len(own) /\ \A i \in 1..Len(own) : acc.tools[i] = own[i]
    /\ QueryLength + LengthOf(acc.tools) > MaxEncoder => Len(acc.tools) = Len(own)

LEMMA AddsKeeps ==
    ASSUME NEW own \in Seq(OfferedTools), NEW acc, EnlargedFrom(own, acc), NEW t \in Bank, NEW target
    PROVE  EnlargedFrom(own, Adds(acc, t, target))
<1>1. t \in OfferedTools /\ QueryLength \in Nat /\ MaxEncoder \in Nat
  BY TrainingRowConstants DEF OfferedTools
<1> DEFINE more == Append(acc.tools, t)
<1>2. acc.tools \in Seq(OfferedTools) /\ acc.full \in BOOLEAN /\ Len(own) \in Nat /\ Len(acc.tools) \in Nat
  BY DEF EnlargedFrom
<1>3. CASE Adds(acc, t, target) = acc
  BY <1>3
<1>4. CASE Adds(acc, t, target) = [acc EXCEPT !.full = TRUE]
  <2>1. /\ [acc EXCEPT !.full = TRUE] \in [tools : Seq(OfferedTools), full : BOOLEAN]
        /\ [acc EXCEPT !.full = TRUE].tools = acc.tools
    BY DEF EnlargedFrom
  <2> QED BY <1>4, <2>1 DEF EnlargedFrom
<1>5. CASE /\ Adds(acc, t, target) = [acc EXCEPT !.tools = Append(@, t)]
           /\ ~\E limit \in {target, MaxEncoder} : QueryLength + LengthOf(acc.tools) + t.length > limit
  <2>1. /\ Adds(acc, t, target) \in [tools : Seq(OfferedTools), full : BOOLEAN]
        /\ Adds(acc, t, target).tools = more
    <3>1. more \in Seq(OfferedTools)
      BY <1>1, <1>2
    <3>2. acc \in [tools : Seq(OfferedTools), full : BOOLEAN]
      BY DEF EnlargedFrom
    <3>3. Adds(acc, t, target) = [acc EXCEPT !.tools = more]
      BY <1>5
    <3> HIDE DEF more
    <3> QED BY <3>1, <3>2, <3>3
  <2>2. /\ Len(more) = Len(acc.tools) + 1
        /\ \A i \in 1..Len(acc.tools) : more[i] = acc.tools[i]
    BY <1>1, <1>2
  <2>3. LengthOf(more) = LengthOf(acc.tools) + t.length /\ LengthOf(acc.tools) \in Nat /\ t.length \in Nat
    BY <1>1, <1>2, LengthWithOneMore, TrainingRowConstants
  <2>4. ~(QueryLength + LengthOf(more) > MaxEncoder)
    <3>1. ~(QueryLength + LengthOf(acc.tools) + t.length > MaxEncoder)
      BY <1>5
    <3> HIDE DEF more
    <3> QED BY <1>1, <2>3, <3>1
  <2>5. Len(more) >= Len(own) /\ \A i \in 1..Len(own) : more[i] = own[i]
    <3> HIDE DEF more
    <3> QED BY <1>2, <2>2 DEF EnlargedFrom
  <2> HIDE DEF more
  <2> QED BY <2>1, <2>4, <2>5 DEF EnlargedFrom
<1> QED BY <1>3, <1>4, <1>5 DEF Adds

\* A menu is enlarged within the encoder, and keeps its own tools first.
LEMMA EnlargedTools ==
    ASSUME NEW own \in Seq(OfferedTools), NEW n \in Nat, NEW order \in [1..n -> Bank], NEW target
    PROVE  LET enlarged == Enlarged(own, order, target) IN
           /\ enlarged \in Seq(OfferedTools)
           /\ Len(enlarged) >= Len(own) /\ \A i \in 1..Len(own) : enlarged[i] = own[i]
           /\ QueryLength + LengthOf(enlarged) > MaxEncoder => Len(enlarged) = Len(own)
<1> DEFINE E == Enlarging(own, order, target)
           S == {k \in Nat : k <= n => EnlargedFrom(own, E[k])}
<1>1. Len(order) = n
  OBVIOUS
<1>2. \A k \in 0..n : E[k] = IF k = 0 THEN [tools |-> own, full |-> FALSE]
                                      ELSE Adds(E[k - 1], order[k], target)
  <2>1. E = [k \in 0..Len(order) |-> IF k = 0 THEN [tools |-> own, full |-> FALSE]
                                              ELSE Adds(E[k - 1], order[k], target)]
    <3>1. Len(order) \in Nat
      BY <1>1
    <3> HIDE DEF S
    <3>2. Enlarging(own, order, target) =
             [k \in 0..Len(order) |->
                IF k = 0 THEN [tools |-> own, full |-> FALSE]
                         ELSE Adds(Enlarging(own, order, target)[k - 1], order[k], target)]
      BY <3>1, EnlargingIsDefined
    <3> QED BY <3>2
  <2> HIDE DEF E
  <2> QED BY <1>1, <2>1
<1>3. 0 \in S
  <2> HIDE DEF E
  <2>1. E[0] = [tools |-> own, full |-> FALSE]
    <3>1. 0 \in 0..n
      OBVIOUS
    <3> QED BY <1>2, <3>1
  <2>2. EnlargedFrom(own, E[0])
    BY <2>1 DEF EnlargedFrom
  <2> QED BY <2>2
<1>4. ASSUME NEW k \in Nat, k \in S PROVE k + 1 \in S
  <2> SUFFICES ASSUME k + 1 <= n PROVE EnlargedFrom(own, E[k + 1])
    OBVIOUS
  <2>1. k + 1 \in 0..n /\ k + 1 # 0 /\ (k + 1) - 1 = k /\ order[k + 1] \in Bank /\ k <= n
    OBVIOUS
  <2>2. EnlargedFrom(own, E[k])
    BY <1>4, <2>1
  <2>3. E[k + 1] = Adds(E[k], order[k + 1], target)
    BY <1>2, <2>1
  <2> HIDE DEF E
  <2> QED BY <2>1, <2>2, <2>3, AddsKeeps
<1>5. EnlargedFrom(own, E[n])
  <2>1. n \in S
    <3> HIDE DEF S
    <3> QED BY <1>3, <1>4, NatInductionInSet
  <2> QED BY <2>1
<1>6. Enlarged(own, order, target) = E[n].tools
  BY <1>1 DEF Enlarged
<1> HIDE DEF E
<1> QED BY <1>5, <1>6 DEF EnlargedFrom

-----------------------------------------------------------------------------
LEMMA RemovedFrom ==
    ASSUME NEW S, NEW s \in Seq(S), NEW k \in 1..Len(s)
    PROVE  /\ RemoveAt(s, k) \in Seq(S) /\ Len(RemoveAt(s, k)) = Len(s) - 1
           /\ \A i \in 1..(Len(s) - 1) : RemoveAt(s, k)[i] = IF i < k THEN s[i] ELSE s[i + 1]
<1> DEFINE before == SubSeq(s, 1, k - 1)
           after  == SubSeq(s, k + 1, Len(s))
<1>1. Len(s) \in Nat /\ k \in Nat /\ k >= 1 /\ k <= Len(s)
  OBVIOUS
<1>2. before \in Seq(S) /\ Len(before) = k - 1 /\ \A i \in 1..(k - 1) : before[i] = s[i]
  BY <1>1
<1>3. after \in Seq(S) /\ Len(after) = Len(s) - k /\ \A i \in 1..(Len(s) - k) : after[i] = s[k + i]
  BY <1>1
<1>4. RemoveAt(s, k) = before \o after
  BY DEF RemoveAt
<1> HIDE DEF before, after
<1>5. RemoveAt(s, k) \in Seq(S) /\ Len(RemoveAt(s, k)) = Len(s) - 1
  BY <1>1, <1>2, <1>3, <1>4
<1>6. ASSUME NEW i \in 1..(Len(s) - 1)
      PROVE  RemoveAt(s, k)[i] = IF i < k THEN s[i] ELSE s[i + 1]
  <2>1. CASE i < k
    <3>1. i \in 1..(k - 1)
      BY <1>1, <2>1
    <3>2. (before \o after)[i] = before[i]
      BY <1>2, <1>3, <3>1
    <3> QED BY <1>2, <1>4, <2>1, <3>1, <3>2
  <2>2. CASE ~(i < k)
    <3>1. i - (k - 1) \in 1..(Len(s) - k) /\ k + (i - (k - 1)) = i + 1
      BY <1>1, <2>2
    <3>2. (before \o after)[i] = after[i - (k - 1)]
      BY <1>1, <1>2, <1>3, <2>2, <3>1
    <3> QED BY <1>3, <1>4, <2>2, <3>1, <3>2
  <2> QED BY <2>1, <2>2
<1> QED BY <1>5, <1>6

\* What a menu is while tools are taken from it.
TrimmedFrom(n, drawn, expected, menu) ==
    /\ menu \in Seq({drawn[i] : i \in 1..n}) /\ InOrderOf(drawn, menu)
    /\ \A f \in expected : \E i \in 1..Len(menu) : menu[i] = f

LEMMA TrimsKeeps ==
    ASSUME NEW n \in Nat, NEW drawn \in [1..n -> Functions], \A i, j \in 1..n : drawn[i] = drawn[j] => i = j,
           NEW expected, \A f, g \in expected : f = g,
           NEW menu, TrimmedFrom(n, drawn, expected, menu),
           MenuLength(menu) > MaxEncoder, Len(menu) > SmallestMenu
    PROVE  /\ TrimmedFrom(n, drawn, expected, Trims(menu, expected))
           /\ Len(Trims(menu, expected)) = Len(menu) - 1
<1> DEFINE R == {drawn[i] : i \in 1..n}
           m == Len(menu)
           P == {k \in DOMAIN menu : menu[k] \notin expected}
           k == TrimmedAt(menu, expected)
           new == RemoveAt(menu, k)
<1>1. menu \in Seq(R) /\ m \in Nat /\ DOMAIN menu = 1..m /\ DOMAIN drawn = 1..n
  BY DEF TrimmedFrom
<1>2. PICK at \in [1..m -> 1..n] : /\ \A i, j \in 1..m : i < j => at[i] < at[j]
                                   /\ menu = [i \in 1..m |-> drawn[at[i]]]
  <2>1. InOrderOf(drawn, menu)
    BY DEF TrimmedFrom
  <2> HIDE DEF m
  <2> QED BY <1>1, <2>1 DEF InOrderOf
<1>3. m >= 2
  BY <1>1, TrainingRowConstants
<1>4. P # {}
  <2>1. 1 \in 1..m /\ 2 \in 1..m /\ 1 < 2
    BY <1>1, <1>3
  <2>2. at[1] \in 1..n /\ at[2] \in 1..n /\ at[1] # at[2]
    BY <1>2, <2>1
  <2>3. menu[1] # menu[2]
    BY <1>2, <2>1, <2>2
  <2>4. 1 \in P \/ 2 \in P
    BY <1>1, <2>1, <2>3
  <2> QED BY <2>4
<1>5. k \in P
  <2>1. P \in SUBSET (1..m)
    BY <1>1
  <2> HIDE DEF P
  <2>2. Max(P) \in P
    BY <1>1, <1>4, <2>1, LastPlace
  <2> QED BY <2>2 DEF TrimmedAt, P
<1>6. k \in 1..m /\ menu[k] \notin expected
  BY <1>1, <1>5
<1>7. Trims(menu, expected) = new
  BY DEF Trims
<1> HIDE DEF k, R
<1>8. /\ new \in Seq(R) /\ Len(new) = m - 1
      /\ \A i \in 1..(m - 1) : new[i] = IF i < k THEN menu[i] ELSE menu[i + 1]
  <2>1. k \in 1..Len(menu)
    BY <1>6
  <2> HIDE DEF m
  <2>2. /\ RemoveAt(menu, k) \in Seq(R) /\ Len(RemoveAt(menu, k)) = Len(menu) - 1
        /\ \A i \in 1..(Len(menu) - 1) : RemoveAt(menu, k)[i] = IF i < k THEN menu[i] ELSE menu[i + 1]
    <3>1. menu \in Seq(R)
      BY <1>1
    <3> QED BY <2>1, <3>1, RemovedFrom
  <2> QED BY <2>2 DEF m
<1> HIDE DEF new
<1> DEFINE to == [i \in 1..(m - 1) |-> IF i < k THEN at[i] ELSE at[i + 1]]
<1>9. to \in [1..(m - 1) -> 1..n]
  <2>1. \A i \in 1..(m - 1) : i \in 1..m /\ i + 1 \in 1..m
    BY <1>1
  <2> QED BY <1>2, <2>1
<1>10. \A i, j \in 1..(m - 1) : i < j => to[i] < to[j]
  <2> TAKE i, j \in 1..(m - 1)
  <2> SUFFICES ASSUME i < j PROVE to[i] < to[j]
    OBVIOUS
  <2>1. i \in 1..m /\ j \in 1..m /\ i + 1 \in 1..m /\ j + 1 \in 1..m
    BY <1>1
  <2>2. at[i] < at[j] /\ at[i + 1] < at[j + 1] /\ at[i] < at[j + 1]
    BY <1>2, <2>1
  <2>3. k \in Nat
    BY <1>6
  <2> QED BY <2>2, <2>3
<1>11. \A i \in 1..(m - 1) : new[i] = drawn[to[i]]
  <2> TAKE i \in 1..(m - 1)
  <2>1. i \in 1..m /\ i + 1 \in 1..m
    BY <1>1
  <2> QED BY <1>2, <1>8, <2>1
<1>12. DOMAIN new = 1..(m - 1) /\ new = [i \in 1..(m - 1) |-> new[i]]
  BY <1>1, <1>8
<1>13. InOrderOf(drawn, new)
  <2> HIDE DEF to
  <2>1. new = [i \in DOMAIN new |-> drawn[to[i]]]
    BY <1>11, <1>12
  <2> QED BY <1>1, <1>9, <1>10, <1>12, <2>1 DEF InOrderOf
<1>14. \A f \in expected : \E i \in 1..(m - 1) : new[i] = f
  <2> TAKE f \in expected
  <2>1. PICK i \in 1..m : menu[i] = f
    BY DEF TrimmedFrom
  <2>2. i # k
    BY <1>6, <2>1
  <2>3. CASE i < k
    <3>1. i \in 1..(m - 1)
      BY <1>1, <1>6, <2>3
    <3> QED BY <1>8, <2>1, <2>3, <3>1
  <2>4. CASE i > k
    <3>1. i - 1 \in 1..(m - 1) /\ ~(i - 1 < k) /\ (i - 1) + 1 = i
      BY <1>1, <1>6, <2>4
    <3>2. new[i - 1] = menu[i]
      BY <1>8, <3>1
    <3> QED BY <2>1, <3>1, <3>2
  <2> QED BY <1>6, <2>2, <2>3, <2>4
<1> QED BY <1>1, <1>7, <1>8, <1>13, <1>14 DEF TrimmedFrom, R

\* Trimming keeps the order and the function, and ends where it must.
LEMMA TrimmedMenu ==
    ASSUME NEW n \in Nat, NEW drawn \in [1..n -> Functions], \A i, j \in 1..n : drawn[i] = drawn[j] => i = j,
           NEW expected, \A f, g \in expected : f = g,
           \A f \in expected : \E i \in 1..n : drawn[i] = f
    PROVE  /\ TrimmedFrom(n, drawn, expected, Trimmed(drawn, expected))
           /\ MenuLength(Trimmed(drawn, expected)) > MaxEncoder => Len(Trimmed(drawn, expected)) <= SmallestMenu
<1> DEFINE M == Trimming(drawn, expected)
           Over(menu) == MenuLength(menu) > MaxEncoder /\ Len(menu) > SmallestMenu
           Stage(k) == /\ TrimmedFrom(n, drawn, expected, M[k])
                       /\ Over(M[k]) => Len(M[k]) = n - k
           S == {k \in Nat : k <= n => Stage(k)}
<1>1. Len(drawn) = n
  OBVIOUS
<1>2. \A k \in 0..n : M[k] = IF k = 0 THEN drawn ELSE Trims(M[k - 1], expected)
  <2>1. M = [k \in 0..Len(drawn) |-> IF k = 0 THEN drawn ELSE Trims(M[k - 1], expected)]
    BY <1>1, TrimmingIsDefined
  <2> HIDE DEF M
  <2> QED BY <1>1, <2>1
<1> HIDE DEF M
<1>3. 0 \in S
  <2>1. M[0] = drawn
    <3>1. 0 \in 0..n
      OBVIOUS
    <3> QED BY <1>2, <3>1
  <2>2. drawn \in Seq({drawn[i] : i \in 1..n})
    <3>1. drawn \in [1..n -> {drawn[i] : i \in 1..n}]
      OBVIOUS
    <3> QED BY <3>1
  <2>3. InOrderOf(drawn, drawn)
    <3> DEFINE at == [i \in 1..n |-> i]
    <3>1. at \in [DOMAIN drawn -> DOMAIN drawn] /\ \A i, j \in DOMAIN drawn : i < j => at[i] < at[j]
      OBVIOUS
    <3>2. drawn = [i \in DOMAIN drawn |-> drawn[at[i]]]
      OBVIOUS
    <3> HIDE DEF at
    <3> QED BY <3>1, <3>2 DEF InOrderOf
  <2>4. Stage(0)
    BY <1>1, <2>1, <2>2, <2>3 DEF TrimmedFrom
  <2> HIDE DEF Stage
  <2> QED BY <2>4
<1>4. ASSUME NEW k \in Nat, k \in S PROVE k + 1 \in S
  <2> SUFFICES ASSUME k + 1 <= n PROVE Stage(k + 1)
    <3> HIDE DEF Stage
    <3> QED OBVIOUS
  <2>1. k + 1 \in 0..n /\ k + 1 # 0 /\ (k + 1) - 1 = k /\ k <= n
    OBVIOUS
  <2>2. Stage(k)
    <3> HIDE DEF Stage
    <3> QED BY <1>4, <2>1
  <2>3. M[k + 1] = Trims(M[k], expected)
    BY <1>2, <2>1
  <2>4. CASE Over(M[k])
    <3>1. /\ TrimmedFrom(n, drawn, expected, Trims(M[k], expected))
          /\ Len(Trims(M[k], expected)) = Len(M[k]) - 1
      <4>1. TrimmedFrom(n, drawn, expected, M[k]) /\ MenuLength(M[k]) > MaxEncoder /\ Len(M[k]) > SmallestMenu
        BY <2>2, <2>4
      <4> HIDE DEF S, Stage, Over
      <4> QED BY <4>1, TrimsKeeps
    <3> QED BY <2>2, <2>3, <2>4, <3>1
  <2>5. CASE ~Over(M[k])
    <3>1. M[k + 1] = M[k]
      BY <2>3, <2>5 DEF Trims
    <3> QED BY <2>2, <2>5, <3>1
  <2> QED BY <2>4, <2>5
<1>5. Stage(n)
  <2>1. n \in S
    <3> HIDE DEF S
    <3> QED BY <1>3, <1>4, NatInductionInSet
  <2> HIDE DEF Stage
  <2> QED BY <2>1
<1>6. Trimmed(drawn, expected) = M[n]
  BY <1>1 DEF Trimmed, M
<1>7. ~Over(M[n])
  <2> SUFFICES ASSUME Over(M[n]) PROVE FALSE
    OBVIOUS
  <2>1. Len(M[n]) = n - n
    BY <1>5
  <2>2. Len(M[n]) > SmallestMenu /\ SmallestMenu \in Nat
    BY TrainingRowConstants
  <2> QED BY <2>1, <2>2
<1>8. Len(M[n]) \in Nat /\ SmallestMenu \in Nat
  BY <1>5, TrainingRowConstants DEF TrimmedFrom
<1> QED BY <1>5, <1>6, <1>7, <1>8

-----------------------------------------------------------------------------
(* TrainingRows: the rows are clean.                                       *)

DataTypes ==
    /\ dump \in Dumps
    /\ \A q \in queries : \E s \in Situations : SameQuery(q, s)
    /\ dataPhase \in {"asking", "building", "written"}
    /\ \E S : dataRows \in Seq(S)

\* What was kept passed the gate, on the index of then.
QueriesAreGated ==
    \A q \in queries :
        /\ q.query \notin EvalQueries
        /\ \A f \in q.expected : /\ q.args \subseteq q.index[f].params
                                 /\ q.index[f].required \subseteq q.args

RowsComeLater == dataPhase = "asking" => dataRows = <<>>

SeonRowIsClean(row) ==
    /\ row.query \notin EvalQueries
    /\ \A i \in DOMAIN row.calls :
        /\ row.calls[i].name \notin heldOut
        /\ row.calls[i].args \subseteq row.index[row.calls[i].name].params
        /\ row.index[row.calls[i].name].required \subseteq row.calls[i].args
        /\ \E k \in DOMAIN row.tools : row.pos = {k} /\ row.tools[k] = row.calls[i].name
    /\ MenuLength(row.tools) > MaxEncoder => Len(row.tools) <= SmallestMenu
    /\ InOrderOf(row.drawn, row.tools)

HomeRowIsClean(row) ==
    /\ QueryLength + LengthOf(row.tools) > MaxEncoder => Len(row.tools) = Len(row.drawn)
    /\ ToSet(row.drawn) \subseteq ToSet(row.tools)

RowIsClean(row) ==
    /\ row.src = "seon" => SeonRowIsClean(row)
    /\ row.src = "home" => HomeRowIsClean(row)
    /\ \A i \in DOMAIN row.calls : \E j \in DOMAIN row.tools : NameOf(row, j) = row.calls[i].name

RowsAreClean == \A r \in DOMAIN dataRows : RowIsClean(dataRows[r])

FilesPartTheRows ==
    dataPhase = "written" => \A r \in DOMAIN dataRows : r \in split.train <=> r \notin split.val

DataInv == DataTypes /\ QueriesAreGated /\ RowsComeLater /\ RowsAreClean /\ FilesPartTheRows

LEMMA CleanStays ==
    ASSUME NEW row, RowIsClean(row), UNCHANGED <<dump, heldOut>>
    PROVE  RowIsClean(row)'
<1>1. MenuLength(row.tools)' = MenuLength(row.tools)
  BY DEF MenuLength, Entry
<1>2. SeonRowIsClean(row) => SeonRowIsClean(row)'
  BY <1>1 DEF SeonRowIsClean
<1> QED BY <1>2 DEF RowIsClean, HomeRowIsClean

\* One more clean row leaves a list of clean rows.
LEMMA OneMoreRow ==
    ASSUME DataInv, dataPhase = "building", NEW row, RowIsClean(row), dataRows' = Append(dataRows, row),
           UNCHANGED <<dataPhase, dump, queries, heldOut, split>>
    PROVE  DataInv'
<1>1. PICK S : dataRows \in Seq(S)
  BY DEF DataInv, DataTypes
<1> DEFINE T == S \cup {row}
<1>2. dataRows \in Seq(T) /\ row \in T
  <2>1. dataRows \in [1..Len(dataRows) -> T] /\ Len(dataRows) \in Nat
    BY <1>1
  <2> QED BY <2>1
<1>3. /\ dataRows' \in Seq(T) /\ DOMAIN dataRows' = 1..(Len(dataRows) + 1)
      /\ \A r \in 1..Len(dataRows) : dataRows'[r] = dataRows[r]
      /\ dataRows'[Len(dataRows) + 1] = row
      /\ DOMAIN dataRows = 1..Len(dataRows) /\ Len(dataRows) \in Nat
  <2> HIDE DEF T
  <2> QED BY <1>2
<1>4. DataTypes'
  BY <1>3 DEF DataInv, DataTypes
<1>5. QueriesAreGated'
  BY DEF DataInv, QueriesAreGated
<1>6. \A r \in DOMAIN dataRows' : RowIsClean(dataRows'[r])
  BY <1>3 DEF DataInv, RowsAreClean
<1>7. \A x : RowIsClean(x) => RowIsClean(x)'
  BY CleanStays
<1>8. RowsAreClean'
  BY <1>6, <1>7 DEF RowsAreClean
<1> QED BY <1>4, <1>5, <1>8 DEF DataInv, RowsComeLater, FilesPartTheRows

LEMMA BuildsSeonRowKeeps ==
    ASSUME DataInv, BuildsSeonRow
    PROVE  DataInv'
<1>0. PICK q \in queries, n \in MenuSizes :
        /\ Admits(q)
        /\ \E drawn \in SeonMenus(q.expected, n) :
            LET menu == Trimmed(drawn, q.expected) IN
            dataRows' = Append(dataRows,
                [src |-> "seon", query |-> q.query, tools |-> menu, drawn |-> drawn,
                 calls |-> [i \in 1..Cardinality(q.expected) |->
                                [name |-> CHOOSE f \in q.expected : TRUE, args |-> q.args]],
                 pos |-> {i \in DOMAIN menu : menu[i] \in q.expected}, index |-> q.index])
  BY DEF BuildsSeonRow
<1>1. PICK drawn \in SeonMenus(q.expected, n) :
           LET menu == Trimmed(drawn, q.expected) IN
            dataRows' = Append(dataRows,
                [src |-> "seon", query |-> q.query, tools |-> menu, drawn |-> drawn,
                 calls |-> [i \in 1..Cardinality(q.expected) |->
                                [name |-> CHOOSE f \in q.expected : TRUE, args |-> q.args]],
                 pos |-> {i \in DOMAIN menu : menu[i] \in q.expected}, index |-> q.index])
  BY <1>0
<1> DEFINE E == q.expected
           menu == Trimmed(drawn, E)
           calls == [i \in 1..Cardinality(E) |-> [name |-> CHOOSE f \in E : TRUE, args |-> q.args]]
           row == [src |-> "seon", query |-> q.query, tools |-> menu, drawn |-> drawn,
                   calls |-> calls, pos |-> {i \in DOMAIN menu : menu[i] \in E}, index |-> q.index]
<1>2. n \in Nat /\ \A f, g \in E : f = g
  <2>1. PICK s \in Situations : SameQuery(q, s)
    BY DEF DataInv, DataTypes
  <2> QED BY <2>1, TrainingRowConstants DEF SameQuery
<1>3. /\ drawn \in [1..n -> Functions] /\ \A i, j \in 1..n : drawn[i] = drawn[j] => i = j
      /\ \A f \in E : \E i \in 1..n : drawn[i] = f
  <2>1. drawn \in Lists(DOMAIN dump, n) /\ \A f \in E : f \in ToSet(drawn)
    BY DEF SeonMenus
  <2>2. DOMAIN dump \subseteq Functions
    BY TrainingRowConstants DEF DataInv, DataTypes
  <2> QED BY <2>1, <2>2 DEF Lists, ToSet
<1>4. /\ TrimmedFrom(n, drawn, E, menu)
      /\ MenuLength(menu) > MaxEncoder => Len(menu) <= SmallestMenu
  <2> HIDE DEF E
  <2> QED BY <1>2, <1>3, TrimmedMenu
<1>5. /\ q.query \notin EvalQueries /\ E \cap heldOut = {}
      /\ \A f \in E : q.args \subseteq q.index[f].params /\ q.index[f].required \subseteq q.args
  BY <1>0 DEF Admits, DataInv, QueriesAreGated
<1>6. ASSUME NEW i \in DOMAIN calls
      PROVE  calls[i].name \in E /\ calls[i].args = q.args
  <2>1. E # {}
    BY FS_EmptySet
  <2> QED BY <2>1
<1> HIDE DEF menu, calls, E
<1>7. ASSUME NEW i \in DOMAIN calls
      PROVE  \E k \in DOMAIN menu : row.pos = {k} /\ menu[k] = calls[i].name
  <2>1. PICK k \in 1..Len(menu) : menu[k] = calls[i].name
    BY <1>4, <1>6, <1>7 DEF TrimmedFrom
  <2>2. DOMAIN menu = 1..Len(menu) /\ DOMAIN drawn = 1..n
    BY <1>3, <1>4 DEF TrimmedFrom
  <2>3. PICK at \in [DOMAIN menu -> DOMAIN drawn] : /\ \A a, b \in DOMAIN menu : a < b => at[a] < at[b]
                                                   /\ menu = [a \in DOMAIN menu |-> drawn[at[a]]]
    BY <1>4 DEF TrimmedFrom, InOrderOf
  <2>4. ASSUME NEW l \in DOMAIN menu, menu[l] \in E PROVE l = k
    <3>1. menu[l] = menu[k] /\ k \in DOMAIN menu
      BY <1>2, <1>6, <1>7, <2>1, <2>2, <2>4
    <3>2. at[l] = at[k]
      BY <1>3, <2>2, <2>3, <3>1
    <3>3. l \in Nat /\ k \in Nat /\ at[l] \in Nat /\ at[k] \in Nat
      BY <2>2, <2>3, <3>1
    <3> QED BY <2>3, <3>1, <3>2, <3>3
  <2>5. {l \in DOMAIN menu : menu[l] \in E} = {k}
    BY <1>6, <1>7, <2>1, <2>2, <2>4
  <2> QED BY <2>1, <2>2, <2>5
<1>8. SeonRowIsClean(row)
  <2>1. /\ row.query = q.query /\ row.calls = calls /\ row.tools = menu /\ row.drawn = drawn
        /\ row.index = q.index
    OBVIOUS
  <2>2. InOrderOf(drawn, menu)
    BY <1>4 DEF TrimmedFrom
  <2>3. ASSUME NEW i \in DOMAIN calls
        PROVE  /\ calls[i].name \notin heldOut
               /\ calls[i].args \subseteq q.index[calls[i].name].params
               /\ q.index[calls[i].name].required \subseteq calls[i].args
    BY <1>5, <1>6, <2>3
  <2> HIDE DEF row
  <2> QED BY <1>4, <1>5, <1>7, <2>1, <2>2, <2>3 DEF SeonRowIsClean
<1>9. RowIsClean(row)
  <2>1. row.src = "seon" /\ row.calls = calls /\ row.tools = menu /\ \A j : NameOf(row, j) = menu[j]
    BY DEF NameOf
  <2> HIDE DEF row
  <2> QED BY <1>7, <1>8, <2>1 DEF RowIsClean
<1>10. dataRows' = Append(dataRows, row)
  BY <1>1 DEF row, menu, calls, E
<1> HIDE DEF row
<1> QED BY <1>9, <1>10, OneMoreRow DEF BuildsSeonRow

LEMMA BuildsHomeRowKeeps ==
    ASSUME DataInv, BuildsHomeRow
    PROVE  DataInv'
<1>1. PICK data \in Published, order \in Lists(Bank, Cardinality(Bank)),
           target \in {MaxEncoder, MaxEncoder - 2} :
        /\ Offers(data)
        /\ \E shuffled \in Shuffles(Enlarged(data.tools, order, target)) :
            dataRows' = Append(dataRows,
                [src |-> "home", query |-> data.query, tools |-> shuffled, drawn |-> data.tools,
                 calls |-> data.calls, pos |-> {}])
  BY DEF BuildsHomeRow
<1>0. PICK shuffled \in Shuffles(Enlarged(data.tools, order, target)) :
           dataRows' = Append(dataRows,
                [src |-> "home", query |-> data.query, tools |-> shuffled, drawn |-> data.tools,
                 calls |-> data.calls, pos |-> {}])
  BY <1>1
<1> DEFINE own == data.tools
           menu == Enlarged(own, order, target)
           row == [src |-> "home", query |-> data.query, tools |-> shuffled, drawn |-> own,
                   calls |-> data.calls, pos |-> {}]
<1>2. own \in Seq(OfferedTools) /\ Cardinality(Bank) \in Nat /\ order \in [1..Cardinality(Bank) -> Bank]
  BY TrainingRowConstants, FS_CardinalityType DEF Lists
<1>3. /\ menu \in Seq(OfferedTools)
      /\ Len(menu) >= Len(own) /\ \A i \in 1..Len(own) : menu[i] = own[i]
      /\ QueryLength + LengthOf(menu) > MaxEncoder => Len(menu) = Len(own)
  <2> HIDE DEF own
  <2> QED BY <1>2, EnlargedTools
<1>4. shuffled \in Shuffles(menu)
  OBVIOUS
<1> HIDE DEF menu
<1>5. /\ Len(shuffled) = Len(menu) /\ ToSet(shuffled) = ToSet(menu)
      /\ shuffled \in Seq(OfferedTools) /\ LengthOf(shuffled) = LengthOf(menu)
  BY <1>3, <1>4, ShuffledTools
<1>6. ToSet(own) \subseteq ToSet(menu)
  <2>1. DOMAIN own = 1..Len(own) /\ DOMAIN menu = 1..Len(menu) /\ 1..Len(own) \subseteq 1..Len(menu)
    BY <1>2, <1>3
  <2> QED BY <1>3, <2>1 DEF ToSet
<1>7. \A i \in DOMAIN data.calls : \E j \in DOMAIN shuffled : shuffled[j].name = data.calls[i].name
  <2> TAKE i \in DOMAIN data.calls
  <2>1. PICK j \in DOMAIN own : own[j].name = data.calls[i].name
    BY <1>1 DEF Offers
  <2>2. own[j] \in ToSet(shuffled)
    BY <1>5, <1>6 DEF ToSet
  <2>3. PICK l \in DOMAIN shuffled : shuffled[l] = own[j]
    BY <2>2 DEF ToSet
  <2> QED BY <2>1, <2>3
<1>8. /\ row.src = "home" /\ row.tools = shuffled /\ row.drawn = own /\ row.calls = data.calls
      /\ \A j : NameOf(row, j) = shuffled[j].name
  BY DEF NameOf
<1> HIDE DEF row
<1>9. RowIsClean(row)
  BY <1>3, <1>5, <1>6, <1>7, <1>8 DEF RowIsClean, HomeRowIsClean
<1>10. dataRows' = Append(dataRows, row)
  BY <1>0 DEF row
<1> QED BY <1>9, <1>10, OneMoreRow DEF BuildsHomeRow

LEMMA DataInvStarts == DataInit => DataInv
BY DEF DataInit, DataRests, DataInv, DataTypes, QueriesAreGated, RowsComeLater, RowsAreClean, FilesPartTheRows

LEMMA DataInvNext ==
    ASSUME DataInv, [DataNext]_dataVars
    PROVE  DataInv'
<1>1. CASE UNCHANGED dataVars
  <2>1. UNCHANGED <<dataPhase, dump, queries, heldOut, dataRows, split>>
    BY <1>1 DEF dataVars
  <2>2. RowsAreClean'
    BY <2>1, CleanStays DEF DataInv, RowsAreClean
  <2> QED BY <2>1, <2>2 DEF DataInv, DataTypes, QueriesAreGated, RowsComeLater, FilesPartTheRows
<1>2. CASE AsksQueries
  <2>1. dataRows = <<>> /\ dataPhase = "asking" /\ UNCHANGED <<dataPhase, dump, heldOut, dataRows, split>>
    BY <1>2 DEF AsksQueries, DataInv, RowsComeLater
  <2>2. PICK s \in Situations :
            /\ Gate(s)
            /\ queries' = queries \cup {[query |-> s.query, expected |-> s.expected, args |-> s.args,
                                         index |-> dump]}
    BY <1>2 DEF AsksQueries
  <2>3. QueriesAreGated'
    BY <2>2 DEF Gate, DataInv, QueriesAreGated
  <2>4. \A q \in queries' : \E x \in Situations : SameQuery(q, x)
    BY <2>2 DEF SameQuery, DataInv, DataTypes
  <2> QED BY <2>1, <2>3, <2>4 DEF DataInv, DataTypes, RowsComeLater, RowsAreClean, FilesPartTheRows
<1>3. CASE Redumps
  BY <1>3 DEF Redumps, DataInv, DataTypes, QueriesAreGated, RowsComeLater, RowsAreClean, FilesPartTheRows
<1>4. CASE HoldsOut
  BY <1>4 DEF HoldsOut, DataInv, DataTypes, QueriesAreGated, RowsComeLater, RowsAreClean, FilesPartTheRows
<1>5. CASE WritesData
  <2>1. dataPhase' = "written" /\ UNCHANGED <<dump, queries, heldOut, dataRows>>
    BY <1>5 DEF WritesData
  <2>2. RowsAreClean'
    BY <2>1, CleanStays DEF DataInv, RowsAreClean
  <2>3. FilesPartTheRows'
    BY <1>5 DEF WritesData, FilesPartTheRows
  <2> QED BY <2>1, <2>2, <2>3 DEF DataInv, DataTypes, QueriesAreGated, RowsComeLater
<1> QED BY <1>1, <1>2, <1>3, <1>4, <1>5, BuildsSeonRowKeeps, BuildsHomeRowKeeps DEF DataNext

LEMMA DataInvIsClean == DataInv => TrainingRowsAreClean
<1> SUFFICES ASSUME DataInv PROVE TrainingRowsAreClean
  OBVIOUS
<1> SUFFICES ASSUME NEW r \in DOMAIN dataRows
             PROVE  /\ RowIsClean(dataRows[r])
                    /\ dataPhase = "written" => (r \in split.train <=> r \notin split.val)
  BY DEF TrainingRowsAreClean, RowIsClean, SeonRowIsClean, HomeRowIsClean
<1> QED BY DEF DataInv, RowsAreClean, FilesPartTheRows

-----------------------------------------------------------------------------
(* NextFormRows: the tools of a row.                                       *)

\* The first of some places of a list.
LEMMA FirstPlace ==
    ASSUME NEW n \in Nat, NEW S \in SUBSET (1..n), S # {}
    PROVE  Min(S) \in S /\ \A k \in S : Min(S) <= k
<1>1. S \subseteq Nat /\ S # {}
  OBVIOUS
<1>2. PICK m \in S : \A k \in S : <<k, m>> \notin OpToRel(<, Nat)
  BY <1>1, WFMin, NatLessThanWellFounded, Zenon
<1>3. \A k \in S : ~(k < m)
  <2> TAKE k \in S
  <2>1. k \in Nat /\ m \in Nat
    BY <1>1
  <2> QED BY <1>2, <2>1, Zenon DEF OpToRel
<1>5. \A y \in S : m <= y
  BY <1>1, <1>3
<1>6. Min(S) \in S /\ \A y \in S : Min(S) <= y
  BY <1>5, Zenon DEF Min
<1> QED BY <1>6

LEMMA DeclaringIsDefined ==
    ASSUME NEW keys, Len(keys) \in Nat
    PROVE  Declaring(keys) =
             [k \in 0..Len(keys) |-> IF k = 0 THEN <<>> ELSE AddParam(Declaring(keys)[k - 1], keys[k])]
<1> DEFINE Added(f, n) == f = [k \in 0..n |-> IF k = 0 THEN <<>> ELSE AddParam(f[k - 1], keys[k])]
           S == {n \in Nat : \E f : Added(f, n)}
<1>1. 0 \in S
  <2>1. Added([k \in 0..0 |-> <<>>], 0)
    OBVIOUS
  <2> QED BY <2>1
<1>2. ASSUME NEW n \in Nat, n \in S PROVE n + 1 \in S
  <2>1. PICK f : Added(f, n)
    BY <1>2
  <2> DEFINE g == [k \in 0..(n + 1) |-> IF k = n + 1 THEN AddParam(f[n], keys[n + 1]) ELSE f[k]]
  <2>2. ASSUME NEW k \in 0..(n + 1)
        PROVE  g[k] = IF k = 0 THEN <<>> ELSE AddParam(g[k - 1], keys[k])
    <3>1. CASE k = n + 1
      <4>1. k - 1 = n /\ n \in 0..(n + 1) /\ n # n + 1 /\ k # 0
        BY <3>1
      <4>2. g[k - 1] = f[n]
        BY <4>1
      <4> QED BY <3>1, <4>1, <4>2
    <3>2. CASE k = 0
      BY <2>1, <3>2
    <3>3. CASE k \in 1..n
      <4>1. g[k] = f[k] /\ g[k - 1] = f[k - 1]
        BY <3>3
      <4>2. k \in 0..n /\ k # 0
        BY <3>3
      <4>3. f[k] = AddParam(f[k - 1], keys[k])
        BY <2>1, <4>2, Zenon
      <4> QED BY <3>3, <4>1, <4>3
    <3> QED BY <3>1, <3>2, <3>3
  <2>3. g = [k \in 0..(n + 1) |-> IF k = 0 THEN <<>> ELSE AddParam(g[k - 1], keys[k])]
    <3> HIDE DEF g
    <3>1. g = [k \in 0..(n + 1) |-> g[k]]
      BY DEF g
    <3> QED BY <2>2, <3>1
  <2>4. Added(g, n + 1)
    BY <2>3
  <2> HIDE DEF g, Added
  <2> QED BY <2>4
<1>3. \E f : Added(f, Len(keys))
  <2>1. Len(keys) \in S
    <3> HIDE DEF S
    <3> QED BY <1>1, <1>2, NatInductionInSet
  <2> QED BY <2>1
<1>4. Added(CHOOSE f : Added(f, Len(keys)), Len(keys))
  <2> HIDE DEF Added
  <2> QED BY <1>3
<1>5. Declaring(keys) = CHOOSE f : Added(f, Len(keys))
  BY DEF Declaring
<1> QED BY <1>4, <1>5

LEMMA ToppingIsDefined ==
    ASSUME NEW tools, NEW order, Len(order) \in Nat
    PROVE  Topping(tools, order) =
             [k \in 0..Len(order) |-> IF k = 0 THEN tools ELSE Tops(Topping(tools, order)[k - 1], order[k])]
<1> DEFINE Topped(f, n) == f = [k \in 0..n |-> IF k = 0 THEN tools ELSE Tops(f[k - 1], order[k])]
           S == {n \in Nat : \E f : Topped(f, n)}
<1>1. 0 \in S
  <2>1. Topped([k \in 0..0 |-> tools], 0)
    OBVIOUS
  <2> QED BY <2>1
<1>2. ASSUME NEW n \in Nat, n \in S PROVE n + 1 \in S
  <2>1. PICK f : Topped(f, n)
    BY <1>2
  <2> DEFINE g == [k \in 0..(n + 1) |-> IF k = n + 1 THEN Tops(f[n], order[n + 1]) ELSE f[k]]
  <2>2. ASSUME NEW k \in 0..(n + 1)
        PROVE  g[k] = IF k = 0 THEN tools ELSE Tops(g[k - 1], order[k])
    <3>1. CASE k = n + 1
      <4>1. k - 1 = n /\ n \in 0..(n + 1) /\ n # n + 1 /\ k # 0
        BY <3>1
      <4>2. g[k - 1] = f[n]
        BY <4>1
      <4> QED BY <3>1, <4>1, <4>2
    <3>2. CASE k = 0
      BY <2>1, <3>2
    <3>3. CASE k \in 1..n
      <4>1. g[k] = f[k] /\ g[k - 1] = f[k - 1]
        BY <3>3
      <4>2. k \in 0..n /\ k # 0
        BY <3>3
      <4>3. f[k] = Tops(f[k - 1], order[k])
        BY <2>1, <4>2, Zenon
      <4> QED BY <3>3, <4>1, <4>3
    <3> QED BY <3>1, <3>2, <3>3
  <2>3. g = [k \in 0..(n + 1) |-> IF k = 0 THEN tools ELSE Tops(g[k - 1], order[k])]
    <3> HIDE DEF g
    <3>1. g = [k \in 0..(n + 1) |-> g[k]]
      BY DEF g
    <3> QED BY <2>2, <3>1
  <2>4. Topped(g, n + 1)
    BY <2>3
  <2> HIDE DEF g, Topped
  <2> QED BY <2>4
<1>3. \E f : Topped(f, Len(order))
  <2>1. Len(order) \in S
    <3> HIDE DEF S
    <3> QED BY <1>1, <1>2, NatInductionInSet
  <2> QED BY <2>1
<1>4. Topped(CHOOSE f : Topped(f, Len(order)), Len(order))
  <2> HIDE DEF Topped
  <2> QED BY <1>3
<1>5. Topping(tools, order) = CHOOSE f : Topped(f, Len(order))
  BY DEF Topping
<1> QED BY <1>4, <1>5

-----------------------------------------------------------------------------
\* The parameters that some keys can give.
ParamsFrom(keys) ==
    [name : {Short(k) : k \in ToSet(keys)} \cup {Full(k) : k \in ToSet(keys)}, key : ToSet(keys)]

LEMMA AddedParams ==
    ASSUME NEW keys, NEW params \in Seq(ParamsFrom(keys)), NEW key \in ToSet(keys)
    PROVE  AddParam(params, key) \in Seq(ParamsFrom(keys))
<1> DEFINE S == ParamsFrom(keys)
           clash == Named(params, Short(key))
           first == Max(clash)
           prev == params[first].key
<1>1. \A k \in ToSet(keys) : Param(Short(k), k) \in S /\ Param(Full(k), k) \in S
  BY DEF ParamsFrom, Param
<1> HIDE DEF S
<1>2. params \in Seq(S) /\ Len(params) \in Nat /\ DOMAIN params = 1..Len(params)
      /\ \A i \in 1..Len(params) : params[i] \in S
  BY DEF S
<1>3. ASSUME NEW list \in Seq(S), NEW p \in S PROVE Put(list, p) \in Seq(S)
  <2>1. CASE Named(list, p.name) = {}
    <3>1. Put(list, p) = Append(list, p)
      BY <2>1 DEF Put
    <3> QED BY <3>1
  <2>2. CASE Named(list, p.name) # {}
    <3>1. Put(list, p) = [i \in DOMAIN list |-> IF list[i].name = p.name THEN p ELSE list[i]]
      BY <2>2 DEF Put
    <3>2. DOMAIN list = 1..Len(list) /\ Len(list) \in Nat /\ \A i \in 1..Len(list) : list[i] \in S
      OBVIOUS
    <3>3. Put(list, p) \in [1..Len(list) -> S]
      BY <3>1, <3>2
    <3> QED BY <3>2, <3>3
  <2> QED BY <2>1, <2>2
<1>4. CASE clash = {}
  <2>1. AddParam(params, key) = Append(params, Param(Short(key), key))
    BY <1>4 DEF AddParam
  <2>2. AddParam(params, key) \in Seq(S)
    BY <1>1, <1>2, <2>1
  <2> QED BY <2>2 DEF S
<1>5. CASE clash # {}
  <2>1. clash \in SUBSET (1..Len(params))
    BY <1>2 DEF Named
  <2>2. first \in 1..Len(params)
    <3> HIDE DEF clash
    <3> QED BY <1>2, <1>5, <2>1, LastPlace
  <2>3. prev \in ToSet(keys)
    <3>1. params[first] \in S
      <4> HIDE DEF first
      <4> QED BY <1>2, <2>2
    <3> HIDE DEF first
    <3> QED BY <3>1 DEF S, ParamsFrom
  <2>4. RemoveAt(params, first) \in Seq(S)
    <3> HIDE DEF first
    <3> QED BY <1>2, <2>2, RemovedFrom
  <2>5. AddParam(params, key) =
            Put(Put(RemoveAt(params, first), Param(Full(prev), prev)), Param(Full(key), key))
    BY <1>5 DEF AddParam
  <2> HIDE DEF prev, first
  <2>6. Param(Full(prev), prev) \in S /\ Param(Full(key), key) \in S
    BY <1>1, <2>3
  <2>7. Put(RemoveAt(params, first), Param(Full(prev), prev)) \in Seq(S)
    BY <1>3, <2>4, <2>6
  <2>8. AddParam(params, key) \in Seq(S)
    BY <1>3, <2>5, <2>6, <2>7
  <2> QED BY <2>8 DEF S
<1> QED BY <1>4, <1>5

\* What a spec declares becomes a list of parameters for its keys.
LEMMA ParamsAreAList ==
    ASSUME NEW said, IsList(DeclaredKeys(said))
    PROVE  ParamsOf(said) \in Seq(ParamsFrom(DeclaredKeys(said)))
<1> DEFINE keys == DeclaredKeys(said)
           n == Len(keys)
           D == Declaring(keys)
           P == Seq(ParamsFrom(keys))
           S == {k \in Nat : k <= n => D[k] \in P}
<1>1. n \in Nat /\ \A k \in 1..n : keys[k] \in ToSet(keys)
  <2> HIDE DEF keys
  <2>1. keys \in Seq(ToSet(keys))
    BY DEF IsList, keys
  <2> QED BY <2>1
<1>2. \A k \in 0..n : D[k] = IF k = 0 THEN <<>> ELSE AddParam(D[k - 1], keys[k])
  <2> HIDE DEF keys
  <2>1. D = [k \in 0..n |-> IF k = 0 THEN <<>> ELSE AddParam(D[k - 1], keys[k])]
    BY <1>1, DeclaringIsDefined
  <2> HIDE DEF D, n
  <2> QED BY <2>1
<1> HIDE DEF D, keys, n, P
<1>3. 0 \in S
  <2>1. 0 \in 0..n
    BY <1>1
  <2>2. D[0] = <<>>
    BY <1>2, <2>1
  <2>3. <<>> \in P
    BY DEF P
  <2> QED BY <2>2, <2>3
<1>4. ASSUME NEW k \in Nat, k \in S PROVE k + 1 \in S
  <2> SUFFICES ASSUME k + 1 <= n PROVE D[k + 1] \in P
    OBVIOUS
  <2>1. k + 1 \in 0..n /\ k + 1 # 0 /\ (k + 1) - 1 = k /\ k + 1 \in 1..n /\ k <= n
    BY <1>1
  <2>2. D[k] \in P
    BY <1>4, <2>1
  <2>3. D[k + 1] = AddParam(D[k], keys[k + 1])
    BY <1>2, <2>1
  <2>4. keys[k + 1] \in ToSet(keys)
    BY <1>1, <2>1
  <2> QED BY <2>2, <2>3, <2>4, AddedParams DEF P
<1>5. D[n] \in P
  <2>1. n \in S
    <3> HIDE DEF S
    <3> QED BY <1>1, <1>3, <1>4, NatInductionInSet
  <2> QED BY <1>1, <2>1
<1> QED BY <1>5 DEF P, D, n, keys, ParamsOf

-----------------------------------------------------------------------------
\* The tools there are: of the index, and of the cards that it lacks.
RowTools ==
    {FnToTool(fn) : fn \in ToSet(Index)}
        \cup {FnToTool([sym |-> Symbol("", "", card.name), spec |-> card.spec]) : card \in Cards}

LEMMA ToolsHaveParams ==
    ASSUME NEW chosen \in RowTools
    PROVE  /\ chosen.name = SnakeSymbol(chosen.sym)
           /\ Len(chosen.params) \in Nat /\ DOMAIN chosen.params = 1..Len(chosen.params)
           /\ Weight(chosen) \in Nat
<1>1. ASSUME NEW sym, NEW said, IsList(DeclaredKeys(said)), chosen = [name |-> SnakeSymbol(sym), params |-> ParamsOf(said), sym |-> sym]
      PROVE  /\ chosen.name = SnakeSymbol(chosen.sym)
             /\ Len(chosen.params) \in Nat /\ DOMAIN chosen.params = 1..Len(chosen.params)
  <2>1. ParamsOf(said) \in Seq(ParamsFrom(DeclaredKeys(said)))
    BY <1>1, ParamsAreAList
  <2>2. chosen.name = SnakeSymbol(sym) /\ chosen.params = ParamsOf(said) /\ chosen.sym = sym
    BY <1>1
  <2> QED BY <2>1, <2>2
<1>2. CASE \E fn \in ToSet(Index) : chosen = FnToTool(fn)
  <2>1. PICK fn \in ToSet(Index) : chosen = FnToTool(fn)
    BY <1>2
  <2>2. IsList(DeclaredKeys(fn.spec))
    BY NextFormConstants
  <2>3. chosen = [name |-> SnakeSymbol(fn.sym), params |-> ParamsOf(fn.spec), sym |-> fn.sym]
    BY <2>1 DEF FnToTool
  <2> QED BY <1>1, <2>2, <2>3 DEF Weight
<1>3. CASE \E card \in Cards : chosen = FnToTool([sym |-> Symbol("", "", card.name), spec |-> card.spec])
  <2>1. PICK card \in Cards : chosen = FnToTool([sym |-> Symbol("", "", card.name), spec |-> card.spec])
    BY <1>3
  <2>2. IsList(DeclaredKeys(card.spec))
    BY NextFormConstants
  <2> DEFINE sym == Symbol("", "", card.name)
  <2>3. chosen = [name |-> SnakeSymbol(sym), params |-> ParamsOf(card.spec), sym |-> sym]
    BY <2>1 DEF FnToTool
  <2> HIDE DEF sym
  <2> QED BY <1>1, <2>2, <2>3 DEF Weight
<1> QED BY <1>2, <1>3 DEF RowTools

LEMMA CardsAreTools == \A card \in Cards : CardTool(card) \in RowTools
<1> TAKE card \in Cards
<1>1. CASE MatchIndexRow(card) # {}
  <2> DEFINE i == CHOOSE i \in MatchIndexRow(card) : TRUE
  <2>1. i \in DOMAIN Index
    BY <1>1 DEF MatchIndexRow
  <2>2. CardTool(card) = FnToTool(Index[i])
    BY <1>1 DEF CardTool
  <2> HIDE DEF i
  <2> QED BY <2>1, <2>2 DEF RowTools, ToSet
<1>2. CASE ~(MatchIndexRow(card) # {})
  BY <1>2 DEF CardTool, RowTools
<1> QED BY <1>1, <1>2

LEMMA OrdersAreTools ==
    ASSUME NEW order \in IndexTools
    PROVE  \E n \in Nat : order \in [1..n -> RowTools]
<1> DEFINE last == {i \in DOMAIN Index : \A j \in DOMAIN Index :
                        SnakeSymbol(Index[i].sym) = SnakeSymbol(Index[j].sym) => j <= i}
           n == Cardinality(last)
<1>1. Index \in Seq(ToSet(Index))
  BY NextFormConstants DEF IsList
<1>2. last \subseteq 1..Len(Index) /\ Len(Index) \in Nat /\ \A i \in 1..Len(Index) : Index[i] \in ToSet(Index)
  BY <1>1
<1>3. n \in Nat
  <2>1. IsFiniteSet(1..Len(Index))
    BY <1>2, FS_Interval
  <2> HIDE DEF last
  <2> QED BY <1>2, <2>1, FS_Subset, FS_CardinalityType
<1>4. PICK at \in Bijection(1..n, last) : order = [k \in 1..n |-> FnToTool(Index[at[k]])]
  BY DEF IndexTools
<1>5. at \in [1..n -> last]
  <2> HIDE DEF last, n
  <2> QED BY DEF Bijection, Injection, Surjection
<1>6. order \in [1..n -> RowTools]
  <2> HIDE DEF last, n
  <2> QED BY <1>2, <1>4, <1>5 DEF RowTools
<1> QED BY <1>3, <1>6

-----------------------------------------------------------------------------
(* NextFormRows: the tools of the slot, and the names in them.             *)

LEMMA FilledWithOneMore ==
    ASSUME NEW tools \in Seq(RowTools), NEW t \in RowTools
    PROVE  /\ Filled(tools) \in Nat
           /\ Filled(Append(tools, t)) = Filled(tools) + Weight(t)
<1> DEFINE n == Len(tools)
           more == Append(tools, t)
           a == [i \in DOMAIN more |-> Weight(more[i])]
           b == [i \in DOMAIN tools |-> Weight(tools[i])]
<1>1. n \in Nat /\ DOMAIN tools = 1..n /\ DOMAIN more = 1..(n + 1)
  OBVIOUS
<1>2. (\A i \in 1..n : more[i] = tools[i] /\ tools[i] \in RowTools) /\ more[n + 1] = t
  OBVIOUS
<1>3. a \in [1..(n + 1) -> Nat] /\ b \in [1..n -> Nat]
  <2>1. \A i \in 1..(n + 1) : Weight(more[i]) \in Nat
    <3> TAKE i \in 1..(n + 1)
    <3>1. more[i] \in RowTools
      <4> HIDE DEF more
      <4>1. i \in 1..n \/ i = n + 1
        BY <1>1
      <4> QED BY <1>2, <4>1
    <3> QED BY <3>1, ToolsHaveParams, Zenon
  <2>2. \A i \in 1..n : Weight(tools[i]) \in Nat
    BY <1>2, ToolsHaveParams
  <2> HIDE DEF more, n
  <2> QED BY <1>1, <2>1, <2>2
<1>4. b = [i \in 1..n |-> a[i]] /\ a[n + 1] = Weight(t)
  <2>1. \A i \in 1..n : a[i] = Weight(tools[i])
    BY <1>1, <1>2
  <2>2. n + 1 \in 1..(n + 1)
    BY <1>1
  <2> HIDE DEF more, n
  <2> QED BY <1>1, <1>2, <2>1, <2>2
<1>5. TotalOf(a) = TotalOf(b) + Weight(t)
  <2> HIDE DEF a, b, n
  <2> QED BY <1>1, <1>3, <1>4, TotalWithLast
<1>6. TotalOf(b) \in Nat
  <2> HIDE DEF b, n
  <2> QED BY <1>1, <1>3, TotalIsNat
<1> QED BY <1>5, <1>6 DEF Filled

\* What a row's tools are while further ones are added to them.
ToppedFrom(own, tools) ==
    /\ tools \in Seq(RowTools)
    /\ Len(tools) >= Len(own) /\ \A i \in 1..Len(own) : tools[i] = own[i]
    /\ \A i \in 1..Len(tools), j \in 1..Len(own) : tools[i].name = own[j].name => i <= Len(own)
    /\ Filled(tools) > SlotBudget => Len(tools) = Len(own)

LEMMA TopsKeeps ==
    ASSUME NEW own \in Seq(RowTools), NEW tools, ToppedFrom(own, tools), NEW t \in RowTools
    PROVE  ToppedFrom(own, Tops(tools, t))
<1> DEFINE more == Append(tools, t)
<1>1. tools \in Seq(RowTools) /\ Len(own) \in Nat /\ Len(tools) \in Nat /\ DOMAIN tools = 1..Len(tools)
  BY DEF ToppedFrom
<1>2. CASE Tops(tools, t) = tools
  BY <1>2
<1>3. CASE /\ Tops(tools, t) = more
           /\ \A i \in DOMAIN tools : tools[i].name # t.name
           /\ ~(Filled(tools) + Weight(t) > SlotBudget)
  <2>1. /\ more \in Seq(RowTools) /\ Len(more) = Len(tools) + 1 /\ more[Len(tools) + 1] = t
        /\ \A i \in 1..Len(tools) : more[i] = tools[i]
    BY <1>1
  <2>2. ~(Filled(more) > SlotBudget)
    <3>1. Filled(more) = Filled(tools) + Weight(t)
      BY <1>1, FilledWithOneMore
    <3> HIDE DEF more
    <3> QED BY <1>3, <3>1
  <2> HIDE DEF more
  <2>3. Len(more) >= Len(own) /\ \A i \in 1..Len(own) : more[i] = own[i]
    BY <1>1, <2>1 DEF ToppedFrom
  <2>4. ASSUME NEW i \in 1..Len(more), NEW j \in 1..Len(own), more[i].name = own[j].name
        PROVE  i <= Len(own)
    <3>1. CASE i \in 1..Len(tools)
      BY <2>1, <2>4, <3>1 DEF ToppedFrom
    <3>2. CASE i = Len(tools) + 1
      <4>1. j \in DOMAIN tools /\ tools[j] = own[j]
        BY <1>1 DEF ToppedFrom
      <4> QED BY <1>3, <2>1, <2>4, <3>2, <4>1
    <3> QED BY <1>1, <2>1, <3>1, <3>2
  <2>5. ToppedFrom(own, more)
    BY <2>1, <2>2, <2>3, <2>4 DEF ToppedFrom
  <2> QED BY <1>3, <2>5
<1> QED BY <1>2, <1>3 DEF Tops

\* A row's own tools stay where they are, and none of the others has one's name.
LEMMA ToppedTools ==
    ASSUME NEW own \in Seq(RowTools), NEW n \in Nat, NEW order \in [1..n -> RowTools]
    PROVE  ToppedFrom(own, TopUp(own, order))
<1> DEFINE T == Topping(own, order)
           S == {k \in Nat : k <= n => ToppedFrom(own, T[k])}
<1>1. Len(order) = n
  OBVIOUS
<1>2. \A k \in 0..n : T[k] = IF k = 0 THEN own ELSE Tops(T[k - 1], order[k])
  <2>1. T = [k \in 0..Len(order) |-> IF k = 0 THEN own ELSE Tops(T[k - 1], order[k])]
    <3>1. Len(order) \in Nat
      BY <1>1
    <3> HIDE DEF S
    <3>2. Topping(own, order) =
             [k \in 0..Len(order) |-> IF k = 0 THEN own ELSE Tops(Topping(own, order)[k - 1], order[k])]
      BY <3>1, ToppingIsDefined
    <3> QED BY <3>2
  <2> HIDE DEF T
  <2> QED BY <1>1, <2>1
<1> HIDE DEF T
<1>3. 0 \in S
  <2>1. 0 \in 0..n
    OBVIOUS
  <2>2. T[0] = own
    BY <1>2, <2>1
  <2>3. Len(own) \in Nat
    OBVIOUS
  <2>4. ToppedFrom(own, own)
    BY <2>3 DEF ToppedFrom
  <2> QED BY <2>2, <2>4
<1>4. ASSUME NEW k \in Nat, k \in S PROVE k + 1 \in S
  <2> SUFFICES ASSUME k + 1 <= n PROVE ToppedFrom(own, T[k + 1])
    OBVIOUS
  <2>1. k + 1 \in 0..n /\ k + 1 # 0 /\ (k + 1) - 1 = k /\ order[k + 1] \in RowTools /\ k <= n
    OBVIOUS
  <2>2. ToppedFrom(own, T[k])
    BY <1>4, <2>1
  <2>3. T[k + 1] = Tops(T[k], order[k + 1])
    BY <1>2, <2>1
  <2> QED BY <2>1, <2>2, <2>3, TopsKeeps
<1>5. ToppedFrom(own, T[n])
  <2>1. n \in S
    <3> HIDE DEF S
    <3> QED BY <1>3, <1>4, NatInductionInSet
  <2> QED BY <2>1
<1> QED BY <1>1, <1>5 DEF TopUp, T

-----------------------------------------------------------------------------
\* A parameter's name leads back to its key, if one card has its chosen's name.
LEMMA KeywordOfParam ==
    ASSUME NEW own \in Seq(RowTools), NEW tools, ToppedFrom(own, tools),
           NEW m \in 1..Len(own), \A i \in 1..Len(own) : own[i].name = own[m].name => i = m,
           Plain(own[m]), NEW p \in 1..Len(own[m].params)
    PROVE  KeywordOf(tools, own[m].name, own[m].params[p].name) = own[m].params[p].key
<1> DEFINE chosen == own[m]
           name == chosen.params[p].name
           have == {i \in DOMAIN tools : tools[i].name = chosen.name /\ Named(tools[i].params, name) # {}}
           same == Named(chosen.params, name)
<1>1. chosen \in RowTools /\ DOMAIN chosen.params = 1..Len(chosen.params) /\ Len(chosen.params) \in Nat
  BY ToolsHaveParams
<1>2. same = {p}
  <2>1. p \in same
    BY <1>1 DEF Named
  <2>2. ASSUME NEW i \in same PROVE i = p
    <3>1. i \in DOMAIN chosen.params /\ p \in DOMAIN chosen.params /\ chosen.params[i].name = chosen.params[p].name
      BY <1>1 DEF Named
    <3>2. Plain(chosen)
      OBVIOUS
    <3> HIDE DEF chosen, same
    <3>3. /\ chosen.params[i].name = Short(chosen.params[i].key)
          /\ chosen.params[p].name = Short(chosen.params[p].key)
          /\ Short(chosen.params[i].key) = Short(chosen.params[p].key) => i = p
      BY <3>1, <3>2, Zenon DEF Plain
    <3> QED BY <3>1, <3>3
  <2> QED BY <2>1, <2>2
<1>3. have = {m}
  <2>1. Len(own) \in Nat /\ Len(tools) \in Nat /\ DOMAIN tools = 1..Len(tools)
    BY DEF ToppedFrom
  <2>2. m \in DOMAIN tools /\ tools[m] = chosen
    BY <2>1 DEF ToppedFrom
  <2>3. m \in have
    <3> HIDE DEF chosen, name
    <3> QED BY <1>2, <2>2
  <2>4. ASSUME NEW i \in have PROVE i = m
    <3>1. i \in 1..Len(tools) /\ tools[i].name = own[m].name
      BY <2>1
    <3>2. i \in 1..Len(own)
      BY <2>1, <3>1 DEF ToppedFrom
    <3>3. tools[i] = own[i]
      BY <3>2 DEF ToppedFrom
    <3> QED BY <3>1, <3>2, <3>3
  <2> QED BY <2>3, <2>4
<1>4. Max({m}) = m /\ Max({p}) = p
  <2>1. {m} \in SUBSET (1..Len(own)) /\ Len(own) \in Nat
    OBVIOUS
  <2>2. {p} \in SUBSET (1..Len(chosen.params)) /\ {p} # {} /\ {m} # {}
    OBVIOUS
  <2>3. Max({m}) \in {m}
    BY <2>1, <2>2, LastPlace
  <2>4. Max({p}) \in {p}
    <3> HIDE DEF chosen
    <3> QED BY <1>1, <2>2, LastPlace
  <2> QED BY <2>3, <2>4
<1>5. tools[m] = chosen
  BY DEF ToppedFrom
<1>6. KeywordOf(tools, chosen.name, name) = tools[Max(have)].params[Max(Named(tools[Max(have)].params, name))].key
  <2>1. have # {}
    BY <1>3
  <2> QED BY <2>1 DEF KeywordOf
<1> HIDE DEF have, same, chosen, name
<1>7. KeywordOf(tools, chosen.name, name) = chosen.params[p].key
  BY <1>2, <1>3, <1>4, <1>5, <1>6 DEF same
<1> QED BY <1>7 DEF chosen, name

\* The symbol of such a chosen's name is the chosen's own.
LEMMA SymbolOfTool ==
    ASSUME NEW own, own = [i \in DOMAIN shown |-> CardTool(shown[i])], shown \in Seq(Cards),
           NEW m \in DOMAIN own, \A i \in DOMAIN own : own[i].name = own[m].name => i = m
    PROVE  SymbolOf(own[m].name) = own[m].sym
<1> DEFINE name == own[m].name
           mine == {i \in DOMAIN shown : SnakeSymbol(CardTool(shown[i]).sym) = name}
<1>1. \A i \in DOMAIN shown : own[i] = CardTool(shown[i]) /\ own[i].name = SnakeSymbol(own[i].sym)
  <2> TAKE i \in DOMAIN shown
  <2>1. own[i] = CardTool(shown[i]) /\ shown[i] \in Cards
    OBVIOUS
  <2>2. own[i] \in RowTools
    BY <2>1, CardsAreTools
  <2> QED BY <2>1, <2>2, ToolsHaveParams
<1>2. mine = {m}
  BY <1>1
<1>3. Max({m}) = m
  <2>1. {m} \in SUBSET (1..Len(shown)) /\ Len(shown) \in Nat /\ {m} # {}
    OBVIOUS
  <2>2. Max({m}) \in {m}
    BY <2>1, LastPlace
  <2> QED BY <2>2
<1>4. SymbolOf(name) = CardTool(shown[Max(mine)]).sym
  <2>1. mine # {}
    BY <1>2
  <2> QED BY <2>1 DEF SymbolOf
<1> HIDE DEF mine
<1> QED BY <1>1, <1>2, <1>3, <1>4

-----------------------------------------------------------------------------
(* NextFormRows: a call there and back.                                    *)

\* A call without gaps, with its arguments in a map.
LEMMA TranslatedMap ==
    ASSUME NEW call, NEW tools, call.args.kind = "map", ~TranslateCall(call, tools).gaps
    PROVE  LET map == call.args.map
               args == TranslateCall(call, tools).arguments IN
           /\ Meant(call.head, tools) # {}
           /\ TranslateCall(call, tools).name = ToolOf(call.head, tools).name
           /\ \A k, l \in DOMAIN map : Short(k) = Short(l) => k = l
           /\ DOMAIN args = {Short(k) : k \in DOMAIN map}
           /\ \A k \in DOMAIN map : args[Short(k)] = map[k] /\ map[k] # "source"
<1> DEFINE map == call.args.map
           keys == DOMAIN map
           Value(n) == map[CHOOSE k \in keys : ArgName(k, keys) = n]
           known == Meant(call.head, tools) # {}
           mine == ToolOf(call.head, tools)
           params == IF known THEN mine.params ELSE <<>>
           list == IF call.args.kind = "map" THEN <<>> ELSE call.args.list
           Name(i) == IF Len(params) >= Len(list) THEN params[i].name ELSE Keyword("arg", ToString(i))
           args == TranslateCall(call, tools).arguments
<1>1. list = <<>> /\ DOMAIN list = {} /\ ToSet(list) = {}
  BY DEF ToSet
<1>2. /\ TranslateCall(call, tools).name = IF known THEN mine.name ELSE SnakeSymbol(call.head)
      /\ known
      /\ ~\E k, l \in keys : k # l /\ Short(k) = Short(l)
      /\ ~\E v \in Range(map) : DeepValue(v).gap
  <2>1. call.args.kind = "map"
    OBVIOUS
  <2> QED BY <2>1 DEF TranslateCall
<1>3. \A k, l \in keys : Short(k) = Short(l) => k = l
  BY <1>2
<1>4. \A k \in keys : ArgName(k, keys) = Short(k)
  <2> HIDE DEF keys
  <2> QED BY <1>3 DEF ArgName
<1>5. args = [n \in {ArgName(k, keys) : k \in keys} \cup {Name(i) : i \in DOMAIN list} |-> DeepValue(Value(n)).value]
  <2>1. call.args.kind = "map"
    OBVIOUS
  <2> QED BY <2>1 DEF TranslateCall
<1>6. DOMAIN args = {Short(k) : k \in keys}
  <2>1. {Name(i) : i \in DOMAIN list} = {}
    <3> HIDE DEF Name, list
    <3> QED BY <1>1
  <2>2. {ArgName(k, keys) : k \in keys} = {Short(k) : k \in keys}
    <3> HIDE DEF keys
    <3> QED BY <1>4
  <2> HIDE DEF keys, Name, list, Value, args
  <2> QED BY <1>5, <2>1, <2>2
<1>7. ASSUME NEW k \in keys PROVE args[Short(k)] = map[k] /\ map[k] # "source"
  <2>1. Short(k) \in {ArgName(l, keys) : l \in keys} \cup {Name(i) : i \in DOMAIN list}
    <3> HIDE DEF keys, Name, list
    <3> QED BY <1>4
  <2>2. args[Short(k)] = DeepValue(Value(Short(k))).value
    <3> HIDE DEF keys, Name, list, Value, args
    <3> QED BY <1>5, <2>1
  <2>3. (CHOOSE l \in keys : ArgName(l, keys) = Short(k)) = k
    <3> HIDE DEF keys
    <3> QED BY <1>3, <1>4
  <2>4. Value(Short(k)) = map[k]
    BY <2>3
  <2>5. ~DeepValue(map[k]).gap
    BY <1>2 DEF Range
  <2> HIDE DEF Value, args, keys, map
  <2> QED BY <2>2, <2>4, <2>5 DEF DeepValue
<1> HIDE DEF args
<1> QED BY <1>2, <1>3, <1>6, <1>7 DEF args

\* And one with its arguments by position.
LEMMA TranslatedList ==
    ASSUME NEW call, NEW tools, call.args.kind # "map", ~TranslateCall(call, tools).gaps
    PROVE  LET list == call.args.list
               params == ToolOf(call.head, tools).params
               args == TranslateCall(call, tools).arguments IN
           /\ Meant(call.head, tools) # {}
           /\ TranslateCall(call, tools).name = ToolOf(call.head, tools).name
           /\ Len(params) >= Len(list)
           /\ DOMAIN args = {params[i].name : i \in DOMAIN list}
           /\ (\A i, j \in DOMAIN list : params[i].name = params[j].name => i = j) =>
                  \A i \in DOMAIN list : args[params[i].name] = list[i]
           /\ \A i \in DOMAIN list : list[i] # "source"
<1> DEFINE map == IF call.args.kind = "map" THEN call.args.map ELSE <<>>
           keys == DOMAIN map
           known == Meant(call.head, tools) # {}
           mine == ToolOf(call.head, tools)
           list == call.args.list
           params == mine.params
           P == IF known THEN params ELSE <<>>
           Name(i) == IF Len(P) >= Len(list) THEN P[i].name ELSE Keyword("arg", ToString(i))
           Value(n) == list[CHOOSE i \in DOMAIN list : Name(i) = n]
           args == TranslateCall(call, tools).arguments
<1>1. keys = {} /\ Range(map) = {}
  BY DEF Range
<1>2. /\ TranslateCall(call, tools).name = IF known THEN mine.name ELSE SnakeSymbol(call.head)
      /\ known
      /\ ~\E v \in ToSet(list) : DeepValue(v).gap
  <2>1. call.args.kind # "map"
    OBVIOUS
  <2> QED BY <2>1 DEF TranslateCall
<1>3. Len(params) >= Len(list)
  <2>1. Len(IF known THEN mine.params ELSE <<>>) >= Len(IF call.args.kind = "map" THEN <<>> ELSE list)
    BY DEF TranslateCall
  <2> HIDE DEF known, mine, list
  <2> QED BY <1>2, <2>1
<1>4. args = [n \in {ArgName(k, keys) : k \in keys} \cup {Name(i) : i \in DOMAIN list} |-> DeepValue(Value(n)).value]
  <2> DEFINE N(i, l) == IF Len(P) >= Len(l) THEN P[i].name ELSE Keyword("arg", ToString(i))
             V(n, l) == IF call.args.kind = "map" THEN map[CHOOSE k \in keys : ArgName(k, keys) = n]
                                                  ELSE l[CHOOSE i \in DOMAIN l : N(i, l) = n]
             G(l) == [n \in {ArgName(k, keys) : k \in keys} \cup {N(i, l) : i \in DOMAIN l} |-> DeepValue(V(n, l)).value]
             given == IF call.args.kind = "map" THEN <<>> ELSE call.args.list
  <2>1. args = G(given)
    BY Zenon DEF TranslateCall
  <2>2. given = list
    OBVIOUS
  <2>3. args = G(list)
    <3> HIDE DEF args, G, given, list
    <3> QED BY <2>1, <2>2
  <2>4. \A n : V(n, list) = Value(n)
    OBVIOUS
  <2>5. G(list) = [n \in {ArgName(k, keys) : k \in keys} \cup {N(i, list) : i \in DOMAIN list} |-> DeepValue(Value(n)).value]
    <3> HIDE DEF N, V, Value, list, keys
    <3> QED BY <2>4
  <2> QED BY <2>3, <2>5, Zenon
<1>8. \A i \in DOMAIN list : Name(i) = params[i].name
  <2> HIDE DEF known, list, params
  <2> QED BY <1>2, <1>3
<1>5. DOMAIN args = {Name(i) : i \in DOMAIN list}
  <2>1. {ArgName(k, keys) : k \in keys} = {}
    <3> HIDE DEF keys
    <3> QED BY <1>1
  <2> HIDE DEF keys, Name, list, Value, args
  <2> QED BY <1>4, <2>1
<1>6. ASSUME \A i, j \in DOMAIN list : Name(i) = Name(j) => i = j, NEW i \in DOMAIN list
      PROVE  args[Name(i)] = list[i]
  <2>1. args[Name(i)] = DeepValue(Value(Name(i))).value
    <3> HIDE DEF keys, Name, list, Value, args
    <3> QED BY <1>4
  <2>2. (CHOOSE j \in DOMAIN list : Name(j) = Name(i)) = i
    <3> HIDE DEF Name, list
    <3> QED BY <1>6
  <2>3. Value(Name(i)) = list[i]
    BY <2>2
  <2> HIDE DEF Value, args, list, Name
  <2> QED BY <2>1, <2>3 DEF DeepValue
<1>7. ASSUME NEW i \in DOMAIN list PROVE list[i] # "source"
  <2>1. ~DeepValue(list[i]).gap
    BY <1>2 DEF ToSet
  <2> HIDE DEF list
  <2> QED BY <2>1 DEF DeepValue
<1>9. DOMAIN args = {params[i].name : i \in DOMAIN list}
  <2> HIDE DEF args, Name, params, list
  <2> QED BY <1>5, <1>8
<1>10. ASSUME \A i, j \in DOMAIN list : params[i].name = params[j].name => i = j, NEW i \in DOMAIN list
       PROVE  args[params[i].name] = list[i]
  <2> HIDE DEF args, Name, params, list
  <2> QED BY <1>6, <1>8, <1>10
<1> HIDE DEF args
<1> QED BY <1>2, <1>3, <1>7, <1>9, <1>10 DEF args

\* What a call is turned back into.
LEMMA BridgedCall ==
    ASSUME NEW call, NEW tools
    PROVE  /\ BridgeCall(call, tools).head = SymbolOf(call.name)
           /\ DOMAIN BridgeCall(call, tools).map =
                 {KeywordOf(tools, call.name, n) : n \in DOMAIN call.arguments}
           /\ \A n \in DOMAIN call.arguments :
                 (\A m \in DOMAIN call.arguments :
                      KeywordOf(tools, call.name, m) = KeywordOf(tools, call.name, n) => m = n) =>
                 BridgeCall(call, tools).map[KeywordOf(tools, call.name, n)] = CljValue(call.arguments[n])
<1> DEFINE names == DOMAIN call.arguments
           key == [n \in names |-> KeywordOf(tools, call.name, n)]
           back == [k \in Range(key) |-> CljValue(call.arguments[CHOOSE n \in names : key[n] = k])]
<1>1. BridgeCall(call, tools) = [head |-> SymbolOf(call.name), map |-> back]
  BY DEF BridgeCall
<1>2. Range(key) = {KeywordOf(tools, call.name, n) : n \in names}
  BY DEF Range
<1>3. ASSUME NEW n \in names, \A m \in names : key[m] = key[n] => m = n
      PROVE  back[key[n]] = CljValue(call.arguments[n])
  <2>1. (CHOOSE m \in names : key[m] = key[n]) = n
    <3> HIDE DEF key, names
    <3> QED BY <1>3
  <2>2. key[n] \in Range(key)
    BY DEF Range
  <2> HIDE DEF key, names
  <2> QED BY <2>1, <2>2
<1>4. DOMAIN back = Range(key)
  BY Zenon
<1> HIDE DEF back
<1>5. BridgeCall(call, tools).head = SymbolOf(call.name) /\ BridgeCall(call, tools).map = back
  BY <1>1
<1> QED BY <1>2, <1>3, <1>4, <1>5

\* What a full translation and its way back share, whatever its arguments are.
LEMMA MeantTool ==
    ASSUME shown \in Seq(Cards), NEW own, own = [i \in DOMAIN shown |-> CardTool(shown[i])],
           NEW head, Meant(head, own) # {}
    PROVE  /\ own \in Seq(RowTools) /\ DOMAIN own = 1..Len(own) /\ Len(own) \in Nat
           /\ Min(Meant(head, own)) \in 1..Len(own)
           /\ ToolOf(head, own) = own[Min(Meant(head, own))]
           /\ HeadMatches(head, ToolOf(head, own).sym)
<1> DEFINE n == Len(shown)
<1>1. n \in Nat /\ DOMAIN shown = 1..n /\ \A i \in 1..n : shown[i] \in Cards
  OBVIOUS
<1>2. own \in [1..n -> RowTools]
  <2> HIDE DEF n
  <2> QED BY <1>1, CardsAreTools
<1>3. own \in Seq(RowTools) /\ DOMAIN own = 1..Len(own) /\ Len(own) \in Nat
  <2> HIDE DEF n
  <2> QED BY <1>1, <1>2
<1>4. Meant(head, own) \in SUBSET (1..Len(own))
  BY <1>3 DEF Meant
<1>5. Min(Meant(head, own)) \in Meant(head, own)
  BY <1>3, <1>4, FirstPlace
<1>6. HeadMatches(head, own[Min(Meant(head, own))].sym)
  BY <1>5 DEF Meant
<1> QED BY <1>3, <1>4, <1>5, <1>6 DEF ToolOf

LEMMA TextComesBack == \A v : Same(v, CljValue(v))
BY DEF Same, CljValue

\* The row's tools are those of its cards.
OwnTools == built.tools = [i \in DOMAIN shown |-> CardTool(shown[i])]

\* What the tool of such a call names its parameters leads back to their keys.
LEMMA KeywordsOfMine ==
    ASSUME shown \in Seq(Cards), OwnTools,
           NEW tools, ToppedFrom(built.tools, tools),
           NEW head, Meant(head, built.tools) # {},
           Alone(ToolOf(head, built.tools)), Plain(ToolOf(head, built.tools))
    PROVE  /\ DOMAIN ToolOf(head, built.tools).params = 1..Len(ToolOf(head, built.tools).params)
           /\ Len(ToolOf(head, built.tools).params) \in Nat
           /\ \A p \in DOMAIN ToolOf(head, built.tools).params :
                 KeywordOf(tools, ToolOf(head, built.tools).name, ToolOf(head, built.tools).params[p].name) =
                     ToolOf(head, built.tools).params[p].key
<1> DEFINE own == built.tools
           mine == ToolOf(head, own)
           m == Min(Meant(head, own))
<1>2. /\ own \in Seq(RowTools) /\ DOMAIN own = 1..Len(own) /\ Len(own) \in Nat
      /\ m \in 1..Len(own) /\ mine = own[m]
  BY MeantTool DEF OwnTools
<1>3. \A i \in 1..Len(own) : own[i].name = own[m].name => i = m
  <2>1. Alone(own[m])
    <3> HIDE DEF m, mine
    <3> QED BY <1>2 DEF mine
  <2> HIDE DEF m
  <2> QED BY <1>2, <2>1 DEF Alone
<1>4. Plain(own[m])
  <2> HIDE DEF m, mine
  <2> QED BY <1>2 DEF mine
<1>5. mine \in RowTools /\ DOMAIN mine.params = 1..Len(mine.params) /\ Len(mine.params) \in Nat
  <2>1. mine \in RowTools
    <3> HIDE DEF own, m, mine
    <3> QED BY <1>2
  <2> QED BY <2>1, ToolsHaveParams
<1>6. ASSUME NEW p \in DOMAIN mine.params
      PROVE  KeywordOf(tools, mine.name, mine.params[p].name) = mine.params[p].key
  <2>1. p \in 1..Len(own[m].params)
    <3> HIDE DEF m, mine, own
    <3> QED BY <1>2, <1>5
  <2>2. ToppedFrom(own, tools)
    OBVIOUS
  <2>3. KeywordOf(tools, own[m].name, own[m].params[p].name) = own[m].params[p].key
    <3> HIDE DEF m, mine, own
    <3> QED BY <1>2, <1>3, <1>4, <2>1, <2>2, KeywordOfParam
  <2> HIDE DEF m, mine, own
  <2> QED BY <1>2, <2>3
<1> QED BY <1>5, <1>6

\* A map of arguments comes back as it was.
LEMMA MapComesBack ==
    ASSUME shown \in Seq(Cards), OwnTools,
           NEW tools, ToppedFrom(built.tools, tools),
           NEW call, call.args.kind = "map", ~TranslateCall(call, built.tools).gaps,
           Alone(ToolOf(call.head, built.tools)), Plain(ToolOf(call.head, built.tools)),
           \A k \in DOMAIN call.args.map :
               \E p \in DOMAIN ToolOf(call.head, built.tools).params :
                   k = ToolOf(call.head, built.tools).params[p].key
    PROVE  LET back == BridgeCall(TranslateCall(call, built.tools), tools) IN
           /\ DOMAIN back.map = DOMAIN call.args.map
           /\ \A k \in DOMAIN back.map : Same(call.args.map[k], back.map[k])
<1> DEFINE own == built.tools
           mine == ToolOf(call.head, own)
           map == call.args.map
           T == TranslateCall(call, own)
           back == BridgeCall(T, tools)
           Key(n) == KeywordOf(tools, T.name, n)
<1>1. /\ Meant(call.head, own) # {} /\ T.name = mine.name
      /\ \A k, l \in DOMAIN map : Short(k) = Short(l) => k = l
      /\ DOMAIN T.arguments = {Short(k) : k \in DOMAIN map}
      /\ \A k \in DOMAIN map : T.arguments[Short(k)] = map[k]
  <2>1. call.args.kind = "map" /\ ~TranslateCall(call, own).gaps
    OBVIOUS
  <2> HIDE DEF own
  <2> QED BY <2>1, TranslatedMap
<1>2. \A p \in DOMAIN mine.params : KeywordOf(tools, mine.name, mine.params[p].name) = mine.params[p].key
  <2>1. Meant(call.head, built.tools) # {}
    BY <1>1
  <2> QED BY <2>1, KeywordsOfMine
<1>6. \A k \in DOMAIN map : Key(Short(k)) = k
  <2> TAKE k \in DOMAIN map
  <2>1. PICK p \in DOMAIN mine.params : k = mine.params[p].key
    OBVIOUS
  <2>2. mine.params[p].name = Short(k)
    <3>1. Plain(mine)
      OBVIOUS
    <3> HIDE DEF mine
    <3> QED BY <2>1, <3>1 DEF Plain
  <2> HIDE DEF mine, T
  <2> QED BY <1>1, <1>2, <2>1, <2>2
<1>7. DOMAIN back.map = {Key(n) : n \in DOMAIN T.arguments}
  BY BridgedCall
<1>8. \A n \in DOMAIN T.arguments :
          (\A l \in DOMAIN T.arguments : Key(l) = Key(n) => l = n) => back.map[Key(n)] = CljValue(T.arguments[n])
  BY BridgedCall
<1> HIDE DEF own, mine, map, T, back, Key
<1>9. DOMAIN back.map = DOMAIN map
  <2>1. DOMAIN back.map = {Key(Short(k)) : k \in DOMAIN map}
    BY <1>1, <1>7
  <2>2. \A k \in DOMAIN map : k \in {Key(Short(l)) : l \in DOMAIN map}
    BY <1>6
  <2>3. \A k \in {Key(Short(l)) : l \in DOMAIN map} : k \in DOMAIN map
    BY <1>6
  <2> QED BY <2>1, <2>2, <2>3
<1>10. ASSUME NEW k \in DOMAIN map PROVE Same(map[k], back.map[k])
  <2>1. Short(k) \in DOMAIN T.arguments
    BY <1>1
  <2>2. \A l \in DOMAIN T.arguments : Key(l) = Key(Short(k)) => l = Short(k)
    BY <1>1, <1>6
  <2>3. back.map[Key(Short(k))] = CljValue(T.arguments[Short(k)])
    BY <1>8, <2>1, <2>2
  <2>4. back.map[k] = CljValue(map[k])
    BY <1>1, <1>6, <2>3
  <2> QED BY <2>4, TextComesBack
<1> QED BY <1>9, <1>10 DEF back, T, own, map

\* Arguments by position come back under the declared names.
LEMMA ListComesBack ==
    ASSUME shown \in Seq(Cards), OwnTools,
           NEW tools, ToppedFrom(built.tools, tools),
           NEW call, call.args.kind # "map", IsList(call.args.list),
           ~TranslateCall(call, built.tools).gaps,
           Alone(ToolOf(call.head, built.tools)), Plain(ToolOf(call.head, built.tools)),
           NEW i \in DOMAIN call.args.list
    PROVE  LET back == BridgeCall(TranslateCall(call, built.tools), tools)
               key == ToolOf(call.head, built.tools).params[i].key IN
           /\ i \in DOMAIN ToolOf(call.head, built.tools).params
           /\ key \in DOMAIN back.map /\ Same(call.args.list[i], back.map[key])
<1> DEFINE own == built.tools
           mine == ToolOf(call.head, own)
           list == call.args.list
           params == mine.params
           T == TranslateCall(call, own)
           back == BridgeCall(T, tools)
           Key(n) == KeywordOf(tools, T.name, n)
<1>0. DOMAIN list = 1..Len(list) /\ Len(list) \in Nat
  <2>1. list \in Seq(ToSet(list))
    BY DEF IsList
  <2> HIDE DEF list
  <2> QED BY <2>1
<1>1. /\ Meant(call.head, own) # {} /\ T.name = mine.name
      /\ Len(params) >= Len(list)
      /\ DOMAIN T.arguments = {params[j].name : j \in DOMAIN list}
      /\ (\A j, k \in DOMAIN list : params[j].name = params[k].name => j = k) =>
             \A j \in DOMAIN list : T.arguments[params[j].name] = list[j]
  <2>1. call.args.kind # "map" /\ ~TranslateCall(call, own).gaps
    OBVIOUS
  <2> HIDE DEF own
  <2> QED BY <2>1, TranslatedList
<1>2. /\ DOMAIN params = 1..Len(params) /\ Len(params) \in Nat
      /\ \A p \in DOMAIN params : KeywordOf(tools, mine.name, params[p].name) = params[p].key
  <2>1. Meant(call.head, built.tools) # {}
    BY <1>1
  <2> QED BY <2>1, KeywordsOfMine
<1>6. \A j \in DOMAIN list : j \in DOMAIN params
  <2> HIDE DEF list, params
  <2> QED BY <1>0, <1>1, <1>2
<1>7. \A j, k \in DOMAIN list : /\ params[j].name = Short(params[j].key)
                                /\ Short(params[j].key) = Short(params[k].key) => j = k
  <2>1. Plain(mine)
    OBVIOUS
  <2> HIDE DEF mine, list
  <2> QED BY <1>6, <2>1 DEF Plain
<1>8. \A j \in DOMAIN list : Key(params[j].name) = params[j].key
  <2> HIDE DEF list, params, T
  <2> QED BY <1>1, <1>2, <1>6
<1>9. DOMAIN back.map = {Key(n) : n \in DOMAIN T.arguments}
  BY BridgedCall
<1>10. \A n \in DOMAIN T.arguments :
          (\A l \in DOMAIN T.arguments : Key(l) = Key(n) => l = n) => back.map[Key(n)] = CljValue(T.arguments[n])
  BY BridgedCall
<1>11. i \in DOMAIN list
  OBVIOUS
<1> HIDE DEF own, mine, list, params, T, back, Key
<1>12. params[i].key \in DOMAIN back.map
  BY <1>1, <1>8, <1>9, <1>11
<1>13. Same(list[i], back.map[params[i].key])
  <2>1. params[i].name \in DOMAIN T.arguments
    BY <1>1, <1>11
  <2>2. \A l \in DOMAIN T.arguments : Key(l) = Key(params[i].name) => l = params[i].name
    <3> SUFFICES ASSUME NEW j \in DOMAIN list, Key(params[j].name) = Key(params[i].name)
                 PROVE  params[j].name = params[i].name
      BY <1>1
    <3>1. params[j].key = params[i].key
      BY <1>8, <1>11
    <3> QED BY <1>7, <1>11, <3>1
  <2>3. T.arguments[params[i].name] = list[i]
    <3>1. \A j, k \in DOMAIN list : params[j].name = params[k].name => j = k
      <4> TAKE j, k \in DOMAIN list
      <4>1. params[j].name = Short(params[j].key) /\ params[k].name = Short(params[k].key)
        BY <1>7
      <4>2. Short(params[j].key) = Short(params[k].key) => j = k
        BY <1>7
      <4> QED BY <4>1, <4>2
    <3> QED BY <1>1, <1>11, <3>1
  <2>4. back.map[Key(params[i].name)] = CljValue(list[i])
    BY <1>10, <2>1, <2>2, <2>3
  <2>5. back.map[params[i].key] = CljValue(list[i])
    BY <1>8, <1>11, <2>4
  <2> QED BY <2>5, TextComesBack
<1>14. i \in DOMAIN params
  BY <1>6, <1>11
<1> QED BY <1>12, <1>13, <1>14 DEF back, T, own, list, mine, params

-----------------------------------------------------------------------------
(* NextFormRows: a full translation bridges back.                          *)

RowTypes ==
    /\ rowPhase \in {"cards", "forms", "built", "bridged", "dropped"}
    /\ shown \in Seq(Cards) /\ turn \in Seq(Forms)

IsBuilt == rowPhase \in {"built", "bridged"}

\* A row is what its turn and its cards say, and nothing before it is built.
BuiltOfTheTurn ==
    /\ ~IsBuilt => built = NoNextForm
    /\ IsBuilt => \E form \in ToSet(turn) :
        /\ ~form.prose
        /\ OwnTools /\ built.first = {form}
        /\ built.target = {TranslateCall(c, built.tools) : c \in form.call}
        /\ built.status = "full" => form.call # {} /\ \A c \in built.target : ~c.gaps
        /\ \A other \in built.substantive : ~other.nsMove /\ ~other.prose

\* What was predicted is the target, turned back with the tools of the slot.
BridgedOfTheRow ==
    rowPhase = "bridged" =>
        /\ ToppedFrom(built.tools, slot)
        /\ bridged = {BridgeCall(c, slot) : c \in built.target}

RowInv == RowTypes /\ BuiltOfTheTurn /\ BridgedOfTheRow

LEMMA RowInvStarts == RowInit => RowInv
BY DEF RowInit, RowInv, RowTypes, BuiltOfTheTurn, BridgedOfTheRow, IsBuilt

LEMMA BuildsRowKeeps ==
    ASSUME RowInv, BuildsRow
    PROVE  RowInv'
<1> DEFINE kept == Kept(turn)
           tools == [i \in DOMAIN shown |-> CardTool(shown[i])]
           form == turn[Min(kept)]
           rest == {i \in kept : ~turn[i].nsMove}
           call == {TranslateCall(c, tools) : c \in form.call}
           status == IF call = {} THEN "none" ELSE IF \E c \in call : c.gaps THEN "partial" ELSE "full"
           more == IF rest = {} THEN {} ELSE {turn[Min(rest)]}
<1>1. /\ rowPhase' = "built" /\ UNCHANGED <<shown, turn>> /\ kept # {}
      /\ built' = [tools |-> tools, first |-> {form}, substantive |-> more, target |-> call, status |-> status]
  BY DEF BuildsRow
<1>2. shown \in Seq(Cards) /\ turn \in Seq(Forms) /\ Len(turn) \in Nat /\ DOMAIN turn = 1..Len(turn)
  BY DEF RowInv, RowTypes
<1>3. kept \in SUBSET (1..Len(turn)) /\ \A i \in kept : ~turn[i].prose
  BY <1>2 DEF Kept
<1>4. Min(kept) \in kept
  <2> HIDE DEF kept
  <2> QED BY <1>1, <1>2, <1>3, FirstPlace
<1>5. ~form.prose /\ form \in ToSet(turn)
  <2> HIDE DEF kept
  <2> QED BY <1>2, <1>3, <1>4 DEF ToSet
<1>6. \A other \in more : ~other.nsMove /\ ~other.prose
  <2>1. CASE rest = {}
    BY <2>1
  <2>2. CASE rest # {}
    <3>1. rest \in SUBSET (1..Len(turn)) /\ rest \subseteq kept /\ \A i \in rest : ~turn[i].nsMove
      <4> HIDE DEF kept
      <4> QED BY <1>3
    <3>2. Min(rest) \in rest
      <4> HIDE DEF rest
      <4> QED BY <1>2, <2>2, <3>1, FirstPlace
    <3> HIDE DEF rest, kept
    <3> QED BY <1>3, <3>1, <3>2
  <2> QED BY <2>1, <2>2
<1>7. status = "full" => form.call # {} /\ \A c \in call : ~c.gaps
  <2>1. status = "full" => call # {} /\ \A c \in call : ~c.gaps
    <3> HIDE DEF call
    <3> QED OBVIOUS
  <2>2. call # {} => form.call # {}
    <3> HIDE DEF form, tools
    <3> QED OBVIOUS
  <2> HIDE DEF status, call, form
  <2> QED BY <2>1, <2>2
<1> HIDE DEF form, tools, more, status, kept
<1>8. /\ built'.tools = tools /\ built'.first = {form} /\ built'.substantive = more
      /\ built'.target = call /\ built'.status = status
  <2> HIDE DEF call
  <2> QED BY <1>1
<1>9. BuiltOfTheTurn'
  <2>1. OwnTools'
    <3>1. tools = [i \in DOMAIN shown' |-> CardTool(shown'[i])]
      BY <1>1 DEF tools
    <3> HIDE DEF call
    <3> QED BY <1>8, <3>1 DEF OwnTools
  <2>2. IsBuilt'
    <3> HIDE DEF call
    <3> QED BY <1>1 DEF IsBuilt
  <2>3. form \in ToSet(turn')
    <3> HIDE DEF call
    <3> QED BY <1>1, <1>5
  <2>4. built'.target = {TranslateCall(c, built'.tools) : c \in form.call}
    BY <1>8
  <2> HIDE DEF call
  <2> QED BY <1>5, <1>6, <1>7, <1>8, <2>1, <2>2, <2>3, <2>4 DEF BuiltOfTheTurn
<1>10. RowTypes' /\ BridgedOfTheRow'
  <2> HIDE DEF call
  <2> QED BY <1>1, <1>2 DEF RowTypes, BridgedOfTheRow
<1> QED BY <1>9, <1>10 DEF RowInv

LEMMA BridgesKeeps ==
    ASSUME RowInv, Bridges
    PROVE  RowInv'
<1>1. PICK topped \in BOOLEAN, order \in IndexTools :
        /\ slot' = IF topped THEN TopUp(built.tools, order) ELSE built.tools
        /\ bridged' = {BridgeCall(call, slot') : call \in built.target}
  BY DEF Bridges
<1>2. rowPhase = "built" /\ rowPhase' = "bridged" /\ UNCHANGED <<shown, turn, built>>
  BY DEF Bridges
<1>3. built.tools \in Seq(RowTools) /\ Len(built.tools) \in Nat
  <2>1. built.tools = [i \in DOMAIN shown |-> CardTool(shown[i])] /\ shown \in Seq(Cards)
    BY <1>2 DEF RowInv, RowTypes, BuiltOfTheTurn, IsBuilt, OwnTools
  <2>2. DOMAIN shown = 1..Len(shown) /\ Len(shown) \in Nat /\ \A i \in 1..Len(shown) : shown[i] \in Cards
    BY <2>1
  <2>3. [i \in DOMAIN shown |-> CardTool(shown[i])] \in [1..Len(shown) -> RowTools]
    BY <2>2, CardsAreTools
  <2>4. built.tools \in [1..Len(shown) -> RowTools]
    BY <2>1, <2>3, Zenon
  <2> QED BY <2>2, <2>4
<1>4. ToppedFrom(built.tools, slot')
  <2>1. ToppedFrom(built.tools, built.tools)
    BY <1>3 DEF ToppedFrom
  <2>2. ToppedFrom(built.tools, TopUp(built.tools, order))
    <3>1. PICK n \in Nat : order \in [1..n -> RowTools]
      BY OrdersAreTools
    <3> QED BY <1>3, <3>1, ToppedTools
  <2> QED BY <1>1, <2>1, <2>2
<1>5. ToppedFrom(built.tools, slot)'
  <2>1. \A own, given : ToppedFrom(own, given) => ToppedFrom(own, given)'
    BY DEF ToppedFrom, Filled, Weight
  <2> QED BY <1>2, <1>4, <2>1
<1>6. IsBuilt /\ IsBuilt'
  BY <1>2 DEF IsBuilt
<1>7. OwnTools => OwnTools'
  BY <1>2 DEF OwnTools
<1>8. BuiltOfTheTurn'
  BY <1>2, <1>6, <1>7 DEF RowInv, BuiltOfTheTurn
<1>9. bridged' = {BridgeCall(c, slot)' : c \in built'.target}
  <2>1. \A c, given : BridgeCall(c, given) = BridgeCall(c, given)'
    BY <1>2 DEF BridgeCall, SymbolOf, KeywordOf, Named
  <2> QED BY <1>1, <1>2, <2>1
<1> QED BY <1>2, <1>5, <1>8, <1>9 DEF RowInv, RowTypes, BridgedOfTheRow

LEMMA RowInvNext ==
    ASSUME RowInv, [RowNext]_rowVars
    PROVE  RowInv'
<1>1. CASE UNCHANGED rowVars
  <2>1. UNCHANGED <<rowPhase, shown, turn, built, slot, bridged>>
    BY <1>1 DEF rowVars
  <2>2. \A c, given : BridgeCall(c, given) = BridgeCall(c, given)'
    BY <2>1 DEF BridgeCall, SymbolOf, KeywordOf, Named
  <2>3. \A own, given : ToppedFrom(own, given) => ToppedFrom(own, given)'
    BY DEF ToppedFrom, Filled, Weight
  <2>4. (IsBuilt' <=> IsBuilt) /\ (OwnTools => OwnTools')
    BY <2>1 DEF IsBuilt, OwnTools
  <2>5. BuiltOfTheTurn' /\ RowTypes'
    BY <2>1, <2>4 DEF RowInv, RowTypes, BuiltOfTheTurn
  <2>6. rowPhase = "bridged" => bridged' = {BridgeCall(c, slot)' : c \in built'.target}
    BY <2>1, <2>2 DEF RowInv, BridgedOfTheRow
  <2>7. rowPhase = "bridged" => ToppedFrom(built.tools, slot)'
    BY <2>1, <2>3 DEF RowInv, BridgedOfTheRow
  <2> QED BY <2>1, <2>5, <2>6, <2>7 DEF RowInv, BridgedOfTheRow
<1>2. CASE Shows \/ Says \/ DropsRow
  <2>1. /\ rowPhase \notin {"built", "bridged"} /\ rowPhase' \notin {"built", "bridged"}
        /\ rowPhase' \in {"cards", "forms", "built", "bridged", "dropped"} /\ UNCHANGED built
    BY <1>2 DEF Shows, Says, DropsRow, RowInv, RowTypes
  <2>2. shown' \in Seq(Cards) /\ turn' \in Seq(Forms)
    <3>1. shown \in Seq(Cards) /\ turn \in Seq(Forms)
      BY DEF RowInv, RowTypes
    <3>2. CASE Shows
      <4>1. PICK card \in Cards : shown' = Append(shown, card)
        BY <3>2 DEF Shows
      <4>2. turn' = turn
        BY <3>2 DEF Shows
      <4> QED BY <3>1, <4>1, <4>2
    <3>3. CASE Says
      <4>1. PICK form \in Forms : turn' = Append(turn, form)
        BY <3>3 DEF Says
      <4>2. shown' = shown
        BY <3>3 DEF Says
      <4> QED BY <3>1, <4>1, <4>2
    <3>4. CASE DropsRow
      BY <3>1, <3>4 DEF DropsRow
    <3> QED BY <1>2, <3>2, <3>3, <3>4
  <2> QED BY <2>1, <2>2 DEF RowInv, RowTypes, BuiltOfTheTurn, BridgedOfTheRow, IsBuilt
<1>3. CASE BuildsRow
  BY <1>3, BuildsRowKeeps
<1>4. CASE Bridges
  BY <1>4, BridgesKeeps
<1> QED BY <1>1, <1>2, <1>3, <1>4 DEF RowNext

LEMMA RowInvBridges == RowInv => FullCallsBridgeBack
<1> SUFFICES ASSUME RowInv PROVE FullCallsBridgeBack
  OBVIOUS
<1>1. CASE ~IsBuilt
  BY <1>1 DEF RowInv, BuiltOfTheTurn, FullCallsBridgeBack, IsBuilt, NoNextForm
<1>2. CASE IsBuilt
  <2>1. PICK form \in ToSet(turn) :
            /\ ~form.prose
            /\ OwnTools /\ built.first = {form}
            /\ built.target = {TranslateCall(c, built.tools) : c \in form.call}
            /\ built.status = "full" => form.call # {} /\ \A c \in built.target : ~c.gaps
            /\ \A other \in built.substantive : ~other.nsMove /\ ~other.prose
    BY <1>2 DEF RowInv, BuiltOfTheTurn
  <2>2. shown \in Seq(Cards) /\ form \in Forms
    <3>1. turn \in Seq(Forms) /\ shown \in Seq(Cards)
      BY DEF RowInv, RowTypes
    <3> QED BY <3>1 DEF ToSet
  <2>3. rowPhase = "bridged" => ToppedFrom(built.tools, slot)
    BY DEF RowInv, BridgedOfTheRow
  <2>4. ASSUME rowPhase = "bridged", built.status = "full", NEW call \in form.call, NEW back \in bridged
        PROVE  LET mine     == ToolOf(call.head, built.tools)
                   keys     == [i \in DOMAIN mine.params |-> mine.params[i].key]
                   faithful == Alone(mine) /\ Plain(mine)
               IN  /\ Alone(mine) => HeadMatches(call.head, back.head)
                   /\ (faithful /\ call.args.kind = "map" /\ DOMAIN call.args.map \subseteq ToSet(keys)) =>
                          /\ DOMAIN back.map = DOMAIN call.args.map
                          /\ \A k \in DOMAIN back.map : Same(call.args.map[k], back.map[k])
                   /\ (faithful /\ call.args.kind # "map") =>
                          \A i \in DOMAIN call.args.list :
                              keys[i] \in DOMAIN back.map /\ Same(call.args.list[i], back.map[keys[i]])
                   /\ "source" \notin (IF call.args.kind = "map" THEN Range(call.args.map)
                                                                 ELSE ToSet(call.args.list))
    <3> DEFINE mine == ToolOf(call.head, built.tools)
               keys == [i \in DOMAIN mine.params |-> mine.params[i].key]
               T == TranslateCall(call, built.tools)
    <3>1. \A other \in form.call : other = call
      BY <2>2, NextFormConstants
    <3>2. call.args.kind # "map" => IsList(call.args.list)
      BY <2>2, NextFormConstants
    <3>3. T \in built.target /\ ~T.gaps
      BY <2>1, <2>4
    <3>4. back = BridgeCall(T, slot)
      <4>1. bridged = {BridgeCall(c, slot) : c \in built.target}
        BY <2>4 DEF RowInv, BridgedOfTheRow
      <4>2. PICK c \in built.target : back = BridgeCall(c, slot)
        BY <4>1
      <4>3. PICK other \in form.call : c = TranslateCall(other, built.tools)
        BY <2>1
      <4>4. other = call
        BY <3>1
      <4> QED BY <4>2, <4>3, <4>4
    <3>5. ~TranslateCall(call, built.tools).gaps /\ ToppedFrom(built.tools, slot) /\ OwnTools
      BY <2>1, <2>3, <2>4, <3>3
    <3>6. Meant(call.head, built.tools) # {} /\ T.name = mine.name
      <4>1. CASE call.args.kind = "map"
        BY <3>5, <4>1, TranslatedMap
      <4>2. CASE call.args.kind # "map"
        BY <3>5, <4>2, TranslatedList
      <4> QED BY <4>1, <4>2
    <3>7. ASSUME Alone(mine) PROVE HeadMatches(call.head, back.head)
      <4> DEFINE own == built.tools
                 m == Min(Meant(call.head, own))
      <4>1. /\ own \in Seq(RowTools) /\ DOMAIN own = 1..Len(own) /\ m \in 1..Len(own) /\ mine = own[m]
            /\ HeadMatches(call.head, mine.sym)
        BY <2>2, <3>5, <3>6, MeantTool DEF OwnTools
      <4>2. \A i \in DOMAIN own : own[i].name = own[m].name => i = m
        <5>1. Alone(own[m])
          <6> HIDE DEF m, mine
          <6> QED BY <3>7, <4>1 DEF mine
        <5> HIDE DEF m
        <5> QED BY <4>1, <5>1 DEF Alone
      <4>3. own = [i \in DOMAIN shown |-> CardTool(shown[i])]
        BY <3>5 DEF OwnTools
      <4> HIDE DEF own, m, mine, T
      <4>4. SymbolOf(own[m].name) = own[m].sym
        BY <2>2, <4>1, <4>2, <4>3, SymbolOfTool
      <4>5. back.head = SymbolOf(T.name)
        BY <3>4, BridgedCall
      <4> QED BY <3>6, <4>1, <4>4, <4>5
    <3>8. ASSUME Alone(mine), Plain(mine), call.args.kind = "map", DOMAIN call.args.map \subseteq ToSet(keys)
          PROVE  /\ DOMAIN back.map = DOMAIN call.args.map
                 /\ \A k \in DOMAIN back.map : Same(call.args.map[k], back.map[k])
      <4>1. \A k \in DOMAIN call.args.map : \E p \in DOMAIN mine.params : k = mine.params[p].key
        <5> HIDE DEF mine
        <5> QED BY <3>8 DEF ToSet
      <4> QED BY <2>2, <3>4, <3>5, <3>8, <4>1, MapComesBack
    <3>9. ASSUME Alone(mine), Plain(mine), call.args.kind # "map", NEW i \in DOMAIN call.args.list
          PROVE  keys[i] \in DOMAIN back.map /\ Same(call.args.list[i], back.map[keys[i]])
      <4>1. /\ i \in DOMAIN mine.params
            /\ mine.params[i].key \in DOMAIN back.map /\ Same(call.args.list[i], back.map[mine.params[i].key])
        BY <2>2, <3>2, <3>4, <3>5, <3>9, ListComesBack
      <4> HIDE DEF mine
      <4> QED BY <4>1
    <3>10. "source" \notin (IF call.args.kind = "map" THEN Range(call.args.map) ELSE ToSet(call.args.list))
      <4>1. CASE call.args.kind = "map"
        <5>1. \A k \in DOMAIN call.args.map : call.args.map[k] # "source"
          BY <3>5, <4>1, TranslatedMap
        <5> QED BY <4>1, <5>1 DEF Range
      <4>2. CASE call.args.kind # "map"
        <5>1. \A i \in DOMAIN call.args.list : call.args.list[i] # "source"
          BY <3>5, <4>2, TranslatedList
        <5> QED BY <4>2, <5>1 DEF ToSet
      <4> QED BY <4>1, <4>2
    <3> HIDE DEF mine, keys
    <3>11. /\ Alone(mine) => HeadMatches(call.head, back.head)
           /\ (Alone(mine) /\ Plain(mine) /\ call.args.kind = "map" /\ DOMAIN call.args.map \subseteq ToSet(keys)) =>
                  /\ DOMAIN back.map = DOMAIN call.args.map
                  /\ \A k \in DOMAIN back.map : Same(call.args.map[k], back.map[k])
           /\ (Alone(mine) /\ Plain(mine) /\ call.args.kind # "map") =>
                  \A i \in DOMAIN call.args.list :
                      keys[i] \in DOMAIN back.map /\ Same(call.args.list[i], back.map[keys[i]])
      BY <3>7, <3>8, <3>9
    <3> QED BY <3>10, <3>11 DEF mine, keys
  <2>5. rowPhase = "bridged" =>
            /\ Len(slot) >= Len(built.tools) /\ \A i \in DOMAIN built.tools : slot[i] = built.tools[i]
            /\ Filled(slot) > SlotBudget => Len(slot) = Len(built.tools)
    <3>1. DOMAIN built.tools = 1..Len(built.tools)
      BY <2>1, <2>2 DEF OwnTools
    <3> QED BY <2>3, <3>1 DEF ToppedFrom
  <2> QED BY <2>1, <2>4, <2>5 DEF FullCallsBridgeBack
<1> QED BY <1>1, <1>2

-----------------------------------------------------------------------------
(* The rows side by side.                                                  *)

\* For any index, cards, turns and order of further tools: a call that is marked
\* fully translated bridges back to the function, keywords and values it was
\* made of, and further tools leave the row's own where they are (translate_call
\* and build in build_v2.py, fn_to_tool in lint_probe.py, bridge_call and topup
\* in eval_extend.py).
THEOREM FullCallsStayFaithful == RowInit /\ [][RowNext]_rowVars => []FullCallsBridgeBack
<1> QED BY RowInvStarts, RowInvNext, RowInvBridges, PTL

\* For any indexes, queries and published rows: no training row made for a
\* function of the index asks what the evaluation asks or answers with a
\* function kept out, and its arguments are those its function took in the
\* index they were gated on; each row's call, published or not, is of a tool on
\* its menu, and a menu is past the encoder only where nothing is left to trim
\* (gate in gen_seon_queries.py, the row builders of data_extend.py).
THEOREM TrainingRowsStayClean == DataInit /\ [][DataNext]_dataVars => []TrainingRowsAreClean
<1> QED BY DataInvStarts, DataInvNext, DataInvIsClean, PTL

\* However the two are interleaved, both hold.
THEOREM OfflineDataStaysFaithful == OfflineDataSpec => []OfflineDataIsFaithful
<1>1. OfflineDataInit => RowInv /\ DataInv
  BY RowInvStarts, DataInvStarts DEF OfflineDataInit
<1>2. RowInv /\ DataInv /\ [OfflineDataNext]_offlineDataVars => (RowInv /\ DataInv)'
  <2> SUFFICES ASSUME RowInv, DataInv, [OfflineDataNext]_offlineDataVars PROVE RowInv' /\ DataInv'
    OBVIOUS
  <2>1. [RowNext]_rowVars /\ [DataNext]_dataVars
    BY DEF OfflineDataNext, offlineDataVars
  <2> QED BY <2>1, RowInvNext, DataInvNext
<1>3. RowInv /\ DataInv => OfflineDataIsFaithful
  BY RowInvBridges, DataInvIsClean DEF OfflineDataIsFaithful
<1> QED BY <1>1, <1>2, <1>3, PTL DEF OfflineDataSpec

-----------------------------------------------------------------------------
(* The rows of an episode, as a response renders them.                     *)

\* The least of some numbers.
LEMMA MinOfNats ==
    ASSUME NEW S, S \subseteq Nat, S # {}
    PROVE  Min(S) \in S /\ \A n \in S : Min(S) <= n
<1>1. PICK m \in S : \A n \in S : <<n, m>> \notin OpToRel(<, Nat)
  BY WFMin, NatLessThanWellFounded, Zenon
<1>2. \A n \in S : ~(n < m)
  <2> TAKE n \in S
  <2>1. n \in Nat /\ m \in Nat
    OBVIOUS
  <2> QED BY <1>1, <2>1, Zenon DEF OpToRel
<1>3. \A n \in S : m <= n
  BY <1>2
<1> QED BY <1>3 DEF Min

LEMMA OkIndicesGrow ==
    ASSUME NEW S, NEW log \in Seq(S), NEW row \in S, NEW mark
    PROVE  OkIndices(Append(log, row), mark) =
              OkIndices(log, mark) \cup (IF row.ok /\ mark \in row.source THEN {Len(log) + 1} ELSE {})
<1> DEFINE more == Append(log, row)
<1>1. /\ Len(log) \in Nat /\ more[Len(log) + 1] = row
      /\ \A i \in 1..Len(log) : more[i] = log[i]
      /\ DOMAIN more = 1..(Len(log) + 1) /\ DOMAIN log = 1..Len(log)
  OBVIOUS
<1> HIDE DEF more
<1>2. OkIndices(more, mark) = OkIndices(log, mark) \cup (IF row.ok /\ mark \in row.source THEN {Len(log) + 1} ELSE {})
  BY <1>1 DEF OkIndices
<1> QED BY <1>2 DEF more

LEMMA OkIndicesOfLog ==
    ASSUME NEW S, NEW log \in Seq(S), NEW mark
    PROVE  OkIndices(log, mark) \subseteq 1..Len(log) /\ IsFiniteSet(OkIndices(log, mark))
<1>1. DOMAIN log = 1..Len(log) /\ Len(log) \in Nat
  OBVIOUS
<1>2. OkIndices(log, mark) \subseteq 1..Len(log)
  BY <1>1 DEF OkIndices
<1>3. IsFiniteSet(1..Len(log))
  BY <1>1, FS_Interval
<1>4. IsFiniteSet(OkIndices(log, mark))
  BY <1>2, <1>3, FS_Subset
<1> QED BY <1>2, <1>4

\* The greatest of some indices.
LEMMA MaxOfIndices ==
    ASSUME NEW n \in Nat, NEW S, S \subseteq 1..n, S # {}
    PROVE  Max(S) \in S /\ \A i \in S : i <= Max(S)
<1> DEFINE D == {n - i : i \in S}
<1>1. D \subseteq Nat /\ D # {}
  <2>1. \A i \in S : n - i \in Nat
    OBVIOUS
  <2>2. PICK i \in S : TRUE
    OBVIOUS
  <2> QED BY <2>1, <2>2
<1>2. Min(D) \in D /\ \A d \in D : Min(D) <= d
  BY <1>1, MinOfNats
<1>3. PICK m \in S : Min(D) = n - m
  BY <1>2
<1>4. \A i \in S : i <= m
  <2> TAKE i \in S
  <2>1. n - i \in D
    OBVIOUS
  <2>2. n - m <= n - i
    BY <1>2, <1>3, <2>1
  <2> QED BY <2>2
<1> HIDE DEF D
<1>5. \E x \in S : \A y \in S : x >= y
  BY <1>4
<1>6. Max(S) \in S /\ \A y \in S : Max(S) >= y
  BY <1>5 DEF Max
<1> QED BY <1>6

\* A response that is in order is the rows as they were committed.
LEMMA ResponsesAreOrdered ==
    ASSUME NEW S, NEW log \in Seq(S), \A i \in 1..Len(log) : log[i].at = i,
           NEW foreign, NEW given \in Responses(log, foreign), NEW basis, OrderedProofRows(given, basis)
    PROVE  given = log
<1>1. DOMAIN log = 1..Len(log) /\ Len(log) \in Nat
  OBVIOUS
<1>2. ASSUME NEW i \in 1..(Len(log) - 1), given = [log EXCEPT ![i] = log[i + 1], ![i + 1] = log[i]]
      PROVE  FALSE
  <2>1. i \in DOMAIN log /\ i + 1 \in DOMAIN log /\ i # i + 1 /\ DOMAIN given = DOMAIN log
    BY <1>1, <1>2
  <2>2. given[i] = log[i + 1] /\ given[i + 1] = log[i]
    BY <1>2, <2>1
  <2>3. given[i].at = i + 1 /\ given[i + 1].at = i
    BY <1>1, <2>1, <2>2
  <2>4. given[i].at < given[i + 1].at
    BY <2>1 DEF OrderedProofRows
  <2> QED BY <2>3, <2>4
<1>3. ASSUME NEW i \in 1..Len(log), given = InsertAt(log, i, [ok |-> TRUE, source |-> foreign, turn |-> 0, at |-> i])
      PROVE  FALSE
  <2> DEFINE row == [ok |-> TRUE, source |-> foreign, turn |-> 0, at |-> i]
             T == S \cup {row}
             before == SubSeq(log, 1, i - 1)
             after == SubSeq(log, i, Len(log))
  <2>1. before \in Seq(T) /\ after \in Seq(T) /\ Len(before) = i - 1 /\ row \in T /\ row.turn = 0
    BY SubSeqProperties
  <2>2. given = (before \o <<row>>) \o after
    BY <1>3 DEF InsertAt
  <2> HIDE DEF before, after, row, T
  <2>3. <<row>> \in Seq(T) /\ Len(<<row>>) = 1 /\ <<row>>[1] = row
    BY <2>1
  <2> DEFINE front == before \o <<row>>
  <2>4. front \in Seq(T) /\ Len(front) = i /\ front[i] = row
    BY <2>1, <2>3, ConcatProperties
  <2> HIDE DEF front
  <2>5. given \in Seq(T) /\ Len(given) >= i /\ given[i] = row
    <3>1. given = front \o after
      BY <2>2 DEF front
    <3> DEFINE whole == front \o after
    <3>2. /\ whole \in Seq(T) /\ Len(whole) = Len(front) + Len(after)
          /\ \A k \in 1..(Len(front) + Len(after)) : whole[k] = IF k <= Len(front) THEN front[k] ELSE after[k - Len(front)]
      <4>1. front \in Seq(T) /\ after \in Seq(T)
        BY <2>1, <2>4
      <4> QED BY <4>1, ConcatProperties, Zenon
    <3>3. Len(after) \in Nat /\ i \in 1..(Len(front) + Len(after)) /\ i <= Len(front)
      BY <2>1, <2>4
    <3> HIDE DEF whole
    <3>4. whole \in Seq(T) /\ Len(whole) >= i /\ whole[i] = row
      BY <2>4, <3>2, <3>3
    <3> QED BY <3>1, <3>4 DEF whole
  <2>6. i \in DOMAIN given
    BY <2>5
  <2> QED BY <2>1, <2>5, <2>6 DEF OrderedProofRows
<1> QED BY <1>2, <1>3 DEF Responses

-----------------------------------------------------------------------------
(* MilestoneOracle.                                                        *)

EvalRows == [ok : BOOLEAN, source : SUBSET Marks, turn : {1}, at : Nat]

\* What the rows show of the namespaces they really made.
NamespacesFit(log, world) ==
    /\ \A ns \in {"units", "convert"} : OkIndices(log, ns) # {} => ns \in world.entered
    /\ world.entered \subseteq {"units", "convert"}
    /\ \A i \in OkIndices(log, "register_identity"), j \in OkIndices(log, "units") :
          j <= i => "identity" \in world.schema
    /\ OkIndices(log, "require") # {} => world.required
    /\ world.factors \in Seq(BOOLEAN) /\ Len(world.factors) = Cardinality(OkIndices(log, "defn"))
    /\ \A i \in OkIndices(log, "defn") : (\A j \in OkIndices(log, "defn") : j <= i) =>
          Len(world.factors) > 0 /\ ("precise" \in log[i].source => world.factors[Len(world.factors)] = TRUE)
    /\ world.forked => \E i \in DOMAIN log : "fork" \in log[i].source

Schemas(log, a) == {i \in OkIndices(log, Register[a]) : "typed" \in log[i].source}

\* A row that stored the records under a schema that was registered before it.
StoredBy(log, t) ==
    /\ t \in OkIndices(log, "store_all")
    /\ \E i \in Schemas(log, "identity") : i < t
    /\ \E i \in Schemas(log, "measure") : i < t

RecalledBy(log, t, q) == q \in OkIndices(log, "query") /\ t < q

ComputedBy(log, t, p) ==
    /\ p \in OkIndices(log, "predicate") /\ t < p
    /\ \/ p \in OkIndices(log, "query")
       \/ "result" \in log[p].source /\ \E q \in OkIndices(log, "query") : t < q /\ q < p

\* What the rows show of the database they really left.
DatabaseFits(log, world) ==
    /\ \A a \in {"identity", "measure"} : Schemas(log, a) # {} => a \in world.schema
    /\ world.schema \subseteq {"identity", "measure"}
    /\ \A t \in 1..Len(log) : StoredBy(log, t) => world.stored
    /\ \A t, q \in 1..Len(log) : StoredBy(log, t) /\ RecalledBy(log, t, q) => world.recalled
    /\ \A t, p \in 1..Len(log) : StoredBy(log, t) /\ ComputedBy(log, t, p) => world.computed

\* The sample was made of the rows and the pod as they are.
SamplesAreOfRows ==
    \A given \in graded :
        /\ over /\ given.basis = Len(evals) /\ given.snapshot = pod.facts
        /\ given.rows \in (IF milestone = "db" THEN Responses(evals, {"query", "predicate"}) ELSE {evals})

MilestoneInv ==
    /\ milestone \in Milestones /\ over \in BOOLEAN
    /\ opening \in Seq([ok : BOOLEAN, source : SUBSET Marks])
    /\ evals \in Seq(EvalRows) /\ \A i \in 1..Len(evals) : evals[i].at = i
    /\ IF milestone = "db" THEN DatabaseFits(evals, pod) ELSE NamespacesFit(evals, pod)
    /\ SamplesAreOfRows

LEMMA MilestoneInvStarts == MilestoneInit => MilestoneInv
<1> SUFFICES ASSUME MilestoneInit PROVE MilestoneInv
  OBVIOUS
<1>1. \A mark : OkIndices(<<>>, mark) = {}
  BY DEF OkIndices
<1>2. evals = <<>> /\ pod = FreshPod /\ graded = {} /\ over = FALSE /\ milestone \in Milestones
      /\ opening \in Openings[milestone]
  BY DEF MilestoneInit
<1>3. NamespacesFit(<<>>, FreshPod)
  <2>1. Cardinality({}) = 0
    BY FS_EmptySet
  <2>2. Len(FreshPod.factors) = 0 /\ FreshPod.factors \in Seq(BOOLEAN)
    BY DEF FreshPod
  <2>3. FreshPod.entered = {} /\ FreshPod.forked = FALSE
    BY DEF FreshPod
  <2> QED BY <1>1, <2>1, <2>2, <2>3 DEF NamespacesFit
<1>4. DatabaseFits(<<>>, FreshPod)
  BY <1>1 DEF DatabaseFits, FreshPod, Schemas, StoredBy
<1>5. opening \in Seq([ok : BOOLEAN, source : SUBSET Marks])
  BY <1>2, FormsAreForms
<1>6. SamplesAreOfRows
  BY <1>2 DEF SamplesAreOfRows
<1>7. evals \in Seq(EvalRows) /\ Len(evals) = 0
  BY <1>2
<1>8. over \in BOOLEAN
  BY <1>2
<1> QED BY <1>2, <1>3, <1>4, <1>5, <1>6, <1>7, <1>8 DEF MilestoneInv

\* What a row does, part by part.
LEMMA EvaluatedParts ==
    ASSUME NEW world, NEW row \in EvalRows
    PROVE  LET next == Evaluated(world, row) IN
           /\ next.entered = world.entered \cup {ns \in {"units", "convert"} : row.ok /\ ns \in row.source}
           /\ next.required = (world.required \/ (row.ok /\ "require" \in row.source))
           /\ next.factors = IF row.ok /\ "defn" \in row.source
                             THEN Append(world.factors, "precise" \in row.source) ELSE world.factors
           /\ next.forked = (world.forked \/ (row.ok /\ "fork" \in row.source))
           /\ next.schema = world.schema \cup
                 {a \in {"identity", "measure"} :
                     /\ row.ok /\ Register[a] \in row.source
                     /\ IF milestone = "db" THEN row.ok /\ "typed" \in row.source ELSE "units" \in next.entered}
           /\ next.stored = (world.stored \/ (row.ok /\ "store_all" \in row.source /\ world.schema = {"identity", "measure"}))
           /\ next.recalled = (world.recalled \/ (row.ok /\ "query" \in row.source /\ world.stored))
           /\ next.computed = (world.computed \/ (/\ row.ok /\ "predicate" \in row.source /\ world.stored
                                                  /\ \/ row.ok /\ "query" \in row.source
                                                     \/ row.ok /\ "result" \in row.source /\ world.recalled))
BY Zenon DEF Evaluated

LEMMA NamespacesFitGrows ==
    ASSUME NEW log \in Seq(EvalRows), NEW row \in EvalRows, NEW world, milestone # "db", NamespacesFit(log, world)
    PROVE  NamespacesFit(Append(log, row), Evaluated(world, row))
<1> DEFINE more == Append(log, row)
           n == Len(log)
           next == Evaluated(world, row)
           of(mark) == OkIndices(log, mark)
           moreOf(mark) == OkIndices(more, mark)
<1>1. /\ n \in Nat /\ Len(more) = n + 1 /\ more[n + 1] = row
      /\ \A i \in 1..n : more[i] = log[i]
      /\ DOMAIN log = 1..n /\ DOMAIN more = 1..(n + 1)
  OBVIOUS
<1>2. \A mark : moreOf(mark) = of(mark) \cup (IF row.ok /\ mark \in row.source THEN {n + 1} ELSE {})
  <2> TAKE mark
  <2> QED BY OkIndicesGrow
<1>3. \A mark : of(mark) \subseteq 1..n /\ IsFiniteSet(of(mark))
  BY OkIndicesOfLog, Zenon
<1>4. /\ next.entered = world.entered \cup {ns \in {"units", "convert"} : row.ok /\ ns \in row.source}
      /\ next.required = (world.required \/ (row.ok /\ "require" \in row.source))
      /\ next.factors = IF row.ok /\ "defn" \in row.source
                        THEN Append(world.factors, "precise" \in row.source) ELSE world.factors
      /\ next.forked = (world.forked \/ (row.ok /\ "fork" \in row.source))
      /\ next.schema = world.schema \cup
            {a \in {"identity", "measure"} :
                row.ok /\ Register[a] \in row.source /\ "units" \in next.entered}
  BY EvaluatedParts
<1>0. /\ \A ns \in {"units", "convert"} : of(ns) # {} => ns \in world.entered
      /\ world.entered \subseteq {"units", "convert"}
      /\ \A i \in of("register_identity"), j \in of("units") : j <= i => "identity" \in world.schema
      /\ of("require") # {} => world.required
      /\ world.factors \in Seq(BOOLEAN) /\ Len(world.factors) = Cardinality(of("defn"))
      /\ \A i \in of("defn") : (\A j \in of("defn") : j <= i) =>
            Len(world.factors) > 0 /\ ("precise" \in log[i].source => world.factors[Len(world.factors)] = TRUE)
      /\ world.forked => \E i \in DOMAIN log : "fork" \in log[i].source
  BY DEF NamespacesFit
<1> HIDE DEF more, n, next, of, moreOf
<1>5. \A ns \in {"units", "convert"} : moreOf(ns) # {} => ns \in next.entered
  <2> TAKE ns \in {"units", "convert"}
  <2>1. moreOf(ns) = of(ns) \cup (IF row.ok /\ ns \in row.source THEN {n + 1} ELSE {})
    BY <1>2
  <2> QED BY <1>0, <1>4, <2>1
<1>6. next.entered \subseteq {"units", "convert"}
  BY <1>0, <1>4
<1>7. \A i \in moreOf("register_identity"), j \in moreOf("units") : j <= i => "identity" \in next.schema
  <2> SUFFICES ASSUME NEW i \in moreOf("register_identity"), NEW j \in moreOf("units"), j <= i
               PROVE  "identity" \in next.schema
    OBVIOUS
  <2>1. moreOf("register_identity") = of("register_identity") \cup
           (IF row.ok /\ "register_identity" \in row.source THEN {n + 1} ELSE {})
    BY <1>2
  <2>2. moreOf("units") = of("units") \cup (IF row.ok /\ "units" \in row.source THEN {n + 1} ELSE {})
    BY <1>2
  <2>3. of("register_identity") \subseteq 1..n /\ of("units") \subseteq 1..n
    BY <1>3
  <2>4. CASE i = n + 1
    <3>1. row.ok /\ "register_identity" \in row.source
      BY <1>1, <2>1, <2>3, <2>4
    <3>2. "units" \in next.entered
      BY <1>5
    <3> QED BY <1>4, <3>1, <3>2 DEF Register
  <2>5. CASE i # n + 1
    <3>1. i \in of("register_identity") /\ i \in 1..n
      BY <2>1, <2>3, <2>5
    <3>2. j \in of("units")
      BY <1>1, <2>2, <3>1
    <3> QED BY <1>0, <1>4, <3>1, <3>2
  <2> QED BY <2>4, <2>5
<1>8. moreOf("require") # {} => next.required
  BY <1>0, <1>2, <1>4
<1>9. next.forked => \E i \in DOMAIN more : "fork" \in more[i].source
  <2>1. CASE world.forked
    <3>1. PICK i \in DOMAIN log : "fork" \in log[i].source
      BY <1>0, <2>1
    <3> QED BY <1>1, <3>1
  <2>2. CASE row.ok /\ "fork" \in row.source
    <3>1. n + 1 \in DOMAIN more
      BY <1>1
    <3> QED BY <1>1, <2>2, <3>1
  <2> QED BY <1>4, <2>1, <2>2
<1>10. /\ next.factors \in Seq(BOOLEAN) /\ Len(next.factors) = Cardinality(moreOf("defn"))
       /\ \A i \in moreOf("defn") : (\A j \in moreOf("defn") : j <= i) =>
             Len(next.factors) > 0 /\ ("precise" \in more[i].source => next.factors[Len(next.factors)] = TRUE)
  <2>1. of("defn") \subseteq 1..n /\ IsFiniteSet(of("defn")) /\ n + 1 \notin of("defn")
    BY <1>1, <1>3
  <2>2. CASE row.ok /\ "defn" \in row.source
    <3> DEFINE precise == "precise" \in row.source
    <3>1. next.factors = Append(world.factors, precise) /\ precise \in BOOLEAN
      BY <1>4, <2>2
    <3>2. moreOf("defn") = of("defn") \cup {n + 1}
      BY <1>2, <2>2
    <3>3. Cardinality(moreOf("defn")) = Cardinality(of("defn")) + 1
      BY <2>1, <3>2, FS_AddElement
    <3>4. "precise" \in row.source => precise = TRUE
      OBVIOUS
    <3> HIDE DEF precise
    <3>5. /\ next.factors \in Seq(BOOLEAN) /\ Len(next.factors) = Len(world.factors) + 1
          /\ next.factors[Len(next.factors)] = precise /\ Len(world.factors) \in Nat
      BY <1>0, <3>1
    <3>6. \A i \in moreOf("defn") : (\A j \in moreOf("defn") : j <= i) => i = n + 1
      BY <1>1, <2>1, <3>2
    <3> QED BY <1>0, <1>1, <3>3, <3>4, <3>5, <3>6
  <2>3. CASE ~(row.ok /\ "defn" \in row.source)
    <3>1. next.factors = world.factors
      BY <1>4, <2>3
    <3>2. moreOf("defn") = of("defn")
      BY <1>2, <2>3
    <3>3. \A i \in of("defn") : more[i] = log[i]
      BY <1>1, <2>1
    <3> QED BY <1>0, <3>1, <3>2, <3>3
  <2> QED BY <2>2, <2>3
<1>11. NamespacesFit(more, next)
  BY <1>5, <1>6, <1>7, <1>8, <1>9, <1>10 DEF NamespacesFit, moreOf
<1> QED BY <1>11 DEF more, next

LEMMA DatabaseFitsGrows ==
    ASSUME NEW log \in Seq(EvalRows), NEW row \in EvalRows, NEW world, milestone = "db", DatabaseFits(log, world)
    PROVE  DatabaseFits(Append(log, row), Evaluated(world, row))
<1> DEFINE more == Append(log, row)
           n == Len(log)
           next == Evaluated(world, row)
           does(mark) == row.ok /\ mark \in row.source
<1>1. /\ n \in Nat /\ Len(more) = n + 1 /\ more[n + 1] = row
      /\ \A i \in 1..n : more[i] = log[i]
  OBVIOUS
<1>2. \A mark : OkIndices(more, mark) = OkIndices(log, mark) \cup (IF does(mark) THEN {n + 1} ELSE {})
  <2> TAKE mark
  <2> QED BY OkIndicesGrow
<1>3. \A mark : OkIndices(log, mark) \subseteq 1..n
  BY OkIndicesOfLog, Zenon
<1>4. /\ next.schema = world.schema \cup {a \in {"identity", "measure"} : does(Register[a]) /\ does("typed")}
      /\ next.stored = (world.stored \/ (does("store_all") /\ world.schema = {"identity", "measure"}))
      /\ next.recalled = (world.recalled \/ (does("query") /\ world.stored))
      /\ next.computed = (world.computed \/ (/\ does("predicate") /\ world.stored
                                             /\ does("query") \/ (does("result") /\ world.recalled)))
  <2>1. /\ next.schema = world.schema \cup
            {a \in {"identity", "measure"} :
                     /\ row.ok /\ Register[a] \in row.source
                     /\ row.ok /\ "typed" \in row.source}
        /\ next.stored = (world.stored \/ (row.ok /\ "store_all" \in row.source /\ world.schema = {"identity", "measure"}))
        /\ next.recalled = (world.recalled \/ (row.ok /\ "query" \in row.source /\ world.stored))
        /\ next.computed = (world.computed \/ (/\ row.ok /\ "predicate" \in row.source /\ world.stored
                                                  /\ \/ row.ok /\ "query" \in row.source
                                                     \/ row.ok /\ "result" \in row.source /\ world.recalled))
    BY EvaluatedParts
  <2> HIDE DEF next
  <2> QED BY <2>1
<1>5. \A a \in {"identity", "measure"} :
         Schemas(more, a) = Schemas(log, a) \cup (IF does(Register[a]) /\ does("typed") THEN {n + 1} ELSE {})
  <2> TAKE a \in {"identity", "measure"}
  <2>1. OkIndices(more, Register[a]) = OkIndices(log, Register[a]) \cup (IF does(Register[a]) THEN {n + 1} ELSE {})
    BY <1>2
  <2>2. OkIndices(log, Register[a]) \subseteq 1..n
    BY <1>3
  <2>3. \A i \in OkIndices(log, Register[a]) : more[i] = log[i] /\ i # n + 1
    BY <1>1, <2>2
  <2> HIDE DEF more, n
  <2> QED BY <1>1, <2>1, <2>3 DEF Schemas
<1>0. /\ \A a \in {"identity", "measure"} : Schemas(log, a) # {} => a \in world.schema
      /\ world.schema \subseteq {"identity", "measure"}
      /\ \A t \in 1..n : StoredBy(log, t) => world.stored
      /\ \A t, q \in 1..n : StoredBy(log, t) /\ RecalledBy(log, t, q) => world.recalled
      /\ \A t, p \in 1..n : StoredBy(log, t) /\ ComputedBy(log, t, p) => world.computed
  BY DEF DatabaseFits
<1> HIDE DEF more, n, next
<1>6. \A t \in 1..n : StoredBy(more, t) => StoredBy(log, t)
  <2> SUFFICES ASSUME NEW t \in 1..n, StoredBy(more, t) PROVE StoredBy(log, t)
    OBVIOUS
  <2>1. t # n + 1 /\ \A i : i = n + 1 => ~(i < t)
    BY <1>1
  <2>2. t \in OkIndices(log, "store_all")
    BY <1>2, <2>1 DEF StoredBy
  <2>3. (\E i \in Schemas(log, "identity") : i < t) /\ (\E i \in Schemas(log, "measure") : i < t)
    BY <1>5, <2>1 DEF StoredBy
  <2> QED BY <2>2, <2>3 DEF StoredBy
<1>7. \A t \in 1..n : StoredBy(more, t) => world.stored
  BY <1>0, <1>6
<1>8. \A a \in {"identity", "measure"} : Schemas(more, a) # {} => a \in next.schema
  <2> TAKE a \in {"identity", "measure"}
  <2>1. Schemas(more, a) = Schemas(log, a) \cup (IF does(Register[a]) /\ does("typed") THEN {n + 1} ELSE {})
    BY <1>5
  <2> HIDE DEF does
  <2> QED BY <1>0, <1>4, <2>1
<1>9. next.schema \subseteq {"identity", "measure"}
  BY <1>0, <1>4
<1>10. \A t \in 1..(n + 1) : StoredBy(more, t) => next.stored
  <2> SUFFICES ASSUME NEW t \in 1..(n + 1), StoredBy(more, t) PROVE next.stored
    OBVIOUS
  <2>1. CASE t \in 1..n
    BY <1>4, <1>7, <2>1
  <2>2. CASE t = n + 1
    <3>1. does("store_all")
      <4>1. OkIndices(log, "store_all") \subseteq 1..n
        BY <1>3
      <4>2. n + 1 \notin 1..n
        BY <1>1
      <4>3. n + 1 \in OkIndices(more, "store_all")
        BY <2>2 DEF StoredBy
      <4> HIDE DEF does
      <4> QED BY <1>2, <4>1, <4>2, <4>3
    <3>2. \A a \in {"identity", "measure"} : a \in world.schema
      <4> TAKE a \in {"identity", "measure"}
      <4>1. PICK i \in Schemas(more, a) : i < n + 1
        BY <2>2 DEF StoredBy
      <4>2. i # n + 1
        BY <1>1, <4>1
      <4>3. i \in Schemas(log, a)
        BY <1>5, <4>1, <4>2
      <4> QED BY <1>0, <4>3
    <3>3. world.schema = {"identity", "measure"}
      BY <1>0, <3>2
    <3> QED BY <1>4, <3>1, <3>3
  <2> QED BY <1>1, <2>1, <2>2
<1>11. \A t, q \in 1..(n + 1) : StoredBy(more, t) /\ RecalledBy(more, t, q) => next.recalled
  <2> SUFFICES ASSUME NEW t \in 1..(n + 1), NEW q \in 1..(n + 1), StoredBy(more, t), RecalledBy(more, t, q)
               PROVE  next.recalled
    OBVIOUS
  <2>1. t < q /\ t \in 1..n /\ q \in OkIndices(more, "query")
    BY <1>1 DEF RecalledBy
  <2>2. StoredBy(log, t) /\ world.stored
    BY <1>6, <1>7, <2>1
  <2>3. CASE q \in OkIndices(log, "query")
    <3>1. q \in 1..n
      BY <1>3, <2>3
    <3>2. RecalledBy(log, t, q)
      BY <2>1, <2>3 DEF RecalledBy
    <3> QED BY <1>0, <1>4, <2>1, <2>2, <3>1, <3>2
  <2>4. CASE q \notin OkIndices(log, "query")
    <3>1. does("query")
      BY <1>2, <2>1, <2>4
    <3> QED BY <1>4, <2>2, <3>1
  <2> QED BY <2>3, <2>4
<1>12. \A t, p \in 1..(n + 1) : StoredBy(more, t) /\ ComputedBy(more, t, p) => next.computed
  <2> SUFFICES ASSUME NEW t \in 1..(n + 1), NEW p \in 1..(n + 1), StoredBy(more, t), ComputedBy(more, t, p)
               PROVE  next.computed
    OBVIOUS
  <2>1. t < p /\ t \in 1..n /\ p \in OkIndices(more, "predicate")
    BY <1>1 DEF ComputedBy
  <2>2. StoredBy(log, t) /\ world.stored
    BY <1>6, <1>7, <2>1
  <2>3. \A q \in OkIndices(more, "query") : q # n + 1 => q \in OkIndices(log, "query") /\ q \in 1..n
    <3>1. OkIndices(log, "query") \subseteq 1..n
      BY <1>3
    <3> QED BY <1>2, <3>1
  <2>4. CASE p # n + 1
    <3>1. p \in 1..n /\ p \in OkIndices(log, "predicate") /\ more[p] = log[p]
      BY <1>1, <1>2, <2>1, <2>4
    <3>2. ComputedBy(log, t, p)
      <4>1. CASE p \in OkIndices(more, "query")
        <5>1. p \in OkIndices(log, "query")
          BY <2>3, <2>4, <4>1
        <5> QED BY <2>1, <3>1, <5>1 DEF ComputedBy
      <4>2. CASE p \notin OkIndices(more, "query")
        <5>1. PICK q \in OkIndices(more, "query") : t < q /\ q < p
          BY <4>2 DEF ComputedBy
        <5>2. "result" \in log[p].source
          BY <3>1, <4>2 DEF ComputedBy
        <5>3. q # n + 1
          BY <1>1, <3>1, <5>1
        <5>4. q \in OkIndices(log, "query")
          BY <2>3, <5>1, <5>3
        <5> QED BY <2>1, <3>1, <5>1, <5>2, <5>4 DEF ComputedBy
      <4> QED BY <4>1, <4>2
    <3> QED BY <1>0, <1>4, <2>1, <2>2, <3>1, <3>2
  <2>5. CASE p = n + 1
    <3>1. does("predicate")
      <4>1. OkIndices(log, "predicate") \subseteq 1..n /\ n + 1 \notin 1..n
        BY <1>1, <1>3
      <4> HIDE DEF does
      <4> QED BY <1>2, <2>1, <2>5, <4>1
    <3>2. CASE p \in OkIndices(more, "query")
      <4>1. OkIndices(log, "query") \subseteq 1..n /\ n + 1 \notin 1..n
        BY <1>1, <1>3
      <4>2. does("query")
        <5> HIDE DEF does
        <5> QED BY <1>2, <2>5, <3>2, <4>1
      <4> QED BY <1>4, <2>2, <3>1, <4>2
    <3>3. CASE p \notin OkIndices(more, "query")
      <4>1. PICK q \in OkIndices(more, "query") : t < q /\ q < p
        BY <3>3 DEF ComputedBy
      <4>2. "result" \in more[p].source
        BY <3>3 DEF ComputedBy
      <4>3. does("result")
        BY <1>1, <2>5, <3>1, <4>2
      <4>4. q # n + 1
        BY <1>1, <2>5, <4>1
      <4>5. q \in OkIndices(log, "query") /\ q \in 1..n
        BY <2>3, <4>1, <4>4
      <4>6. RecalledBy(log, t, q)
        BY <4>1, <4>5 DEF RecalledBy
      <4>7. world.recalled
        BY <1>0, <2>1, <2>2, <4>5, <4>6
      <4> QED BY <1>4, <2>2, <3>1, <4>3, <4>7
    <3> QED BY <3>2, <3>3
  <2> QED BY <2>4, <2>5
<1>13. DatabaseFits(more, next)
  BY <1>1, <1>8, <1>9, <1>10, <1>11, <1>12 DEF DatabaseFits
<1> QED BY <1>13 DEF more, next

LEMMA MilestoneInvNext ==
    ASSUME MilestoneInv, [MilestoneNext]_milestoneVars
    PROVE  MilestoneInv'
<1>1. CASE Evaluates
  <2>1. PICK form \in Upcoming :
           LET row == [ok |-> form.ok, source |-> form.source, turn |-> 1, at |-> Len(evals) + 1] IN
           evals' = Append(evals, row) /\ pod' = Evaluated(pod, row)
    BY <1>1 DEF Evaluates
  <2>2. UNCHANGED <<milestone, opening, over, graded>> /\ over = FALSE
    BY <1>1 DEF Evaluates, MilestoneInv
  <2> DEFINE row == [ok |-> form.ok, source |-> form.source, turn |-> 1, at |-> Len(evals) + 1]
             n == Len(evals)
  <2>3. /\ evals \in Seq(EvalRows) /\ n \in Nat /\ \A i \in 1..n : evals[i].at = i
    BY DEF MilestoneInv
  <2>4. form \in [ok : BOOLEAN, source : SUBSET Marks]
    <3>1. CASE n < Len(opening)
      <4>1. form = opening[n + 1] /\ n + 1 \in 1..Len(opening)
        BY <2>3, <3>1 DEF Upcoming, MilestoneInv
      <4>2. opening \in Seq([ok : BOOLEAN, source : SUBSET Marks])
        BY DEF MilestoneInv
      <4>3. opening[n + 1] \in [ok : BOOLEAN, source : SUBSET Marks]
        BY <4>1, <4>2, ElementOfSeq
      <4> QED BY <4>1, <4>3
    <3>2. CASE ~(n < Len(opening))
      <4>1. form \in [ok : BOOLEAN, source : Sources[milestone]]
        BY <3>2 DEF Upcoming
      <4> QED BY <4>1, FormsAreForms DEF MilestoneInv
    <3> QED BY <3>1, <3>2
  <2>5. row \in EvalRows /\ row.at = n + 1
    BY <2>3, <2>4 DEF EvalRows
  <2>6. evals' = Append(evals, row) /\ pod' = Evaluated(pod, row)
    BY <2>1
  <2> HIDE DEF row
  <2>7. evals' \in Seq(EvalRows) /\ \A i \in 1..Len(evals') : evals'[i].at = i
    <3>1. /\ evals' \in Seq(EvalRows) /\ Len(evals') = n + 1 /\ evals'[n + 1] = row
          /\ \A i \in 1..n : evals'[i] = evals[i]
      <4> DEFINE more == Append(evals, row)
      <4>1. evals \in Seq(EvalRows) /\ row \in EvalRows
        BY <2>3, <2>5
      <4>2. /\ more \in Seq(EvalRows) /\ Len(more) = n + 1 /\ more[n + 1] = row
            /\ \A i \in 1..n : more[i] = evals[i]
        BY <4>1, AppendProperties
      <4> HIDE DEF more, n
      <4> QED BY <2>6, <4>2 DEF more
    <3> HIDE DEF n
    <3> QED BY <2>3, <2>5, <3>1
  <2>8. IF milestone' = "db" THEN DatabaseFits(evals', pod') ELSE NamespacesFit(evals', pod')
    <3>1. CASE milestone = "db"
      BY <2>2, <2>3, <2>5, <2>6, <3>1, DatabaseFitsGrows DEF MilestoneInv
    <3>2. CASE milestone # "db"
      BY <2>2, <2>3, <2>5, <2>6, <3>2, NamespacesFitGrows DEF MilestoneInv
    <3> QED BY <3>1, <3>2
  <2>9. graded = {}
    BY <2>2 DEF MilestoneInv, SamplesAreOfRows
  <2> QED BY <2>2, <2>7, <2>8, <2>9 DEF MilestoneInv, SamplesAreOfRows
<1>2. CASE MilestoneSolver
  <2>1. UNCHANGED <<milestone, opening, evals, pod>> /\ over' = TRUE
    BY <1>2 DEF MilestoneSolver
  <2>2. \A given \in graded' :
           /\ given.basis = Len(evals) /\ given.snapshot = pod.facts
           /\ given.rows \in (IF milestone = "db" THEN Responses(evals, {"query", "predicate"}) ELSE {evals})
    BY <1>2 DEF MilestoneSolver
  <2> QED BY <2>1, <2>2 DEF MilestoneInv, SamplesAreOfRows
<1>3. CASE UNCHANGED milestoneVars
  BY <1>3 DEF milestoneVars, MilestoneInv, SamplesAreOfRows
<1> QED BY <1>1, <1>2, <1>3 DEF MilestoneNext

LEMMA NamespacesCredit ==
    ASSUME NEW log \in Seq(EvalRows), NEW world, NamespacesFit(log, world), NEW reply,
           LET checks == NsMovementChecks(log, reply) IN \A check \in DOMAIN checks : checks[check]
    PROVE  /\ world.entered = {"units", "convert"} /\ "identity" \in world.schema
           /\ world.required /\ ~world.forked
           /\ Len(world.factors) >= 2 /\ Last(world.factors)
<1> DEFINE checks == NsMovementChecks(log, reply)
           of(mark) == OkIndices(log, mark)
<1>1. checks.movement /\ checks.schema_after_move /\ checks.bare_require /\ checks.redefine_in_place /\ checks.no_parallel_fork
  BY DEF NsMovementChecks
<1>2. /\ of("units") # {} /\ of("convert") # {} /\ of("register_identity") # {}
      /\ Min(of("register_identity")) >= Min(of("units")) /\ of("require") # {}
      /\ Cardinality(of("defn")) >= 2 /\ "precise" \in log[Max(of("defn"))].source
      /\ \A i \in DOMAIN log : "fork" \notin log[i].source
  BY <1>1 DEF NsMovementChecks
<1>3. \A mark : of(mark) \subseteq 1..Len(log) /\ of(mark) \subseteq Nat
  BY OkIndicesOfLog
<1>4. Len(log) \in Nat
  OBVIOUS
<1> HIDE DEF checks
<1>5. world.entered = {"units", "convert"} /\ world.required /\ ~world.forked
  BY <1>2 DEF NamespacesFit
<1>6. "identity" \in world.schema
  <2>1. Min(of("register_identity")) \in of("register_identity") /\ Min(of("units")) \in of("units")
    BY <1>2, <1>3, MinOfNats
  <2>2. Min(of("register_identity")) \in Nat /\ Min(of("units")) \in Nat
    BY <1>3, <2>1
  <2> DEFINE r == Min(of("register_identity"))
             u == Min(of("units"))
  <2>3. r \in of("register_identity") /\ u \in of("units") /\ r \in Nat /\ u \in Nat /\ r >= u
    BY <1>2, <2>1, <2>2
  <2> HIDE DEF r, u
  <2>4. u <= r
    BY <2>3
  <2> QED BY <2>3, <2>4 DEF NamespacesFit
<1>7. Len(world.factors) >= 2 /\ Last(world.factors)
  <2>1. of("defn") # {}
    <3>1. Cardinality(of("defn")) >= 2
      BY <1>2
    <3> SUFFICES ASSUME of("defn") = {} PROVE FALSE
      OBVIOUS
    <3>2. Cardinality(of("defn")) = Cardinality({})
      OBVIOUS
    <3>3. Cardinality({}) = 0
      BY FS_EmptySet
    <3> HIDE DEF of
    <3> QED BY <3>1, <3>2, <3>3
  <2>2. Max(of("defn")) \in of("defn") /\ \A i \in of("defn") : i <= Max(of("defn"))
    BY <1>3, <1>4, <2>1, MaxOfIndices
  <2>3. world.factors[Len(world.factors)] = TRUE /\ Len(world.factors) >= 2
    BY <1>2, <2>2 DEF NamespacesFit
  <2> QED BY <2>3 DEF Last
<1> QED BY <1>5, <1>6, <1>7

LEMMA DatabaseCredit ==
    ASSUME NEW log \in Seq(EvalRows), NEW world, DatabaseFits(log, world), NEW given, given.rows = log,
           LET checks == StoreRecallChecks(given) IN checks.schema_register /\ checks.transact /\ checks.query_later /\ checks.compute_later
    PROVE  world.stored /\ world.recalled /\ world.computed
<1> DEFINE transacts == OkIndices(log, "store_all")
           t == Min(transacts)
           recalls == {i \in OkIndices(log, "query") : transacts # {} /\ i > t}
           q == Min(recalls)
           computes == {i \in OkIndices(log, "predicate") :
                           recalls # {} /\ i >= q /\ (i = q \/ "result" \in log[i].source)}
           regs == Schemas(log, "identity") \cup Schemas(log, "measure")
<1>1. /\ Schemas(log, "identity") # {} /\ Schemas(log, "measure") # {} /\ transacts # {} /\ Max(regs) < t
      /\ recalls # {} /\ computes # {}
  <2>1. StoreRecallChecks(given).schema_register =
           (/\ {i \in OkIndices(log, Register["identity"]) : "typed" \in log[i].source} # {}
            /\ {i \in OkIndices(log, Register["measure"]) : "typed" \in log[i].source} # {}
            /\ transacts # {}
            /\ Max({i \in OkIndices(log, Register["identity"]) : "typed" \in log[i].source}
                     \cup {i \in OkIndices(log, Register["measure"]) : "typed" \in log[i].source}) < t)
    BY Zenon DEF StoreRecallChecks
  <2>2. StoreRecallChecks(given).query_later = (recalls # {})
    BY Zenon DEF StoreRecallChecks
  <2>3. StoreRecallChecks(given).compute_later = (computes # {})
    BY Zenon DEF StoreRecallChecks
  <2> HIDE DEF transacts, t, recalls, q, computes
  <2> QED BY <2>1, <2>2, <2>3 DEF Schemas
<1>2. \A mark : OkIndices(log, mark) \subseteq 1..Len(log)
  BY OkIndicesOfLog
<1>3. Len(log) \in Nat
  OBVIOUS
<1>4. t \in transacts /\ t \in 1..Len(log)
  <2> HIDE DEF transacts
  <2>1. transacts \subseteq 1..Len(log)
    BY <1>2 DEF transacts
  <2>2. transacts \subseteq Nat /\ transacts # {}
    BY <1>1, <2>1
  <2>3. t \in transacts
    BY <2>2, MinOfNats
  <2> QED BY <2>1, <2>3
<1>5. regs \subseteq 1..Len(log)
  BY <1>2 DEF Schemas
<1> HIDE DEF t
<1>6. \A i \in regs : i < t
  <2> HIDE DEF regs
  <2> DEFINE m == Max(regs)
  <2>0. regs # {}
    BY <1>1 DEF regs
  <2>1. m \in regs /\ \A i \in regs : i <= m
    BY <1>3, <1>5, <2>0, MaxOfIndices
  <2>2. m < t
    BY <1>1
  <2> HIDE DEF m
  <2> QED BY <1>4, <1>5, <2>1, <2>2
<1>7. StoredBy(log, t)
  BY <1>1, <1>4, <1>6 DEF StoredBy
<1>8. q \in recalls /\ q \in 1..Len(log) /\ t < q /\ q \in OkIndices(log, "query")
  <2>1. recalls \subseteq 1..Len(log) /\ recalls \subseteq Nat
    BY <1>2
  <2>2. q \in recalls
    <3> HIDE DEF recalls
    <3> QED BY <1>1, <2>1, MinOfNats
  <2> HIDE DEF q
  <2> QED BY <1>4, <2>1, <2>2
<1> HIDE DEF q
<1>9. PICK p \in OkIndices(log, "predicate") : p >= q /\ (p = q \/ "result" \in log[p].source)
  BY <1>1
<1>10. p \in 1..Len(log) /\ t < p
  BY <1>2, <1>4, <1>8, <1>9
<1>11. ComputedBy(log, t, p)
  <2>1. CASE p = q
    BY <1>8, <1>9, <1>10, <2>1 DEF ComputedBy
  <2>2. CASE p # q
    <3>1. q < p
      BY <1>8, <1>9, <1>10, <2>2
    <3> QED BY <1>8, <1>9, <1>10, <2>2, <3>1 DEF ComputedBy
  <2> QED BY <2>1, <2>2
<1>12. RecalledBy(log, t, q)
  BY <1>8 DEF RecalledBy
<1> QED BY <1>4, <1>7, <1>8, <1>10, <1>11, <1>12 DEF DatabaseFits

LEMMA MilestoneCredit == MilestoneInv => MilestoneEarned
<1> SUFFICES ASSUME MilestoneInv, NEW given \in graded, CheckMilestone(milestone, given)
             PROVE  IF milestone = "db"
                    THEN given.generated =>
                            /\ pod.stored /\ pod.recalled /\ pod.computed
                            /\ pod.facts = Records
                            /\ Total(pod.facts) \in given.reply.numbers
                    ELSE /\ pod.entered = {"units", "convert"} /\ "identity" \in pod.schema
                         /\ pod.required /\ ~pod.forked
                         /\ Len(pod.factors) >= 2 /\ Last(pod.factors)
  BY DEF MilestoneEarned
<1>1. /\ evals \in Seq(EvalRows) /\ \A i \in 1..Len(evals) : evals[i].at = i
      /\ given.basis = Len(evals) /\ given.snapshot = pod.facts
      /\ given.rows \in (IF milestone = "db" THEN Responses(evals, {"query", "predicate"}) ELSE {evals})
  BY DEF MilestoneInv, SamplesAreOfRows
<1>2. CASE milestone = "db"
  <2> SUFFICES ASSUME given.generated
               PROVE  /\ pod.stored /\ pod.recalled /\ pod.computed
                      /\ pod.facts = Records
                      /\ Total(pod.facts) \in given.reply.numbers
    BY <1>2
  <2> DEFINE checks == StoreRecallChecks(given)
  <2>1. \A check \in DOMAIN checks : checks[check]
    BY <1>2 DEF CheckMilestone
  <2>2. DOMAIN checks = {"schema_register", "transact", "query_later", "compute_later", "database_readback", "complete", "answer"}
    BY Zenon DEF StoreRecallChecks
  <2>3. checks.database_readback => OrderedProofRows(given.rows, given.basis) /\ given.snapshot = Records
    BY DEF StoreRecallChecks
  <2>4. checks.answer => Total(Records) \in given.reply.numbers
    BY DEF StoreRecallChecks
  <2> HIDE DEF checks
  <2>5. /\ checks.schema_register /\ checks.transact /\ checks.query_later /\ checks.compute_later
        /\ checks.database_readback /\ checks.answer
    BY <2>1, <2>2
  <2>6. given.rows = evals
    BY <1>1, <1>2, <2>3, <2>5, ResponsesAreOrdered
  <2>7. pod.stored /\ pod.recalled /\ pod.computed
    BY <1>1, <1>2, <2>5, <2>6, DatabaseCredit DEF MilestoneInv, checks
  <2> QED BY <1>1, <2>3, <2>4, <2>5, <2>7
<1>3. CASE milestone # "db"
  <2>1. given.rows = evals
    BY <1>1, <1>3
  <2>2. LET checks == NsMovementChecks(evals, given.reply) IN \A check \in DOMAIN checks : checks[check]
    BY <1>3, <2>1 DEF CheckMilestone
  <2> QED BY <1>1, <1>3, <2>2, NamespacesCredit DEF MilestoneInv
<1> QED BY <1>2, <1>3

-----------------------------------------------------------------------------
(* PlanContinuity.                                                         *)

\* What began and what came together, said of the rows.
CloseTail(rows, k) ==
    /\ k \in Successful(rows, "close")
    /\ \A l \in k..Len(rows) : rows[l].ok => l \in Successful(rows, "close")

MannerFits(rows, m) ==
    /\ m.began \in {"nothing", "author", "work"} /\ m.together \in Nat /\ m.dumped \in BOOLEAN
    /\ m.began = "nothing" => Successful(rows, "author") = {} /\ Successful(rows, "work") = {}
    /\ m.began = "work" => \E i \in Successful(rows, "work") : \A j \in Successful(rows, "author") : i < j
    /\ m.together >= 1 => \E k \in 1..Len(rows) : CloseTail(rows, k)
    /\ m.together >= 2 => \E j, k \in 1..Len(rows) : j < k /\ CloseTail(rows, j) /\ CloseTail(rows, k)
    /\ m.dumped => \E i, j, k \in Successful(rows, "close") :
                      i < j /\ j < k /\ \A l \in i..k : rows[l].ok => l \in Successful(rows, "close")

LEMMA SuccessfulGrows ==
    ASSUME NEW rows \in Seq(PlanRows), NEW row \in PlanRows, NEW kind
    PROVE  Successful(Append(rows, row), kind) =
              Successful(rows, kind) \cup (IF row.ok /\ Classify(row) = kind THEN {Len(rows) + 1} ELSE {})
<1> DEFINE more == Append(rows, row)
<1>1. /\ Len(rows) \in Nat /\ Len(more) = Len(rows) + 1 /\ more[Len(rows) + 1] = row
      /\ \A i \in 1..Len(rows) : more[i] = rows[i]
      /\ DOMAIN more = 1..(Len(rows) + 1) /\ DOMAIN rows = 1..Len(rows)
  OBVIOUS
<1> HIDE DEF more
<1>2. Successful(more, kind) = Successful(rows, kind) \cup (IF row.ok /\ Classify(row) = kind THEN {Len(rows) + 1} ELSE {})
  BY <1>1 DEF Successful
<1> QED BY <1>2 DEF more

\* A close after closes alone.
LEMMA CloseTailGrows ==
    ASSUME NEW rows \in Seq(PlanRows), NEW row \in PlanRows, ~row.ok \/ Classify(row) = "close"
    PROVE  /\ row.ok => CloseTail(Append(rows, row), Len(rows) + 1)
           /\ \A k \in 1..Len(rows) : CloseTail(rows, k) => CloseTail(Append(rows, row), k)
<1> DEFINE more == Append(rows, row)
           n == Len(rows)
<1>1. /\ n \in Nat /\ Len(more) = n + 1 /\ more[n + 1] = row
      /\ \A i \in 1..n : more[i] = rows[i]
  OBVIOUS
<1>2. Successful(more, "close") = Successful(rows, "close") \cup (IF row.ok THEN {n + 1} ELSE {})
  <2>1. Successful(more, "close") =
           Successful(rows, "close") \cup (IF row.ok /\ Classify(row) = "close" THEN {n + 1} ELSE {})
    BY SuccessfulGrows, Zenon
  <2> QED BY <2>1
<1> HIDE DEF more, n
<1>3. row.ok => CloseTail(more, n + 1)
  BY <1>1, <1>2 DEF CloseTail
<1>4. ASSUME NEW k \in 1..n, CloseTail(rows, k) PROVE CloseTail(more, k)
  <2>1. ASSUME NEW l \in k..Len(more), more[l].ok PROVE l \in Successful(more, "close")
    <3>1. CASE l = n + 1
      BY <1>1, <1>2, <2>1, <3>1
    <3>2. CASE l \in k..n
      BY <1>1, <1>2, <1>4, <2>1, <3>2 DEF CloseTail, n
    <3> QED BY <1>1, <3>1, <3>2
  <2> QED BY <1>2, <1>4, <2>1 DEF CloseTail
<1> QED BY <1>3, <1>4 DEF more, n

\* A row that looks like what it did is classified by what it did.
LEMMA DeedIsSeen ==
    ASSUME NEW row \in PlanRows, row.ok, AsItLooks(row)
    PROVE  /\ Classify(row) \in {"author", "work", "close"} => Deed(row) = Classify(row)
           /\ Deed(row) \in {"author", "work", "close"} => Deed(row) = Classify(row)
<1>1. ~("authors" \in {"closes"}) /\ ~("works" \in {"closes"})
  OBVIOUS
<1>2. CASE row.prose
  <2>1. row.does = {} /\ row.does # {"closes"}
    BY <1>2 DEF AsItLooks
  <2> QED BY <1>2, <2>1 DEF Classify, Deed
<1>3. CASE ~row.prose
  <2>1. /\ row.head = "done" <=> row.does = {"closes"}
        /\ row.head # "done" => (row.names <=> "authors" \in row.does)
        /\ row.head = "chatter" => "works" \notin row.does
        /\ row.head = "work" /\ ~row.names => "works" \in row.does
    BY <1>3 DEF AsItLooks
  <2>2. row.head \in {"done", "chatter", "work"} /\ row.names \in BOOLEAN
    BY DEF PlanRows
  <2>3. CASE row.head = "done"
    <3>1. "authors" \notin row.does /\ row.does = {"closes"}
      BY <1>1, <2>1, <2>3
    <3> QED BY <1>3, <2>3, <3>1 DEF Classify, Deed
  <2>4. CASE row.head # "done" /\ row.names
    BY <1>3, <2>1, <2>4 DEF Classify, Deed
  <2>5. CASE row.head = "chatter" /\ ~row.names
    BY <1>3, <2>1, <2>5 DEF Classify, Deed
  <2>6. CASE row.head = "work" /\ ~row.names
    BY <1>3, <2>1, <2>6 DEF Classify, Deed
  <2> QED BY <2>2, <2>3, <2>4, <2>5, <2>6
<1> QED BY <1>2, <1>3 DEF PlanRows

LEMMA MannerFitsGrows ==
    ASSUME NEW rows \in Seq(PlanRows), NEW row \in PlanRows, NEW m, MannerFits(rows, m), AsItLooks(row)
    PROVE  MannerFits(Append(rows, row), Manner(m, row))
<1> DEFINE more == Append(rows, row)
           n == Len(rows)
           next == Manner(m, row)
           of(kind) == Successful(rows, kind)
           moreOf(kind) == Successful(more, kind)
<1>1. /\ n \in Nat /\ Len(more) = n + 1 /\ more[n + 1] = row
      /\ \A i \in 1..n : more[i] = rows[i]
  OBVIOUS
<1>2. \A kind : moreOf(kind) = of(kind) \cup (IF row.ok /\ Classify(row) = kind THEN {n + 1} ELSE {})
  BY SuccessfulGrows, Zenon
<1>3. \A kind : of(kind) \subseteq 1..n
  BY DEF Successful
<1>4. CASE ~row.ok
  <2>1. next.began = m.began /\ next.together = m.together /\ next.dumped = m.dumped
    BY <1>4 DEF Manner, MannerFits
  <2>2. \A kind : moreOf(kind) = of(kind)
    BY <1>2, <1>4
  <2>3. \A k \in 1..n : CloseTail(rows, k) => CloseTail(more, k)
    BY <1>4, CloseTailGrows
  <2> HIDE DEF more, n, next
  <2>4. m.dumped => \E i, j, k \in moreOf("close") :
           i < j /\ j < k /\ \A l \in i..k : more[l].ok => l \in moreOf("close")
    <3> SUFFICES ASSUME m.dumped PROVE \E i, j, k \in moreOf("close") :
           i < j /\ j < k /\ \A l \in i..k : more[l].ok => l \in moreOf("close")
      OBVIOUS
    <3>1. PICK i \in of("close"), j \in of("close"), k \in of("close") :
             i < j /\ j < k /\ \A l \in i..k : rows[l].ok => l \in of("close")
      BY DEF MannerFits
    <3>3. of("close") \subseteq 1..n
      BY <1>3
    <3>2. \A l \in i..k : l \in 1..n
      BY <1>1, <3>1, <3>3
    <3> QED BY <1>1, <2>2, <3>1, <3>2
  <2>5. 1..n \subseteq 1..Len(more)
    BY <1>1
  <2>6. m.together >= 1 => \E k \in 1..Len(more) : CloseTail(more, k)
    BY <2>3, <2>5 DEF MannerFits, n
  <2>7. m.together >= 2 => \E j, k \in 1..Len(more) : j < k /\ CloseTail(more, j) /\ CloseTail(more, k)
    BY <2>3, <2>5 DEF MannerFits, n
  <2>8. /\ m.began = "nothing" => moreOf("author") = {} /\ moreOf("work") = {}
        /\ m.began = "work" => \E i \in moreOf("work") : \A j \in moreOf("author") : i < j
        /\ m.began \in {"nothing", "author", "work"} /\ m.together \in Nat /\ m.dumped \in BOOLEAN
    BY <2>2 DEF MannerFits
  <2> HIDE DEF moreOf
  <2>9. MannerFits(more, next)
    BY <2>1, <2>4, <2>6, <2>7, <2>8 DEF MannerFits, moreOf
  <2> QED BY <2>9 DEF more, next
<1>5. CASE row.ok
  <2>1. /\ next.began = IF m.began = "nothing" /\ Classify(row) \in {"author", "work"} THEN Classify(row) ELSE m.began
        /\ next.together = IF Classify(row) = "close" THEN m.together + 1 ELSE 0
        /\ next.dumped = (m.dumped \/ (Classify(row) = "close" /\ m.together = 2))
    <3>1. /\ next.began = IF m.began = "nothing" /\ Deed(row) \in {"author", "work"}
                          THEN Deed(row) ELSE m.began
          /\ next.together = IF Deed(row) = "close" THEN m.together + 1 ELSE 0
          /\ next.dumped = (m.dumped \/ (Deed(row) = "close" /\ m.together = 2))
      <4>1. Deed(row) # "none"
        BY DEF Deed
      <4> QED BY <1>5, <4>1 DEF Manner
    <3>2. /\ Classify(row) \in {"author", "work", "close"} => Deed(row) = Classify(row)
          /\ Deed(row) \in {"author", "work", "close"} => Deed(row) = Classify(row)
      BY <1>5, DeedIsSeen
    <3> QED BY <3>1, <3>2
  <2>2. Classify(row) = "close" => CloseTail(more, n + 1) /\ \A k \in 1..n : CloseTail(rows, k) => CloseTail(more, k)
    BY <1>5, CloseTailGrows
  <2> HIDE DEF more, n, next
  <2>3. next.began \in {"nothing", "author", "work"} /\ next.together \in Nat /\ next.dumped \in BOOLEAN
    BY <2>1 DEF MannerFits, PlanRows
  <2>4. next.began = "nothing" => moreOf("author") = {} /\ moreOf("work") = {}
    BY <1>2, <2>1 DEF MannerFits, PlanRows
  <2>5. next.began = "work" => \E i \in moreOf("work") : \A j \in moreOf("author") : i < j
    <3> SUFFICES ASSUME next.began = "work" PROVE \E i \in moreOf("work") : \A j \in moreOf("author") : i < j
      OBVIOUS
    <3>1. CASE m.began = "work"
      <4>1. PICK i \in of("work") : \A j \in of("author") : i < j
        BY <3>1 DEF MannerFits
      <4>2. i \in moreOf("work") /\ i < n + 1
        BY <1>1, <1>2, <1>3, <4>1
      <4>3. \A j \in moreOf("author") : i < j
        BY <1>2, <4>1, <4>2
      <4> QED BY <4>2, <4>3
    <3>2. CASE m.began # "work"
      <4>1. m.began = "nothing" /\ Classify(row) = "work"
        BY <2>1, <3>2
      <4>2. of("author") = {} /\ moreOf("author") = {}
        BY <1>2, <4>1 DEF MannerFits
      <4>3. n + 1 \in moreOf("work")
        BY <1>2, <1>5, <4>1
      <4> QED BY <4>2, <4>3
    <3> QED BY <3>1, <3>2
  <2>6. next.together >= 1 => \E k \in 1..Len(more) : CloseTail(more, k)
    <3>1. Classify(row) # "close" => ~(next.together >= 1)
      BY <2>1
    <3>2. n + 1 \in 1..Len(more)
      BY <1>1
    <3> QED BY <2>2, <3>1, <3>2
  <2>7. next.together >= 2 => \E j, k \in 1..Len(more) : j < k /\ CloseTail(more, j) /\ CloseTail(more, k)
    <3> SUFFICES ASSUME next.together >= 2
                 PROVE \E j, k \in 1..Len(more) : j < k /\ CloseTail(more, j) /\ CloseTail(more, k)
      OBVIOUS
    <3>1. Classify(row) = "close" /\ m.together >= 1
      BY <2>1 DEF MannerFits
    <3>2. PICK j \in 1..n : CloseTail(rows, j)
      BY <3>1 DEF MannerFits, n
    <3>3. j \in 1..Len(more) /\ n + 1 \in 1..Len(more) /\ j < n + 1
      BY <1>1
    <3> QED BY <2>2, <3>1, <3>2, <3>3
  <2>8. next.dumped => \E i, j, k \in moreOf("close") :
           i < j /\ j < k /\ \A l \in i..k : more[l].ok => l \in moreOf("close")
    <3>1. CASE m.dumped
      <4>1. PICK i \in of("close"), j \in of("close"), k \in of("close") :
               i < j /\ j < k /\ \A l \in i..k : rows[l].ok => l \in of("close")
        BY <3>1 DEF MannerFits
      <4>5. of("close") \subseteq 1..n
        BY <1>3
      <4>2. \A l \in i..k : l \in 1..n
        BY <1>1, <4>1, <4>5
      <4>3. i \in moreOf("close") /\ j \in moreOf("close") /\ k \in moreOf("close")
        BY <1>2, <4>1
      <4>4. \A l \in i..k : more[l].ok => l \in moreOf("close")
        BY <1>1, <1>2, <4>1, <4>2
      <4> QED BY <4>1, <4>3, <4>4
    <3>2. CASE Classify(row) = "close" /\ m.together = 2
      <4>1. PICK i \in 1..n, j \in 1..n : i < j /\ CloseTail(rows, i) /\ CloseTail(rows, j)
        BY <3>2 DEF MannerFits, n
      <4>2. CloseTail(more, i) /\ CloseTail(more, j) /\ CloseTail(more, n + 1)
        BY <2>2, <3>2, <4>1
      <4>3. j < n + 1 /\ Len(more) = n + 1
        BY <1>1
      <4>4. i \in moreOf("close") /\ j \in moreOf("close") /\ n + 1 \in moreOf("close")
        BY <4>2 DEF CloseTail
      <4>5. \A l \in i..(n + 1) : more[l].ok => l \in moreOf("close")
        BY <4>2, <4>3 DEF CloseTail
      <4> QED BY <4>1, <4>3, <4>4, <4>5
    <3> QED BY <2>1, <3>1, <3>2
  <2> HIDE DEF moreOf
  <2>9. MannerFits(more, next)
    BY <2>3, <2>4, <2>5, <2>6, <2>7, <2>8 DEF MannerFits, moreOf
  <2> QED BY <2>9 DEF more, next
<1> QED BY <1>4, <1>5 DEF PlanRows

\* How the rows went about it, row by row.
LEMMA MannerOfRows ==
    ASSUME NEW rows \in Seq(PlanRows)
    PROVE  \E after : /\ after = [i \in 0..Len(rows) |-> IF i = 0 THEN FreshManner ELSE Manner(after[i - 1], rows[i])]
                      /\ MannerOf(rows) = after[Len(rows)]
<1> DEFINE Follows(f, n) == f = [i \in 0..n |-> IF i = 0 THEN FreshManner ELSE Manner(f[i - 1], rows[i])]
           S == {n \in Nat : \E f : Follows(f, n)}
<1>1. 0 \in S
  <2>1. Follows([i \in 0..0 |-> FreshManner], 0)
    OBVIOUS
  <2> QED BY <2>1
<1>2. ASSUME NEW n \in Nat, n \in S PROVE n + 1 \in S
  <2>1. PICK f : Follows(f, n)
    BY <1>2
  <2> DEFINE g == [i \in 0..(n + 1) |-> IF i = n + 1 THEN Manner(f[n], rows[n + 1]) ELSE f[i]]
  <2>2. ASSUME NEW i \in 0..(n + 1) PROVE g[i] = IF i = 0 THEN FreshManner ELSE Manner(g[i - 1], rows[i])
    <3>1. CASE i = n + 1
      <4>1. i - 1 = n /\ n \in 0..(n + 1) /\ n # n + 1 /\ i # 0
        BY <3>1
      <4>2. g[i - 1] = f[n]
        BY <4>1
      <4> QED BY <3>1, <4>1, <4>2
    <3>2. CASE i = 0
      BY <2>1, <3>2
    <3>3. CASE i \in 1..n
      <4>1. g[i] = f[i] /\ g[i - 1] = f[i - 1]
        BY <3>3
      <4>2. f[i] = Manner(f[i - 1], rows[i])
        BY <2>1, <3>3
      <4> QED BY <3>3, <4>1, <4>2
    <3> QED BY <3>1, <3>2, <3>3
  <2>3. g = [i \in 0..(n + 1) |-> IF i = 0 THEN FreshManner ELSE Manner(g[i - 1], rows[i])]
    <3> HIDE DEF g
    <3>1. g = [i \in 0..(n + 1) |-> g[i]]
      BY DEF g
    <3> QED BY <2>2, <3>1
  <2>4. Follows(g, n + 1)
    BY <2>3
  <2> HIDE DEF g, Follows
  <2> QED BY <2>4
<1>3. \E f : Follows(f, Len(rows))
  <2>1. Len(rows) \in S
    <3> HIDE DEF S
    <3> QED BY <1>1, <1>2, NatInductionInSet
  <2> QED BY <2>1
<1> DEFINE after == CHOOSE f : Follows(f, Len(rows))
<1>4. Follows(after, Len(rows))
  <2> HIDE DEF Follows
  <2> QED BY <1>3
<1>5. MannerOf(rows) = after[Len(rows)]
  BY DEF MannerOf
<1> HIDE DEF after
<1> QED BY <1>4, <1>5

LEMMA MannerOfFits ==
    ASSUME NEW rows \in Seq(PlanRows)
    PROVE  ~MannerOf(rows).misled => MannerFits(rows, MannerOf(rows))
<1>1. PICK after : /\ after = [i \in 0..Len(rows) |-> IF i = 0 THEN FreshManner ELSE Manner(after[i - 1], rows[i])]
                   /\ MannerOf(rows) = after[Len(rows)]
  BY MannerOfRows
<1> DEFINE S == {n \in Nat : n <= Len(rows) /\ ~after[n].misled => MannerFits(SubSeq(rows, 1, n), after[n])}
<1>2. 0 \in S
  <2>1. after[0] = FreshManner
    BY <1>1
  <2>2. SubSeq(rows, 1, 0) = <<>>
    BY SubSeqEmpty
  <2>3. \A kind : Successful(<<>>, kind) = {}
    BY DEF Successful
  <2>4. MannerFits(<<>>, FreshManner)
    BY <2>3 DEF MannerFits, FreshManner
  <2> QED BY <2>1, <2>2, <2>4
<1>3. ASSUME NEW n \in Nat, n \in S PROVE n + 1 \in S
  <2> SUFFICES ASSUME n + 1 <= Len(rows), ~after[n + 1].misled
               PROVE  MannerFits(SubSeq(rows, 1, n + 1), after[n + 1])
    OBVIOUS
  <2>2. n + 1 \in 0..Len(rows) /\ n + 1 # 0 /\ (n + 1) - 1 = n
    OBVIOUS
  <2>3. after[n + 1] = Manner(after[n], rows[n + 1])
    BY <1>1, <2>2
  <2>6. ~after[n].misled /\ AsItLooks(rows[n + 1])
    <3>1. after[n + 1].misled = (after[n].misled \/ ~AsItLooks(rows[n + 1]))
      BY <2>3 DEF Manner
    <3> QED BY <3>1
  <2>1. MannerFits(SubSeq(rows, 1, n), after[n])
    BY <1>3, <2>6
  <2>4. SubSeq(rows, 1, n) \in Seq(PlanRows) /\ rows[n + 1] \in PlanRows
    BY SubSeqProperties
  <2>5. SubSeq(rows, 1, n + 1) = Append(SubSeq(rows, 1, n), rows[n + 1])
    <3>1. SubSeq(rows, 1, n + 1) = SubSeq(rows, 1, n) \o <<rows[n + 1]>>
      BY <2>2, SubSeqRecursiveSecond
    <3> QED BY <2>4, <3>1, AppendIsConcat
  <2> QED BY <2>1, <2>3, <2>4, <2>5, <2>6, MannerFitsGrows
<1>4. Len(rows) \in S
  <2> HIDE DEF S
  <2> QED BY <1>2, <1>3, NatInductionInSet
<1>5. ~after[Len(rows)].misled => MannerFits(SubSeq(rows, 1, Len(rows)), after[Len(rows)])
  BY <1>4
<1> QED BY <1>1, <1>5, SubSeqFull

\* What a row is credited with: decomposing first was not begun with work.
LEMMA MannerOfCredit ==
    ASSUME NEW rows \in Seq(PlanRows), NEW m, MannerFits(rows, m), DecomposeFirst(rows), CloseAdjacency(rows)
    PROVE  m.began = "author" /\ ~m.dumped
<1>1. \A kind : Successful(rows, kind) \in SUBSET Nat
  BY DEF Successful
<1>2. m.began # "nothing"
  BY DEF MannerFits, DecomposeFirst
<1>3. m.began # "work"
  <2> SUFFICES ASSUME m.began = "work" PROVE FALSE
    OBVIOUS
  <2> DEFINE authors == Successful(rows, "author")
             works == Successful(rows, "work")
  <2>1. PICK i \in works : \A j \in authors : i < j
    BY DEF MannerFits
  <2>2. authors # {} /\ Min(authors) < Min(works)
    BY <2>1 DEF DecomposeFirst
  <2>3. authors \in SUBSET Nat /\ works \in SUBSET Nat
    BY <1>1
  <2> HIDE DEF authors, works
  <2>4. Min(authors) \in authors /\ Min(works) \in works /\ Min(works) <= i
    BY <2>1, <2>2, <2>3, MinOfNats
  <2> DEFINE a == Min(authors)
             w == Min(works)
  <2>5. a \in Nat /\ w \in Nat /\ i \in Nat /\ i < a /\ a < w /\ w <= i
    BY <2>1, <2>2, <2>3, <2>4
  <2> HIDE DEF a, w
  <2> QED BY <2>5
<1>4. ~m.dumped
  BY DEF MannerFits, CloseAdjacency
<1> QED BY <1>2, <1>3, <1>4 DEF MannerFits

-----------------------------------------------------------------------------
\* The instant the plan is judged by, once it is read.
Instant == IF planPhase = "phase1" THEN clock ELSE interruptedAt

PlanTypes ==
    /\ planPhase \in {"phase1", "interrupted", "phase2", "read"}
    /\ clock \in Nat /\ clock >= 2 /\ interruptedAt \in Nat
    /\ planPhase = "phase1" \/ (interruptedAt >= 2 /\ interruptedAt <= clock)
    /\ steps \in Seq(PlanSteps) /\ rowsRun \in Seq(PlanRows)
    /\ \A s \in DOMAIN steps : steps[s].created <= clock /\ steps[s].completed <= clock
    /\ wiped \in BOOLEAN /\ (wiped => planPhase \in {"phase2", "read"})
    /\ IsFiniteSet(laid)

\* A step of before the restart is one the first phase laid, and one that was
\* not closed after it was closed before the instant is over; an empty database
\* has none.
StepsAreOfTheirPhase ==
    /\ ~wiped => \A s \in DOMAIN steps :
          /\ steps[s].status = "done" /\ s \notin finishedAfter => steps[s].completed <= Instant
          /\ planPhase # "phase1" /\ ~steps[s].message /\ steps[s].created < Instant => s \in laid
    /\ wiped => \A s \in DOMAIN steps : steps[s].created >= interruptedAt

ContinuityInv ==
    PlanTypes /\ StepsAreOfTheirPhase /\ (~wiped /\ ~manner.misled => MannerFits(rowsRun, manner))

\* What a plan's steps are.
LEMMA StepsHaveInstants ==
    ASSUME NEW snapshot \in Seq(PlanSteps)
    PROVE  \A s \in DOMAIN snapshot : snapshot[s].created \in Nat /\ snapshot[s].completed \in Nat
<1> TAKE s \in DOMAIN snapshot
<1>1. snapshot[s] \in PlanSteps
  OBVIOUS
<1> QED BY <1>1 DEF PlanSteps

LEMMA ContinuityInvStarts == PlanInit => ContinuityInv
<1> SUFFICES ASSUME PlanInit PROVE ContinuityInv
  OBVIOUS
<1>1. PICK plan \in Plans : steps = plan.steps /\ rowsRun = plan.evals
  BY DEF PlanInit
<1>2. /\ steps \in Seq(PlanSteps) /\ rowsRun \in Seq(PlanRows)
      /\ \A s \in DOMAIN steps : steps[s].created < 2 /\ steps[s].completed < 2
  BY <1>1, PlansAreEarlier
<1>3. \A s \in DOMAIN steps : steps[s].created \in Nat /\ steps[s].completed \in Nat
  BY <1>2, StepsHaveInstants
<1>7. /\ planPhase = "phase1" /\ clock = 2 /\ interruptedAt = 0 /\ laid = {} /\ wiped = FALSE
      /\ manner = MannerOf(rowsRun)
  BY DEF PlanInit, Never
<1>8. \A s \in DOMAIN steps : steps[s].created <= 2 /\ steps[s].completed <= 2
  BY <1>2, <1>3
<1>4. PlanTypes
  <2>1. IsFiniteSet(laid)
    BY <1>7, FS_EmptySet
  <2>2. wiped \in BOOLEAN /\ ~wiped
    BY <1>7
  <2>3. clock \in Nat /\ clock >= 2 /\ interruptedAt \in Nat /\ planPhase = "phase1"
    BY <1>7
  <2>4. \A s \in DOMAIN steps : steps[s].created <= clock /\ steps[s].completed <= clock
    BY <1>7, <1>8
  <2> QED BY <1>2, <2>1, <2>2, <2>3, <2>4 DEF PlanTypes
<1>5. StepsAreOfTheirPhase
  BY <1>7, <1>8 DEF StepsAreOfTheirPhase, Instant
<1>6. ~manner.misled => MannerFits(rowsRun, manner)
  BY <1>2, MannerOfFits DEF PlanInit
<1> QED BY <1>4, <1>5, <1>6 DEF ContinuityInv

\* What the agent runs is told by how it went about it.
LEMMA RowsRun ==
    ASSUME ContinuityInv, NEW row \in PlanRows, rowsRun' = Append(rowsRun, row),
           manner' = Manner(manner, row), wiped' = wiped
    PROVE  rowsRun' \in Seq(PlanRows) /\ (~wiped' /\ ~manner'.misled => MannerFits(rowsRun', manner'))
<1>1. rowsRun \in Seq(PlanRows)
  BY DEF ContinuityInv, PlanTypes
<1>2. manner'.misled = (manner.misled \/ ~AsItLooks(row))
  BY DEF Manner
<1>3. ~wiped /\ ~manner'.misled => MannerFits(Append(rowsRun, row), Manner(manner, row))
  BY <1>1, <1>2, MannerFitsGrows DEF ContinuityInv
<1> QED BY <1>1, <1>3

\* A step that is laid now is the plan's last.
LEMMA StepGrows ==
    ASSUME ContinuityInv, NEW parent \in {NoParent} \cup DOMAIN steps, NEW message \in BOOLEAN,
           NEW grown, grown = Append(steps, [parent |-> parent, created |-> clock, status |-> "open",
                                             completed |-> Never, message |-> message])
    PROVE  /\ grown \in Seq(PlanSteps) /\ DOMAIN grown = DOMAIN steps \cup {Len(steps) + 1}
           /\ \A s \in DOMAIN steps : grown[s] = steps[s] /\ s # Len(steps) + 1
           /\ grown[Len(steps) + 1].created = clock /\ grown[Len(steps) + 1].completed = 0
           /\ grown[Len(steps) + 1].status = "open"
<1> DEFINE laidStep == [parent |-> parent, created |-> clock, status |-> "open", completed |-> Never,
                    message |-> message]
           n == Len(steps)
<1>1. steps \in Seq(PlanSteps) /\ clock \in Nat
  BY DEF ContinuityInv, PlanTypes
<1>2. n \in Nat /\ DOMAIN steps = 1..n
  BY <1>1
<1>3. laidStep \in PlanSteps
  <2>1. parent \in Nat
    BY <1>2 DEF NoParent
  <2> QED BY <1>1, <2>1 DEF PlanSteps, Never
<1>4. laidStep.created = clock /\ laidStep.completed = 0 /\ laidStep.status = "open"
  BY DEF Never
<1>5. grown = Append(steps, laidStep)
  OBVIOUS
<1> HIDE DEF laidStep
<1>6. /\ grown \in Seq(PlanSteps) /\ Len(grown) = n + 1 /\ grown[n + 1] = laidStep
      /\ \A s \in 1..n : grown[s] = steps[s]
  BY <1>1, <1>3, <1>5, AppendProperties
<1>7. DOMAIN grown = 1..(n + 1)
  BY <1>6
<1> QED BY <1>2, <1>4, <1>6, <1>7

\* The plan stays of its phase when steps are laid now, and closed now.
LEMMA PlanStays ==
    ASSUME ContinuityInv, UNCHANGED <<planPhase, clock, interruptedAt, laid, wiped>>,
           steps' \in Seq(PlanSteps), NEW laidNow, DOMAIN steps' = DOMAIN steps \cup laidNow,
           NEW closing, finishedAfter' = IF planPhase = "phase2" THEN finishedAfter \cup closing
                                                                 ELSE finishedAfter,
           planPhase \in {"phase1", "phase2"},
           \A s \in DOMAIN steps' :
              /\ s \in DOMAIN steps \ laidNow =>
                    steps'[s].created = steps[s].created /\ steps'[s].message = steps[s].message
              /\ s \in laidNow => steps'[s].created = clock
              /\ s \in closing => steps'[s].completed = clock
              /\ s \notin closing /\ s \in laidNow => steps'[s].completed = 0 /\ steps'[s].status = "open"
              /\ s \notin closing /\ s \notin laidNow => steps'[s] = steps[s],
           rowsRun' \in Seq(PlanRows), ~wiped' /\ ~manner'.misled => MannerFits(rowsRun', manner')
    PROVE  ContinuityInv'
<1>1. /\ clock \in Nat /\ clock >= 2 /\ interruptedAt \in Nat
      /\ planPhase = "phase1" \/ interruptedAt <= clock
      /\ \A s \in DOMAIN steps : steps[s].created <= clock /\ steps[s].completed <= clock
  BY DEF ContinuityInv, PlanTypes
<1>2. \A s \in DOMAIN steps' : steps'[s].created <= clock /\ steps'[s].completed <= clock
  BY <1>1
<1>3. PlanTypes'
  BY <1>2 DEF ContinuityInv, PlanTypes
<1>4. /\ Instant' = Instant /\ Instant \in Nat /\ Instant <= clock
      /\ planPhase = "phase1" => Instant = clock
  BY <1>1 DEF Instant
<1>5. ASSUME ~wiped, NEW s \in DOMAIN steps', steps'[s].status = "done", s \notin finishedAfter'
      PROVE  steps'[s].completed <= Instant
  <2>1. CASE s \in closing
    <3>1. planPhase = "phase1"
      BY <1>5, <2>1
    <3> QED BY <1>1, <1>4, <2>1, <3>1
  <2>2. CASE s \notin closing
    <3>1. s \notin laidNow
      BY <1>5, <2>2
    <3>2. steps'[s] = steps[s] /\ s \in DOMAIN steps /\ s \notin finishedAfter
      BY <1>5, <2>2, <3>1
    <3> QED BY <1>5, <3>2 DEF ContinuityInv, StepsAreOfTheirPhase
  <2> QED BY <2>1, <2>2
<1>6. ASSUME ~wiped, NEW s \in DOMAIN steps', planPhase # "phase1", ~steps'[s].message,
             steps'[s].created < Instant
      PROVE  s \in laid
  <2>1. s \notin laidNow
    BY <1>1, <1>4, <1>6
  <2>2. /\ s \in DOMAIN steps
        /\ steps'[s].created = steps[s].created /\ steps'[s].message = steps[s].message
    BY <2>1
  <2> QED BY <1>6, <2>2 DEF ContinuityInv, StepsAreOfTheirPhase
<1>7. ASSUME wiped, NEW s \in DOMAIN steps' PROVE steps'[s].created >= interruptedAt
  <2>1. CASE s \in laidNow
    <3>1. planPhase # "phase1"
      BY <1>7 DEF ContinuityInv, PlanTypes
    <3> QED BY <1>1, <2>1, <3>1
  <2>2. CASE s \notin laidNow
    BY <1>7, <2>2 DEF ContinuityInv, StepsAreOfTheirPhase
  <2> QED BY <2>1, <2>2
<1>8. StepsAreOfTheirPhase'
  BY <1>4, <1>5, <1>6, <1>7 DEF StepsAreOfTheirPhase
<1> QED BY <1>3, <1>8 DEF ContinuityInv

LEMMA RunsFormKeeps == ASSUME ContinuityInv, RunsForm PROVE ContinuityInv'
<1>1. PICK row \in PlanForms, parent \in {NoParent} \cup DOMAIN steps :
        /\ \E closing \in SUBSET Open(Grown(row, parent)) :
              /\ steps' = ClosedAt(Grown(row, parent), closing)
              /\ finishedAfter' = IF planPhase = "phase2" THEN finishedAfter \cup closing ELSE finishedAfter
        /\ rowsRun' = Append(rowsRun, row) /\ manner' = Manner(manner, row)
  BY DEF RunsForm
<1>2. PICK closing \in SUBSET Open(Grown(row, parent)) :
        /\ steps' = ClosedAt(Grown(row, parent), closing)
        /\ finishedAfter' = IF planPhase = "phase2" THEN finishedAfter \cup closing ELSE finishedAfter
  BY <1>1
<1>3. UNCHANGED <<planPhase, clock, interruptedAt, laid, wiped>> /\ planPhase \in {"phase1", "phase2"}
  BY DEF RunsForm, Acting
<1> DEFINE grown == Grown(row, parent)
           laidNow == IF "authors" \in row.does THEN {Len(steps) + 1} ELSE {}
<1>4. steps \in Seq(PlanSteps) /\ clock \in Nat
  BY DEF ContinuityInv, PlanTypes
<1>5. /\ grown \in Seq(PlanSteps) /\ DOMAIN grown = DOMAIN steps \cup laidNow
      /\ \A s \in DOMAIN steps : grown[s] = steps[s] /\ s \notin laidNow
      /\ \A s \in laidNow : grown[s].created = clock /\ grown[s].completed = 0 /\ grown[s].status = "open"
  <2>1. CASE "authors" \in row.does
    <3>1. grown = Append(steps, [parent |-> parent, created |-> clock, status |-> "open",
                                 completed |-> Never, message |-> FALSE])
      BY <2>1 DEF Grown
    <3> HIDE DEF grown
    <3>2. /\ grown \in Seq(PlanSteps) /\ DOMAIN grown = DOMAIN steps \cup {Len(steps) + 1}
          /\ \A s \in DOMAIN steps : grown[s] = steps[s] /\ s # Len(steps) + 1
          /\ grown[Len(steps) + 1].created = clock /\ grown[Len(steps) + 1].completed = 0
          /\ grown[Len(steps) + 1].status = "open"
      BY <3>1, StepGrows
    <3> QED BY <2>1, <3>2
  <2>2. CASE "authors" \notin row.does
    BY <1>4, <2>2 DEF Grown
  <2> QED BY <2>1, <2>2
<1>6. steps' = [s \in DOMAIN grown |->
                  IF s \in closing THEN [grown[s] EXCEPT !.status = "done", !.completed = clock] ELSE grown[s]]
  BY <1>2 DEF ClosedAt
<1> HIDE DEF grown, laidNow
<1>7. \A s \in DOMAIN grown :
         LET closed == [grown[s] EXCEPT !.status = "done", !.completed = clock] IN
         /\ grown[s] \in PlanSteps /\ closed \in PlanSteps
         /\ closed.created = grown[s].created /\ closed.message = grown[s].message
         /\ closed.completed = clock
  <2>1. \A s \in DOMAIN grown : grown[s] \in PlanSteps
    BY <1>5
  <2> QED BY <1>4, <2>1 DEF PlanSteps
<1>8. DOMAIN steps' = DOMAIN grown
  BY <1>6
<1>9. steps' \in Seq(PlanSteps)
  <2>4. grown \in Seq(PlanSteps)
    BY <1>5
  <2>1. Len(grown) \in Nat /\ DOMAIN grown = 1..Len(grown)
    BY <2>4
  <2>2. \A s \in DOMAIN grown : steps'[s] \in PlanSteps
    BY <1>6, <1>7
  <2>3. steps' \in [1..Len(grown) -> PlanSteps]
    BY <1>6, <2>1, <2>2
  <2> QED BY <2>1, <2>3
<1>10. \A s \in DOMAIN steps' :
          /\ steps'[s].created = grown[s].created /\ steps'[s].message = grown[s].message
          /\ s \in closing => steps'[s].completed = clock
          /\ s \notin closing => steps'[s] = grown[s]
  BY <1>6, <1>7, <1>8
<1>11. rowsRun' \in Seq(PlanRows) /\ (~wiped' /\ ~manner'.misled => MannerFits(rowsRun', manner'))
  BY <1>1, <1>3, PlanFormsAreRows, RowsRun
<1>12. \A s \in DOMAIN steps' :
          /\ s \in DOMAIN steps \ laidNow =>
                steps'[s].created = steps[s].created /\ steps'[s].message = steps[s].message
          /\ s \in laidNow => steps'[s].created = clock
          /\ s \in closing => steps'[s].completed = clock
          /\ s \notin closing /\ s \in laidNow => steps'[s].completed = 0 /\ steps'[s].status = "open"
          /\ s \notin closing /\ s \notin laidNow => steps'[s] = steps[s]
  BY <1>5, <1>8, <1>10
<1>13. DOMAIN steps' = DOMAIN steps \cup laidNow
  BY <1>5, <1>8
<1> QED BY <1>2, <1>3, <1>9, <1>11, <1>12, <1>13, PlanStays

LEMMA MintsKeeps == ASSUME ContinuityInv, Mints PROVE ContinuityInv'
<1>1. /\ steps' = Append(steps, [parent |-> NoParent, created |-> clock, status |-> "open",
                                 completed |-> Never, message |-> TRUE])
      /\ UNCHANGED <<planPhase, clock, rowsRun, interruptedAt, finishedAfter, laid, wiped, manner>>
      /\ planPhase \in {"phase1", "phase2"}
  BY DEF Mints, Acting
<1>2. /\ steps' \in Seq(PlanSteps) /\ DOMAIN steps' = DOMAIN steps \cup {Len(steps) + 1}
      /\ \A s \in DOMAIN steps : steps'[s] = steps[s] /\ s # Len(steps) + 1
      /\ steps'[Len(steps) + 1].created = clock /\ steps'[Len(steps) + 1].completed = 0
      /\ steps'[Len(steps) + 1].status = "open"
  BY <1>1, StepGrows
<1> DEFINE laidNow == {Len(steps) + 1}
           closing == {}
<1>3. finishedAfter' = IF planPhase = "phase2" THEN finishedAfter \cup closing ELSE finishedAfter
  BY <1>1
<1>4. rowsRun' \in Seq(PlanRows) /\ (~wiped' /\ ~manner'.misled => MannerFits(rowsRun', manner'))
  BY <1>1 DEF ContinuityInv, PlanTypes
<1>5. \A s \in DOMAIN steps' :
          /\ s \in DOMAIN steps \ laidNow =>
                steps'[s].created = steps[s].created /\ steps'[s].message = steps[s].message
          /\ s \in laidNow => steps'[s].created = clock
          /\ s \in closing => steps'[s].completed = clock
          /\ s \notin closing /\ s \in laidNow => steps'[s].completed = 0 /\ steps'[s].status = "open"
          /\ s \notin closing /\ s \notin laidNow => steps'[s] = steps[s]
  BY <1>2
<1>6. DOMAIN steps' = DOMAIN steps \cup laidNow
  BY <1>2
<1>7. UNCHANGED <<planPhase, clock, interruptedAt, laid, wiped>>
  BY <1>1
<1> HIDE DEF laidNow, closing
<1> QED BY <1>1, <1>2, <1>3, <1>4, <1>5, <1>6, <1>7, PlanStays

LEMMA ContinuityInvNext ==
    ASSUME ContinuityInv, [PlanNext]_planVars
    PROVE  ContinuityInv'
<1>1. CASE RunsForm \/ Mints
  BY <1>1, RunsFormKeeps, MintsKeeps
<1>2. CASE PlanTicks
  <2>1. /\ UNCHANGED <<planPhase, steps, rowsRun, interruptedAt, finishedAfter, laid, wiped, manner>>
        /\ clock' = clock + 1
    BY <1>2 DEF PlanTicks
  <2>2. /\ clock \in Nat /\ interruptedAt \in Nat
        /\ \A s \in DOMAIN steps : /\ steps[s].created \in Nat /\ steps[s].completed \in Nat
                                   /\ steps[s].created <= clock /\ steps[s].completed <= clock
    BY StepsHaveInstants DEF ContinuityInv, PlanTypes
  <2>5. /\ clock + 1 \in Nat /\ clock + 1 >= 2 /\ (planPhase = "phase1" \/ interruptedAt <= clock + 1)
        /\ \A s \in DOMAIN steps : steps[s].created <= clock + 1 /\ steps[s].completed <= clock + 1
    BY <2>2 DEF ContinuityInv, PlanTypes
  <2>3. PlanTypes'
    BY <2>1, <2>5 DEF ContinuityInv, PlanTypes
  <2>4. StepsAreOfTheirPhase'
    <3>1. CASE planPhase = "phase1"
      <4>1. ~wiped /\ Instant' = clock + 1
        BY <2>1, <3>1 DEF ContinuityInv, PlanTypes, Instant
      <4> QED BY <2>1, <2>5, <3>1, <4>1 DEF StepsAreOfTheirPhase
    <3>2. CASE planPhase # "phase1"
      BY <2>1, <3>2 DEF ContinuityInv, StepsAreOfTheirPhase, Instant
    <3> QED BY <3>1, <3>2
  <2> QED BY <2>1, <2>3, <2>4 DEF ContinuityInv
<1>3. CASE Interrupts
  <2>1. /\ UNCHANGED <<clock, steps, rowsRun, finishedAfter, wiped, manner>>
        /\ planPhase = "phase1" /\ planPhase' = "interrupted" /\ interruptedAt' = clock /\ laid' = Authored(steps)
    BY <1>3 DEF Interrupts
  <2>2. IsFiniteSet(laid')
    <3>1. DOMAIN steps = 1..Len(steps) /\ Len(steps) \in Nat
      <4>1. steps \in Seq(PlanSteps)
        BY DEF ContinuityInv, PlanTypes
      <4> QED BY <4>1
    <3>2. IsFiniteSet(DOMAIN steps)
      BY <3>1, FS_Interval
    <3> QED BY <2>1, <3>2, FS_Subset DEF Authored
  <2>5. clock >= 2 /\ clock <= clock /\ ~wiped
    BY <2>1 DEF ContinuityInv, PlanTypes
  <2>3. PlanTypes'
    BY <2>1, <2>2, <2>5 DEF ContinuityInv, PlanTypes
  <2>4. StepsAreOfTheirPhase'
    <3>1. ~wiped /\ Instant' = clock /\ Instant = clock
      BY <2>1 DEF ContinuityInv, PlanTypes, Instant
    <3> QED BY <2>1, <3>1 DEF ContinuityInv, StepsAreOfTheirPhase, Authored
  <2> QED BY <2>1, <2>3, <2>4 DEF ContinuityInv
<1>4. CASE Restarts
  <2>1. /\ UNCHANGED <<clock, interruptedAt, finishedAfter, laid, manner>>
        /\ planPhase = "interrupted" /\ planPhase' = "phase2" /\ wiped' \in BOOLEAN
        /\ steps' = IF wiped' THEN <<>> ELSE steps
        /\ rowsRun' = IF wiped' THEN <<>> ELSE rowsRun
    BY <1>4 DEF Restarts
  <2>2. ~wiped /\ Instant' = Instant
    BY <2>1 DEF ContinuityInv, PlanTypes, Instant
  <2>3. /\ steps' \in Seq(PlanSteps) /\ rowsRun' \in Seq(PlanRows)
        /\ wiped' => DOMAIN steps' = {}
    <3>1. CASE wiped'
      BY <2>1, <3>1
    <3>2. CASE ~wiped'
      BY <2>1, <3>2 DEF ContinuityInv, PlanTypes
    <3> QED BY <3>1, <3>2
  <2>4. PlanTypes'
    <3>1. CASE wiped'
      BY <2>1, <2>3, <3>1 DEF ContinuityInv, PlanTypes
    <3>2. CASE ~wiped'
      BY <2>1, <2>3, <3>2 DEF ContinuityInv, PlanTypes
    <3> QED BY <3>1, <3>2
  <2>5. StepsAreOfTheirPhase'
    <3>1. CASE wiped'
      BY <2>3, <3>1 DEF StepsAreOfTheirPhase
    <3>2. CASE ~wiped'
      BY <2>1, <2>2, <3>2 DEF ContinuityInv, StepsAreOfTheirPhase
    <3> QED BY <3>1, <3>2
  <2> QED BY <2>1, <2>2, <2>4, <2>5 DEF ContinuityInv
<1>5. CASE Fetches
  <2>1. /\ UNCHANGED <<clock, steps, rowsRun, interruptedAt, finishedAfter, laid, wiped, manner>>
        /\ planPhase = "phase2" /\ planPhase' = "read"
    BY <1>5 DEF Fetches
  <2>2. PlanTypes'
    BY <2>1 DEF ContinuityInv, PlanTypes
  <2>3. StepsAreOfTheirPhase'
    BY <2>1 DEF ContinuityInv, StepsAreOfTheirPhase, Instant
  <2> QED BY <2>1, <2>2, <2>3 DEF ContinuityInv
<1>6. CASE UNCHANGED planVars
  BY <1>6 DEF planVars, ContinuityInv, PlanTypes, StepsAreOfTheirPhase, Instant
<1> QED BY <1>1, <1>2, <1>3, <1>4, <1>5, <1>6 DEF PlanNext

LEMMA ContinuityCredit == ContinuityInv => ContinuityEarned
<1> SUFFICES ASSUME ContinuityInv, planPhase = "read", CheckPlanning(TRUE, steps, interruptedAt, rowsRun)
             PROVE  /\ ~wiped /\ Cardinality(laid) >= MinPreSteps
                    /\ \E s \in laid :
                          /\ steps[s].status = "done"
                          /\ s \in finishedAfter \/ steps[s].completed = interruptedAt
                    /\ \A s \in Authored(steps) : steps[s].parent = NoParent => s \in laid
                    /\ ~manner.misled => manner.began = "author" /\ ~manner.dumped
  BY DEF ContinuityEarned
<1> DEFINE pre == Pre(steps, interruptedAt)
<1>1. /\ Cardinality(pre) >= MinPreSteps /\ Resumed(steps, interruptedAt) # {}
      /\ \A s \in Authored(steps) : steps[s].parent = NoParent => steps[s].created < interruptedAt
      /\ DecomposeFirst(rowsRun) /\ CloseAdjacency(rowsRun)
  BY DEF CheckPlanning, PlanTrajectory
<1>2. PICK s \in pre : steps[s].status = "done" /\ steps[s].completed >= interruptedAt
  BY <1>1 DEF Resumed
<1>3. /\ interruptedAt \in Nat /\ Instant = interruptedAt /\ IsFiniteSet(laid)
      /\ \A q \in DOMAIN steps : steps[q].created \in Nat /\ steps[q].completed \in Nat
  BY StepsHaveInstants DEF ContinuityInv, PlanTypes, Instant
<1>4. \A q \in pre : q \in Authored(steps) /\ q \in DOMAIN steps /\ ~steps[q].message /\ steps[q].created < interruptedAt
  BY DEF Pre, Authored
<1>5. ~wiped
  BY <1>2, <1>3, <1>4 DEF ContinuityInv, StepsAreOfTheirPhase
<1>6. pre \subseteq laid
  BY <1>3, <1>4, <1>5 DEF ContinuityInv, StepsAreOfTheirPhase, PlanTypes
<1>10. s \in finishedAfter \/ steps[s].completed = interruptedAt
  <2>1. s \notin finishedAfter => steps[s].completed <= interruptedAt
    BY <1>2, <1>3, <1>4, <1>5 DEF ContinuityInv, StepsAreOfTheirPhase
  <2> QED BY <1>2, <1>3, <1>4, <2>1
<1>7. Cardinality(laid) >= MinPreSteps
  <2> HIDE DEF pre
  <2>1. Cardinality(pre) \in Nat /\ Cardinality(laid) \in Nat /\ Cardinality(pre) <= Cardinality(laid)
    BY <1>3, <1>6, FS_Subset, FS_CardinalityType
  <2> QED BY <1>1, <2>1, PlanConstants
<1>8. \A q \in Authored(steps) : steps[q].parent = NoParent => q \in laid
  BY <1>1, <1>3, <1>5 DEF ContinuityInv, StepsAreOfTheirPhase, Authored
<1>9. ~manner.misled => manner.began = "author" /\ ~manner.dumped
  BY <1>1, <1>5, MannerOfCredit DEF ContinuityInv, PlanTypes
<1> QED BY <1>2, <1>5, <1>6, <1>7, <1>8, <1>9, <1>10

-----------------------------------------------------------------------------
(* PlanExperiment.                                                         *)

\* A root is a record of who made it and when.
PlanRoots == [at : Nat, by : {"harness", "agent", "another"}]

ExperimentTypes ==
    /\ arm \in Arms
    /\ tx \in Nat /\ firstTurn \in Nat /\ firstTurn <= tx
    /\ planRoots \subseteq PlanRoots /\ everHad \subseteq PlanRoots
    /\ \A r \in planRoots : r.at \in 1..tx
    /\ \A t \in harnessTxs : t \in 1..tx
    /\ closes \subseteq BOOLEAN
    /\ reports \in Seq({"right", "wrong", "run_closed"})

\* What the harness reported as its own is its own, and what it made before the
\* first turn is all that was there then; since then nothing comes unrecorded.
RootsAreAccounted ==
    /\ \A r \in planRoots : r.at \in harnessTxs => r.by = "harness"
    /\ \A r \in planRoots : r.by = "harness" => r.at \in harnessTxs
    /\ firstTurn # 0 => \A t \in harnessTxs : t < firstTurn
    /\ firstTurn = 0 => everHad = {}
    /\ firstTurn # 0 => planRoots \subseteq everHad

\* The evidence is what there was when it was read, and nothing moves after it.
EvidenceIsRead ==
    \A e \in evidence :
        /\ firstTurn # 0 /\ e.observedAt = tx /\ e.firstTurn = firstTurn
        /\ e.roots = planRoots /\ e.harnessTxs = harnessTxs
        /\ e.historyRead => e.history = everHad

ExperimentInv == ExperimentTypes /\ RootsAreAccounted /\ EvidenceIsRead

LEMMA ExperimentInvStarts == ExperimentInit => ExperimentInv
BY ExperimentConstants DEF ExperimentInit, ExperimentInv, ExperimentTypes, RootsAreAccounted, EvidenceIsRead

\* A root that comes in the transaction of now is nobody else's.
LEMMA RootsCome ==
    ASSUME ExperimentInv, Transacts, UNCHANGED <<arm, firstTurn, closes, reports, evidence>>,
           NEW r \in PlanRoots, r.at = tx', planRoots' = planRoots \cup {r},
           \/ /\ firstTurn = 0 /\ r.by = "harness" /\ harnessTxs' = harnessTxs \cup {tx'} /\ everHad' = everHad
           \/ /\ firstTurn # 0 /\ r.by # "harness" /\ harnessTxs' = harnessTxs /\ everHad' = everHad \cup {r}
    PROVE  ExperimentInv'
<1>1. tx' = tx + 1 /\ evidence = {}
  BY DEF Transacts
<1>2. ExperimentTypes'
  BY <1>1 DEF ExperimentInv, ExperimentTypes
<1>3. \A t \in harnessTxs : t <= tx
  BY DEF ExperimentInv, ExperimentTypes
<1>4. RootsAreAccounted'
  BY <1>1, <1>3 DEF ExperimentInv, ExperimentTypes, RootsAreAccounted
<1> QED BY <1>1, <1>2, <1>4 DEF ExperimentInv, EvidenceIsRead

LEMMA ExperimentInvNext ==
    ASSUME ExperimentInv, [ExperimentNext]_experimentVars
    PROVE  ExperimentInv'
<1> USE DEF ExperimentInv
<1>1. CASE HarnessPlans
  <2> DEFINE r == [at |-> tx', by |-> "harness"]
  <2>1. r \in PlanRoots /\ r.at = tx' /\ r.by = "harness"
    BY <1>1 DEF HarnessPlans, Transacts, PlanRoots, ExperimentTypes
  <2> QED BY <1>1, <2>1, RootsCome DEF HarnessPlans
<1>2. CASE TakesFirstTurn
  <2>1. /\ UNCHANGED <<arm, harnessTxs, planRoots, closes, reports, evidence>>
        /\ evidence = {} /\ tx' = tx + 1 /\ firstTurn' = tx' /\ everHad' = planRoots
    BY <1>2 DEF TakesFirstTurn, Transacts
  <2>2. ExperimentTypes'
    BY <2>1 DEF ExperimentTypes
  <2> QED BY <2>1, <2>2 DEF ExperimentTypes, RootsAreAccounted, EvidenceIsRead
<1>3. ASSUME NEW who \in {"agent", "another"}, PlansInRun(who) PROVE ExperimentInv'
  <2> DEFINE r == [at |-> tx', by |-> who]
  <2>1. r \in PlanRoots /\ r.at = tx' /\ r.by # "harness"
    BY <1>3 DEF PlansInRun, Transacts, PlanRoots, ExperimentTypes
  <2> QED BY <1>3, <2>1, RootsCome DEF PlansInRun
<1>4. CASE Retracts
  <2>1. /\ UNCHANGED <<arm, firstTurn, harnessTxs, everHad, closes, reports, evidence>>
        /\ evidence = {} /\ tx' = tx + 1 /\ planRoots' \subseteq planRoots
    BY <1>4 DEF Retracts, Transacts
  <2>2. ExperimentTypes'
    BY <2>1 DEF ExperimentTypes
  <2> QED BY <2>1, <2>2 DEF RootsAreAccounted, EvidenceIsRead
<1>5. CASE ClosesStep
  BY <1>5 DEF ClosesStep, InRun, ExperimentTypes, RootsAreAccounted, EvidenceIsRead
<1>6. CASE Answers
  BY <1>6 DEF Answers, InRun, ExperimentTypes, RootsAreAccounted, EvidenceIsRead
<1>7. CASE Reports
  BY <1>7 DEF Reports, InRun, ExperimentTypes, RootsAreAccounted, EvidenceIsRead
<1>8. CASE ReadsEvidence
  <2>1. /\ UNCHANGED <<arm, tx, firstTurn, harnessTxs, planRoots, everHad, closes, reports>> /\ firstTurn # 0
    BY <1>8 DEF ReadsEvidence
  <2>2. \A e \in evidence' :
           /\ e.observedAt = tx /\ e.firstTurn = firstTurn /\ e.roots = planRoots /\ e.harnessTxs = harnessTxs
           /\ e.historyRead => e.history = everHad
    BY <1>8 DEF ReadsEvidence
  <2> QED BY <2>1, <2>2 DEF ExperimentTypes, RootsAreAccounted, EvidenceIsRead
<1>9. CASE UNCHANGED experimentVars
  BY <1>9 DEF experimentVars, ExperimentTypes, RootsAreAccounted, EvidenceIsRead
<1> QED BY <1>1, <1>2, <1>3, <1>4, <1>5, <1>6, <1>7, <1>8, <1>9 DEF ExperimentNext

\* A report of the answer before the run closed for the first time.
LEMMA ReportedInTime ==
    ASSUME reports \in Seq({"right", "wrong", "run_closed"}), ReportDelivery(reports)
    PROVE  \E i \in DOMAIN reports : reports[i] = "right" /\ \A j \in 1..i : reports[j] # "run_closed"
<1>1. PICK c \in 1..Len(reports) :
         /\ \A i \in 1..(c - 1) : reports[i] # "run_closed"
         /\ \E i \in 1..(c - 1) : reports[i] = "right"
  BY DEF ReportDelivery
<1>2. PICK i \in 1..(c - 1) : reports[i] = "right"
  BY <1>1
<1>3. i \in DOMAIN reports /\ \A j \in 1..i : j \in 1..(c - 1)
  BY <1>1
<1> QED BY <1>1, <1>2, <1>3

LEMMA ExperimentCredit == ExperimentInv => ExperimentEarned
<1> SUFFICES ASSUME ExperimentInv, NEW e \in evidence, CheckPlanExperiment(arm, e)
             PROVE  /\ stored = "right"
                    /\ \E i \in DOMAIN reports : reports[i] = "right" /\ \A j \in 1..i : reports[j] # "run_closed"
                    /\ FALSE \notin closes
                    /\ CASE arm = "pretransacted" -> planRoots # {} /\ planRoots \subseteq
                                                         {[at |-> t, by |-> "harness"] : t \in 1..(firstTurn - 1)}
                         [] arm = "model_authored" -> planRoots # {} /\ planRoots \subseteq
                                                         {[at |-> t, by |-> "agent"] : t \in firstTurn..tx}
                         [] OTHER -> everHad = {} /\ closes = {}
  BY DEF ExperimentEarned
<1>1. /\ stored = "right" /\ ReportDelivery(reports) /\ PlanIntegrity(closes, arm # "no_plan")
      /\ Sufficient(e) /\ ArmContract(arm, e)
  BY DEF CheckPlanExperiment, DatabaseOutcome, PlanArmEvidence
<1>2. /\ e.observedAt = tx /\ e.firstTurn = firstTurn /\ e.roots = planRoots /\ e.harnessTxs = harnessTxs
      /\ e.history = everHad
  BY <1>1 DEF ExperimentInv, EvidenceIsRead, Sufficient
<1>3. \A r \in planRoots : r \in PlanRoots /\ r = [at |-> r.at, by |-> r.by] /\ r.at \in 1..tx
  BY DEF ExperimentInv, ExperimentTypes, PlanRoots
<1>4. FALSE \notin closes /\ (arm = "no_plan" => closes = {})
  BY <1>1 DEF PlanIntegrity
<1>5. CASE arm = "pretransacted"
  <2>1. planRoots # {} /\ \A r \in planRoots : r.at \in harnessTxs /\ r.at < firstTurn
    BY <1>1, <1>2, <1>5 DEF ArmContract, Source
  <2>2. \A r \in planRoots : r = [at |-> r.at, by |-> "harness"] /\ r.at \in 1..(firstTurn - 1)
    BY <1>3, <2>1 DEF ExperimentInv, ExperimentTypes, RootsAreAccounted
  <2>3. planRoots # {} /\ planRoots \subseteq {[at |-> t, by |-> "harness"] : t \in 1..(firstTurn - 1)}
    BY <2>1, <2>2
  <2> QED BY <1>1, <1>4, <1>5, <2>3, ReportedInTime DEF ExperimentInv, ExperimentTypes
<1>6. CASE arm = "model_authored"
  <2>1. planRoots # {} /\ \A r \in planRoots : r.by = "agent" /\ r.at \in firstTurn..tx
    BY <1>1, <1>2, <1>6 DEF ArmContract, Source
  <2>2. \A r \in planRoots : r = [at |-> r.at, by |-> "agent"]
    BY <1>3, <2>1
  <2>3. planRoots # {} /\ planRoots \subseteq {[at |-> t, by |-> "agent"] : t \in firstTurn..tx}
    BY <2>1, <2>2
  <2> QED BY <1>1, <1>4, <1>6, <2>3, ReportedInTime DEF ExperimentInv, ExperimentTypes
<1>7. CASE arm = "no_plan"
  <2>1. everHad = {}
    BY <1>1, <1>2, <1>7 DEF ArmContract
  <2> QED BY <1>1, <1>4, <1>7, <2>1, ReportedInTime DEF ExperimentInv, ExperimentTypes
<1> QED BY <1>5, <1>6, <1>7 DEF ExperimentInv, ExperimentTypes, Arms

-----------------------------------------------------------------------------
(* Reachability.                                                           *)

\* The chains, link by link.
RootChain == <<"start", "sees", "query", "sees", "told", "completed">>
DiscoveryChain == <<"functions", "move", "sees", "grants", "return", "told", "completed">>
SkillsChain == <<"list", "load", "sees", "unload", "misses", "told", "completed">>
AcmeChain == <<"tagline", "location", "sees", "told", "completed">>
EmcaChain == <<"location", "tagline", "sees", "told", "completed">>

LEMMA ChainsAre ==
    /\ Chains["root_orchestration"] = {RootChain}
    /\ Chains["namespace_discovery"] = {DiscoveryChain}
    /\ Chains["skill_lifecycle"] = {SkillsChain}
    /\ Chains["acme_product_tools"] = {AcmeChain, EmcaChain}
    /\ ReachRows = {"root_orchestration", "namespace_discovery", "skill_lifecycle", "acme_product_tools"}
BY Zenon DEF ReachRows, Chains, RootChain, DiscoveryChain, SkillsChain, AcmeChain, EmcaChain

Links == {"start", "query", "told", "completed", "functions", "move", "grants", "return", "list", "load", "unload",
          "tagline", "location", "sees", "misses", "directs"}

LEMMA ChainsAreLinks ==
    ASSUME NEW row \in ReachRows, NEW chain \in Chains[row]
    PROVE  chain \in Seq(Links)
<1>1. RootChain \in Seq(Links) /\ DiscoveryChain \in Seq(Links) /\ SkillsChain \in Seq(Links)
      /\ AcmeChain \in Seq(Links) /\ EmcaChain \in Seq(Links)
  BY DEF RootChain, DiscoveryChain, SkillsChain, AcmeChain, EmcaChain, Links
<1>2. chain \in {RootChain, DiscoveryChain, SkillsChain, AcmeChain, EmcaChain}
  BY ChainsAre
<1> QED BY <1>1, <1>2

LEMMA CallsOfRow ==
    ASSUME NEW row \in ReachRows
    PROVE  /\ CallsOf(row) \subseteq Links \ {"sees", "misses"}
           /\ row = "root_orchestration" => CallsOf(row) \subseteq {"start", "query", "told", "completed", "directs"}
<1>1. ASSUME NEW call \in CallsOf(row) PROVE call \in Links /\ call \notin {"sees", "misses"}
  <2> SUFFICES ASSUME call # "directs" PROVE call \in Links /\ call \notin {"sees", "misses"}
    BY DEF Links
  <2>1. PICK chain \in Chains[row] : call \in ToSet(chain)
    BY DEF CallsOf
  <2>2. chain \in Seq(Links)
    BY ChainsAreLinks
  <2>3. call \in Links
    BY <2>1, <2>2 DEF ToSet
  <2> QED BY <2>3 DEF CallsOf
<1>2. ASSUME NEW call \in CallsOf(row), row = "root_orchestration", call # "directs"
      PROVE  call \in {"start", "query", "told", "completed"}
  <2>1. call \in ToSet(RootChain) /\ call # "sees"
    BY <1>2, ChainsAre DEF CallsOf
  <2>2. ToSet(RootChain) \subseteq {"start", "sees", "query", "told", "completed"}
    BY DEF RootChain, ToSet
  <2> QED BY <2>1, <2>2
<1> QED BY <1>1, <1>2

-----------------------------------------------------------------------------
Facts == {"cards", "child", "second_child", "functions", "body", "tagline", "location"}
ReachForms == [ok : BOOLEAN, turn : Nat, at : Nat, source : SUBSET (Links \cup {"right"})]

EpisodeFits(ep) ==
    /\ ep = [row |-> ep.row, prompts |-> ep.prompts, forms |-> ep.forms, facts |-> ep.facts, link |-> ep.link]
    /\ ep.row \in ReachRows
    /\ ep.prompts \in Seq(SUBSET Facts) /\ Len(ep.prompts) >= 1
    /\ ep.forms \in Seq(ReachForms)
    /\ ep.facts \in SUBSET Facts

\* The forms are in the order of their turns, and each is of one call, right
\* unless it names something.
FormsFit(ep) ==
    /\ \A i \in 1..Len(ep.forms) :
          /\ ep.forms[i].at = i /\ ep.forms[i].turn >= 1 /\ ep.forms[i].turn <= Len(ep.prompts)
          /\ \E call \in Links : /\ ep.forms[i].source \in {{call}, {call, "right"}}
                                 /\ call \notin Naming(ep.row) => "right" \in ep.forms[i].source
    /\ \A i, j \in 1..Len(ep.forms) : i < j => ep.forms[i].turn <= ep.forms[j].turn

\* A child that is a second one is not alone.
ChildrenFit(facts) ==
    facts \subseteq {"child", "second_child"} /\ ("second_child" \in facts => "child" \in facts)
PromptsFit(ep) ==
    ep.row = "root_orchestration" =>
        /\ ChildrenFit(ep.facts)
        /\ \A p \in 2..Len(ep.prompts) : ChildrenFit(ep.prompts[p])

LinksFit(ep) ==
    /\ ep.link \in [Chains[ep.row] -> Nat]
    /\ \A chain \in Chains[ep.row] : ep.link[chain] <= Len(chain)

\* What happened when: form index of a moment, or the prompt that begins a moment,
\* which is before every form of it.
ShowsLink(ep, moment, index, event) ==
    \/ /\ index \in 1..Len(ep.forms) /\ moment = ep.forms[index].turn
       /\ ep.forms[index].ok /\ event \in ep.forms[index].source /\ "right" \in ep.forms[index].source
    \/ /\ index = 0 /\ moment \in 2..Len(ep.prompts)
       /\ event = IF Asked[ep.row] \subseteq ep.prompts[moment] THEN "sees" ELSE "misses"

Before(moment, index, turn2, index2) == moment < turn2 \/ (moment = turn2 /\ index < index2)

Follows(ep, chain, n, turns, indices) ==
    /\ \A k \in 1..n : ShowsLink(ep, turns[k], indices[k], chain[k])
    /\ \A k \in 1..(n - 1) : Before(turns[k], indices[k], turns[k + 1], indices[k + 1])

\* An agent whose evidence shows the links of a chain one after the other has
\* come that far.
ChainsAreFollowed(ep) ==
    \A chain \in Chains[ep.row], n \in Nat : \A turns, indices :
        n <= Len(chain) /\ Follows(ep, chain, n, turns, indices) => ep.link[chain] >= n

EpisodeInv(ep) == EpisodeFits(ep) /\ FormsFit(ep) /\ PromptsFit(ep) /\ LinksFit(ep) /\ ChainsAreFollowed(ep)

ReachInv == EpisodeInv(episode)

LEMMA ReachInvStarts == ReachInit => ReachInv
<1> SUFFICES ASSUME NEW row \in ReachRows, NEW cards \in SUBSET {"cards"}, episode = Begun(row, cards)
             PROVE  ReachInv
  BY DEF ReachInit
<1> DEFINE ep == Begun(row, cards)
<1>1. /\ ep.row = row /\ ep.prompts = <<cards>> /\ ep.forms = <<>> /\ ep.facts = {}
      /\ ep.link = [chain \in Chains[row] |-> 0]
      /\ ep = [row |-> ep.row, prompts |-> ep.prompts, forms |-> ep.forms, facts |-> ep.facts, link |-> ep.link]
  BY DEF Begun
<1> HIDE DEF ep
<1>2. ep.prompts \in Seq(SUBSET Facts) /\ Len(ep.prompts) = 1 /\ ep.forms \in Seq(ReachForms) /\ Len(ep.forms) = 0
  <2>1. cards \in SUBSET Facts
    BY DEF Facts
  <2> QED BY <1>1, <2>1
<1>3. EpisodeFits(ep)
  BY <1>1, <1>2 DEF EpisodeFits
<1>4. FormsFit(ep)
  BY <1>2 DEF FormsFit
<1>5. PromptsFit(ep)
  BY <1>1, <1>2 DEF PromptsFit, ChildrenFit
<1>6. \A chain \in Chains[row] : Len(chain) \in Nat /\ ep.link[chain] = 0
  BY <1>1, ChainsAreLinks
<1>7. LinksFit(ep)
  BY <1>1, <1>6 DEF LinksFit
<1>8. \A moment, index, event : ~ShowsLink(ep, moment, index, event)
  BY <1>2 DEF ShowsLink
<1>9. ChainsAreFollowed(ep)
  <2> SUFFICES ASSUME NEW chain \in Chains[ep.row], NEW n \in Nat, NEW turns, NEW indices,
                      Follows(ep, chain, n, turns, indices)
               PROVE  ep.link[chain] >= n
    BY DEF ChainsAreFollowed
  <2>1. n = 0
    BY <1>8 DEF Follows
  <2> QED BY <1>1, <1>6, <2>1
<1> QED BY <1>3, <1>4, <1>5, <1>7, <1>9 DEF ReachInv, EpisodeInv, ep

\* A link forward.
LEMMA ForwardLinks ==
    ASSUME NEW row \in ReachRows, NEW link \in [Chains[row] -> Nat], NEW event,
           \A chain \in Chains[row] : link[chain] <= Len(chain)
    PROVE  /\ Forward(link, event) \in [Chains[row] -> Nat]
           /\ \A chain \in Chains[row] :
                 /\ Forward(link, event)[chain] <= Len(chain) /\ Forward(link, event)[chain] >= link[chain]
                 /\ \A k \in 1..Len(chain) :
                       chain[k] = event /\ link[chain] >= k - 1 => Forward(link, event)[chain] >= k
<1> DEFINE forward == Forward(link, event)
<1>1. forward = [chain \in Chains[row] |->
         IF link[chain] < Len(chain) /\ event = chain[link[chain] + 1] THEN link[chain] + 1 ELSE link[chain]]
  BY DEF Forward
<1> HIDE DEF forward
<1>2. ASSUME NEW chain \in Chains[row]
      PROVE  /\ forward[chain] \in Nat /\ forward[chain] <= Len(chain) /\ forward[chain] >= link[chain]
             /\ \A k \in 1..Len(chain) : chain[k] = event /\ link[chain] >= k - 1 => forward[chain] >= k
  <2>1. Len(chain) \in Nat
    BY ChainsAreLinks
  <2>2. link[chain] \in Nat /\ link[chain] <= Len(chain)
    OBVIOUS
  <2>3. forward[chain] =
           IF link[chain] < Len(chain) /\ event = chain[link[chain] + 1] THEN link[chain] + 1 ELSE link[chain]
    BY <1>1
  <2>4. forward[chain] \in Nat /\ forward[chain] <= Len(chain) /\ forward[chain] >= link[chain]
    BY <2>1, <2>2, <2>3
  <2>5. ASSUME NEW k \in 1..Len(chain), chain[k] = event, link[chain] >= k - 1 PROVE forward[chain] >= k
    <3>1. CASE link[chain] = k - 1
      <4>1. link[chain] + 1 = k /\ link[chain] < Len(chain)
        BY <2>1, <2>2, <3>1
      <4>2. forward[chain] = link[chain] + 1
        BY <2>3, <2>5, <4>1
      <4> QED BY <4>1, <4>2
    <3>2. CASE link[chain] # k - 1
      BY <2>1, <2>2, <2>4, <2>5, <3>2
    <3> QED BY <3>1, <3>2
  <2> QED BY <2>4, <2>5
<1>3. forward \in [Chains[row] -> Nat]
  BY <1>1, <1>2
<1> QED BY <1>2, <1>3 DEF forward

\* What comes last of an episode follows what came before.
LastShown(ep, next, last, lastIndex, event, moves) ==
    \A moment, index, e : e # "right" /\ ShowsLink(next, moment, index, e) =>
        /\ ShowsLink(ep, moment, index, e) \/ (moves /\ moment = last /\ index = lastIndex /\ e = event)
        /\ ~Before(last, lastIndex, moment, index)
LinksMove(ep, next, event, moves) ==
    \A chain \in Chains[ep.row] :
        /\ next.link[chain] >= ep.link[chain]
        /\ \A k \in 1..Len(chain) : moves /\ chain[k] = event /\ ep.link[chain] >= k - 1 => next.link[chain] >= k

LEMMA ChainsFollowedOn ==
    ASSUME NEW ep, NEW next, EpisodeInv(ep), next.row = ep.row, LinksFit(next),
           NEW last, NEW lastIndex, NEW event, NEW moves \in BOOLEAN,
           LastShown(ep, next, last, lastIndex, event, moves), LinksMove(ep, next, event, moves)
    PROVE  ChainsAreFollowed(next)
<1> SUFFICES ASSUME NEW chain \in Chains[ep.row], NEW n \in Nat, NEW turns, NEW indices,
                    n <= Len(chain), Follows(next, chain, n, turns, indices)
             PROVE  next.link[chain] >= n
  BY DEF ChainsAreFollowed
<1> USE DEF LastShown, LinksMove
<1>1. chain \in Seq(Links) /\ Len(chain) \in Nat
  <2>1. chain \in Seq(Links)
    BY ChainsAreLinks DEF EpisodeInv, EpisodeFits
  <2> QED BY <2>1
<1>2. \A k \in 1..n : chain[k] # "right" /\ ShowsLink(next, turns[k], indices[k], chain[k])
  <2>1. \A k \in 1..n : chain[k] \in Links
    BY <1>1
  <2>2. "right" \notin Links
    BY DEF Links
  <2> QED BY <2>1, <2>2 DEF Follows
<1>3. ep.link[chain] \in Nat /\ next.link[chain] \in Nat /\ next.link[chain] >= ep.link[chain]
  BY DEF EpisodeInv, LinksFit
<1>4. CASE n = 0
  BY <1>3, <1>4
<1>5. CASE n > 0
  <2>1. \A k \in 1..(n - 1) : k + 1 \in 1..n /\ k \in 1..n /\ Before(turns[k], indices[k], turns[k + 1], indices[k + 1])
    BY DEF Follows
  <2>2. \A k \in 1..(n - 1) : ShowsLink(ep, turns[k], indices[k], chain[k])
    <3> TAKE k \in 1..(n - 1)
    <3>1. k \in 1..n /\ k + 1 \in 1..n
      BY <2>1
    <3>2. ~Before(last, lastIndex, turns[k + 1], indices[k + 1])
      BY <1>2, <3>1
    <3>3. ~(turns[k] = last /\ indices[k] = lastIndex)
      BY <2>1, <3>2
    <3>4. chain[k] # "right" /\ ShowsLink(next, turns[k], indices[k], chain[k])
      BY <1>2, <3>1
    <3> QED BY <3>3, <3>4
  <2>3. Follows(ep, chain, n - 1, turns, indices)
    <3>1. \A k \in 1..((n - 1) - 1) : k \in 1..(n - 1)
      OBVIOUS
    <3> QED BY <2>1, <2>2, <3>1 DEF Follows
  <2>4. ep.link[chain] >= n - 1
    <3>1. n - 1 \in Nat /\ n - 1 <= Len(chain)
      BY <1>1, <1>5
    <3> QED BY <2>3, <3>1 DEF EpisodeInv, ChainsAreFollowed
  <2>5. n \in 1..n /\ n \in 1..Len(chain)
    BY <1>1, <1>5
  <2>6. CASE ShowsLink(ep, turns[n], indices[n], chain[n])
    <3>1. \A k \in 1..n : ShowsLink(ep, turns[k], indices[k], chain[k])
      <4> TAKE k \in 1..n
      <4>1. k = n \/ k \in 1..(n - 1)
        OBVIOUS
      <4> QED BY <2>2, <2>6, <4>1
    <3>2. Follows(ep, chain, n, turns, indices)
      BY <2>1, <3>1 DEF Follows
    <3>3. ep.link[chain] >= n
      BY <3>2 DEF EpisodeInv, ChainsAreFollowed
    <3> QED BY <1>3, <3>3
  <2>7. CASE ~ShowsLink(ep, turns[n], indices[n], chain[n])
    <3>1. moves /\ chain[n] = event
      BY <1>2, <2>5, <2>7
    <3> QED BY <2>4, <2>5, <3>1
  <2> QED BY <2>6, <2>7
<1> QED BY <1>4, <1>5

LEMMA RendersKeeps ==
    ASSUME NEW ep, EpisodeInv(ep)
    PROVE  EpisodeInv(Renders(ep))
<1> DEFINE next == Renders(ep)
           event == IF Asked[ep.row] \subseteq ep.facts THEN "sees" ELSE "misses"
           n == Len(ep.prompts)
<1>1. /\ ep.row \in ReachRows /\ ep.prompts \in Seq(SUBSET Facts) /\ ep.facts \in SUBSET Facts /\ n \in Nat /\ n >= 1
      /\ ep.forms \in Seq(ReachForms)
      /\ ep = [row |-> ep.row, prompts |-> ep.prompts, forms |-> ep.forms, facts |-> ep.facts, link |-> ep.link]
  BY DEF EpisodeInv, EpisodeFits
<1>2. next = [row |-> ep.row, prompts |-> Append(ep.prompts, ep.facts), forms |-> ep.forms, facts |-> ep.facts,
              link |-> Forward(ep.link, event)]
  <2> DEFINE more == Append(ep.prompts, ep.facts)
             moved == Forward(ep.link, event)
  <2>1. next = [ep EXCEPT !.prompts = more, !.link = moved]
    BY DEF Renders
  <2> HIDE DEF more, moved, next, event
  <2>2. next = [row |-> ep.row, prompts |-> more, forms |-> ep.forms, facts |-> ep.facts, link |-> moved]
    BY <1>1, <2>1
  <2> QED BY <2>2 DEF more, moved
<1> HIDE DEF next, event
<1>3. /\ next.row = ep.row /\ next.prompts = Append(ep.prompts, ep.facts) /\ next.forms = ep.forms
      /\ next.facts = ep.facts /\ next.link = Forward(ep.link, event)
      /\ next = [row |-> next.row, prompts |-> next.prompts, forms |-> next.forms, facts |-> next.facts,
                 link |-> next.link]
  BY <1>2
<1>4. /\ next.prompts \in Seq(SUBSET Facts) /\ Len(next.prompts) = n + 1 /\ next.prompts[n + 1] = ep.facts
      /\ \A p \in 1..n : next.prompts[p] = ep.prompts[p]
  <2>1. LET more == Append(ep.prompts, ep.facts) IN
        /\ more \in Seq(SUBSET Facts) /\ Len(more) = n + 1 /\ more[n + 1] = ep.facts
        /\ \A p \in 1..n : more[p] = ep.prompts[p]
    BY <1>1, AppendProperties
  <2> QED BY <1>3, <2>1
<1> HIDE DEF n
<1>5. EpisodeFits(next)
  BY <1>1, <1>3, <1>4 DEF EpisodeFits
<1>6. FormsFit(next)
  <2>1. \A i \in 1..Len(ep.forms) : ep.forms[i].turn \in Nat /\ ep.forms[i].turn <= n
    <3> TAKE i \in 1..Len(ep.forms)
    <3>1. ep.forms[i] \in ReachForms
      BY <1>1
    <3> QED BY <3>1 DEF ReachForms, EpisodeInv, FormsFit, n
  <2>2. \A i \in 1..Len(ep.forms) : ep.forms[i].turn <= n + 1
    BY <1>1, <2>1
  <2> QED BY <1>3, <1>4, <2>2 DEF EpisodeInv, FormsFit
<1>7. PromptsFit(next)
  <2> SUFFICES ASSUME ep.row = "root_orchestration"
               PROVE  ChildrenFit(ep.facts) /\ \A p \in 2..(n + 1) : ChildrenFit(next.prompts[p])
    BY <1>3, <1>4 DEF PromptsFit
  <2>1. ChildrenFit(ep.facts) /\ \A p \in 2..n : ChildrenFit(ep.prompts[p])
    BY DEF EpisodeInv, PromptsFit, n
  <2>2. \A p \in 2..(n + 1) : p = n + 1 \/ (p \in 2..n /\ p \in 1..n)
    BY <1>1
  <2> QED BY <1>4, <2>1, <2>2
<1>8. /\ ep.link \in [Chains[ep.row] -> Nat] /\ \A chain \in Chains[ep.row] : ep.link[chain] <= Len(chain)
  BY DEF EpisodeInv, LinksFit
<1>9. LinksFit(next) /\ \A chain \in Chains[ep.row] :
         /\ next.link[chain] >= ep.link[chain]
         /\ \A k \in 1..Len(chain) : chain[k] = event /\ ep.link[chain] >= k - 1 => next.link[chain] >= k
  BY <1>1, <1>3, <1>8, ForwardLinks DEF LinksFit
<1>10. ASSUME NEW moment, NEW index, NEW e, ShowsLink(next, moment, index, e)
       PROVE  /\ ShowsLink(ep, moment, index, e) \/ (moment = n + 1 /\ index = 0 /\ e = event)
              /\ ~Before(n + 1, 0, moment, index)
  <2>1. CASE index \in 1..Len(ep.forms)
    <3>1. moment = ep.forms[index].turn /\ ep.forms[index].ok /\ e \in ep.forms[index].source /\ "right" \in ep.forms[index].source
      BY <1>3, <1>10, <2>1 DEF ShowsLink
    <3>2. ep.forms[index] \in ReachForms
      BY <1>1, <2>1
    <3>3. moment \in Nat /\ moment <= n
      BY <2>1, <3>1, <3>2 DEF ReachForms, EpisodeInv, FormsFit, n
    <3> QED BY <1>1, <2>1, <3>1, <3>3 DEF ShowsLink, Before
  <2>2. CASE index \notin 1..Len(ep.forms)
    <3>1. index = 0 /\ moment \in 2..(n + 1) /\ e = IF Asked[ep.row] \subseteq next.prompts[moment] THEN "sees" ELSE "misses"
      BY <1>3, <1>4, <1>10, <2>2 DEF ShowsLink
    <3>2. CASE moment = n + 1
      BY <1>1, <1>4, <3>1, <3>2 DEF Before, event
    <3>3. CASE moment # n + 1
      <4>1. moment \in 2..n /\ moment \in 1..n
        BY <1>1, <3>1, <3>3
      <4>2. next.prompts[moment] = ep.prompts[moment]
        BY <1>4, <4>1
      <4>3. ShowsLink(ep, moment, index, e)
        BY <3>1, <4>1, <4>2 DEF ShowsLink, n
      <4> QED BY <1>1, <3>1, <4>1, <4>3 DEF Before
    <3> QED BY <3>2, <3>3
  <2> QED BY <2>1, <2>2
<1>11. ChainsAreFollowed(next)
  <2> DEFINE moves == TRUE
             last == n + 1
             lastIndex == 0
  <2>1. moves \in BOOLEAN
    OBVIOUS
  <2>2. LastShown(ep, next, last, lastIndex, event, moves)
    BY <1>10 DEF LastShown
  <2>3. LinksMove(ep, next, event, moves)
    BY <1>9 DEF LinksMove
  <2> HIDE DEF moves, last, lastIndex
  <2>4. next.row = ep.row /\ LinksFit(next)
    BY <1>3, <1>9
  <2> QED BY <2>1, <2>2, <2>3, <2>4, ChainsFollowedOn, Zenon
<1> QED BY <1>5, <1>6, <1>7, <1>9, <1>11 DEF EpisodeInv, next

LEMMA PerformsKeeps ==
    ASSUME NEW ep, EpisodeInv(ep), NEW call \in CallsOf(ep.row), NEW right \in BOOLEAN, NEW ok \in BOOLEAN,
           call \notin Naming(ep.row) => right
    PROVE  EpisodeInv(Performs(ep, [call |-> call, right |-> right, ok |-> ok]))
<1> DEFINE form == [call |-> call, right |-> right, ok |-> ok]
           next == Performs(ep, form)
           n == Len(ep.prompts)
           m == Len(ep.forms)
           source == {call} \cup {mark \in {"right"} : right}
           record == [ok |-> ok, turn |-> n, at |-> m + 1, source |-> source]
           facts == IF ok /\ (right \/ call = "start") THEN Shown(call, ep.facts) ELSE ep.facts
           link == IF ok /\ right THEN Forward(ep.link, call) ELSE ep.link
<1>1. /\ ep.row \in ReachRows /\ ep.prompts \in Seq(SUBSET Facts) /\ ep.facts \in SUBSET Facts /\ n \in Nat /\ n >= 1
      /\ ep.forms \in Seq(ReachForms) /\ m \in Nat
      /\ ep = [row |-> ep.row, prompts |-> ep.prompts, forms |-> ep.forms, facts |-> ep.facts, link |-> ep.link]
  BY DEF EpisodeInv, EpisodeFits
<1>2. next = [row |-> ep.row, prompts |-> ep.prompts, forms |-> Append(ep.forms, record), facts |-> facts, link |-> link]
  <2> DEFINE more == Append(ep.forms, record)
  <2>1. form.call = call /\ form.right = right /\ form.ok = ok
    OBVIOUS
  <2>2. next = [ep EXCEPT !.forms = more, !.facts = facts, !.link = link]
    BY <2>1 DEF Performs
  <2> HIDE DEF more, facts, link, next, record, source, form
  <2>3. next = [row |-> ep.row, prompts |-> ep.prompts, forms |-> more, facts |-> facts, link |-> link]
    BY <1>1, <2>2
  <2> QED BY <2>3 DEF more
<1>3. call \in Links /\ call \notin {"sees", "misses"} /\ call # "right"
  BY <1>1, CallsOfRow DEF Links
<1>4. source \in {{call}, {call, "right"}} /\ ("right" \in source <=> right) /\ \A e \in source : e # "right" => e = call
  BY <1>3
<1>5. record \in ReachForms
  <2>1. source \in SUBSET (Links \cup {"right"})
    BY <1>3, <1>4
  <2> HIDE DEF source, n, m
  <2> QED BY <1>1, <2>1 DEF ReachForms
<1>6. record.ok = ok /\ record.turn = n /\ record.at = m + 1 /\ record.source = source
  OBVIOUS
<1>7. facts \in SUBSET Facts
  BY <1>1 DEF Shown, Facts
<1>8. ep.row = "root_orchestration" => ChildrenFit(facts)
  <2> SUFFICES ASSUME ep.row = "root_orchestration" PROVE ChildrenFit(facts)
    OBVIOUS
  <2>1. call \in {"start", "query", "told", "completed", "directs"} /\ ChildrenFit(ep.facts)
    BY <1>1, CallsOfRow DEF EpisodeInv, PromptsFit
  <2>2. CASE call = "start"
    BY <2>1, <2>2 DEF Shown, ChildrenFit
  <2>3. CASE call # "start"
    BY <2>1, <2>3 DEF Shown, ChildrenFit
  <2> QED BY <2>2, <2>3
<1> HIDE DEF record, facts, link, next, form, source
<1>9. /\ next.row = ep.row /\ next.prompts = ep.prompts /\ next.forms = Append(ep.forms, record)
      /\ next.facts = facts /\ next.link = link
      /\ next = [row |-> next.row, prompts |-> next.prompts, forms |-> next.forms, facts |-> next.facts,
                 link |-> next.link]
  BY <1>2
<1>10. /\ next.forms \in Seq(ReachForms) /\ Len(next.forms) = m + 1 /\ next.forms[m + 1] = record
       /\ \A i \in 1..m : next.forms[i] = ep.forms[i]
  <2>1. LET more == Append(ep.forms, record) IN
        /\ more \in Seq(ReachForms) /\ Len(more) = m + 1 /\ more[m + 1] = record
        /\ \A i \in 1..m : more[i] = ep.forms[i]
    BY <1>1, <1>5, AppendProperties
  <2> QED BY <1>9, <2>1
<1>11. \A i \in 1..m : ep.forms[i].turn \in Nat /\ ep.forms[i].turn <= n
  <2> TAKE i \in 1..m
  <2>1. ep.forms[i] \in ReachForms
    BY <1>1
  <2> QED BY <2>1 DEF ReachForms, EpisodeInv, FormsFit
<1>12. EpisodeFits(next)
  BY <1>1, <1>7, <1>9, <1>10 DEF EpisodeFits
<1>13. FormsFit(next)
  <2>1. ASSUME NEW i \in 1..(m + 1)
        PROVE  /\ next.forms[i].at = i /\ next.forms[i].turn >= 1 /\ next.forms[i].turn <= n
               /\ \E c \in Links : /\ next.forms[i].source \in {{c}, {c, "right"}}
                                   /\ c \notin Naming(ep.row) => "right" \in next.forms[i].source
    <3>1. CASE i \in 1..m
      <4>1. next.forms[i] = ep.forms[i]
        BY <1>10, <3>1
      <4> QED BY <3>1, <4>1 DEF EpisodeInv, FormsFit
    <3>2. CASE i = m + 1
      <4>1. next.forms[i] = record
        BY <1>10, <3>2
      <4> QED BY <1>1, <1>3, <1>4, <1>6, <3>2, <4>1
    <3> QED BY <1>1, <3>1, <3>2
  <2>2. ASSUME NEW i \in 1..(m + 1), NEW j \in 1..(m + 1), i < j PROVE next.forms[i].turn <= next.forms[j].turn
    <3>1. i \in 1..m /\ next.forms[i] = ep.forms[i]
      BY <1>1, <1>10, <2>2
    <3>2. CASE j \in 1..m
      BY <1>10, <2>2, <3>1, <3>2 DEF EpisodeInv, FormsFit
    <3>3. CASE j = m + 1
      BY <1>6, <1>10, <1>11, <3>1, <3>3
    <3> QED BY <1>1, <3>2, <3>3
  <2> QED BY <1>9, <1>10, <2>1, <2>2 DEF FormsFit
<1>14. PromptsFit(next)
  BY <1>8, <1>9 DEF EpisodeInv, PromptsFit
<1>15. /\ ep.link \in [Chains[ep.row] -> Nat] /\ \A chain \in Chains[ep.row] : ep.link[chain] <= Len(chain)
  BY DEF EpisodeInv, LinksFit
<1> DEFINE moves == ok /\ right
<1>16. LinksFit(next) /\ \A chain \in Chains[ep.row] :
         /\ next.link[chain] >= ep.link[chain]
         /\ \A k \in 1..Len(chain) : moves /\ chain[k] = call /\ ep.link[chain] >= k - 1 => next.link[chain] >= k
  <2>1. CASE ok /\ right
    <3>1. next.link = Forward(ep.link, call)
      BY <1>9, <2>1 DEF link
    <3> QED BY <1>1, <1>9, <1>15, <3>1, ForwardLinks DEF LinksFit
  <2>2. CASE ~(ok /\ right)
    <3>1. next.link = ep.link
      BY <1>9, <2>2 DEF link
    <3>2. \A chain \in Chains[ep.row] : ep.link[chain] \in Nat
      BY <1>15
    <3> QED BY <1>9, <1>15, <2>2, <3>1, <3>2 DEF LinksFit
  <2> QED BY <2>1, <2>2
<1>17. ASSUME NEW moment, NEW index, NEW e, e # "right", ShowsLink(next, moment, index, e)
       PROVE  /\ ShowsLink(ep, moment, index, e) \/ (moves /\ moment = n /\ index = m + 1 /\ e = call)
              /\ ~Before(n, m + 1, moment, index)
  <2>1. CASE index \in 1..(m + 1)
    <3>1. /\ moment = next.forms[index].turn /\ next.forms[index].ok /\ e \in next.forms[index].source
          /\ "right" \in next.forms[index].source
      BY <1>1, <1>10, <1>17, <2>1 DEF ShowsLink
    <3>2. CASE index = m + 1
      <4>1. moment = n /\ ok /\ e \in source /\ "right" \in source
        BY <1>6, <1>10, <3>1, <3>2
      <4> QED BY <1>1, <1>4, <1>17, <3>2, <4>1 DEF Before
    <3>3. CASE index \in 1..m
      <4>1. next.forms[index] = ep.forms[index]
        BY <1>10, <3>3
      <4>2. moment \in Nat /\ moment <= n
        BY <1>11, <3>1, <3>3, <4>1
      <4>3. ShowsLink(ep, moment, index, e)
        BY <3>1, <3>3, <4>1 DEF ShowsLink
      <4> QED BY <1>1, <3>3, <4>2, <4>3 DEF Before
    <3> QED BY <1>1, <2>1, <3>2, <3>3
  <2>2. CASE index \notin 1..(m + 1)
    <3>1. index = 0 /\ moment \in 2..n /\ ShowsLink(ep, moment, index, e)
      BY <1>9, <1>10, <1>17, <2>2 DEF ShowsLink
    <3> QED BY <1>1, <3>1 DEF Before
  <2> QED BY <2>1, <2>2
<1>18. ChainsAreFollowed(next)
  <2> DEFINE lastIndex == m + 1
  <2>1. moves \in BOOLEAN
    OBVIOUS
  <2>2. LastShown(ep, next, n, lastIndex, call, moves)
    BY <1>17 DEF LastShown
  <2>4. LinksMove(ep, next, call, moves)
    BY <1>16 DEF LinksMove
  <2> HIDE DEF moves, n, lastIndex
  <2>3. next.row = ep.row /\ LinksFit(next)
    BY <1>9, <1>16
  <2> QED BY <2>4, <2>1, <2>2, <2>3, ChainsFollowedOn, Zenon
<1> QED BY <1>12, <1>13, <1>14, <1>16, <1>18 DEF EpisodeInv, next, form

LEMMA ReachInvNext ==
    ASSUME ReachInv, [ReachNext]_reachVars
    PROVE  ReachInv'
<1>1. CASE EndsTurn
  BY <1>1, RendersKeeps DEF EndsTurn, ReachInv
<1>2. CASE EvaluatesForm
  <2>1. PICK call \in CallsOf(episode.row), right \in BOOLEAN, ok \in BOOLEAN :
           /\ call \notin Naming(episode.row) => right
           /\ episode' = Performs(episode, [call |-> call, right |-> right, ok |-> ok])
    BY <1>2 DEF EvaluatesForm
  <2> QED BY <2>1, PerformsKeeps DEF ReachInv
<1>3. CASE UNCHANGED reachVars
  BY <1>3 DEF reachVars, ReachInv
<1> QED BY <1>1, <1>2, <1>3 DEF ReachNext
-----------------------------------------------------------------------------
\* The evidence an oracle reads, as moments of the episode.
LEMMA RowsShow ==
    ASSUME NEW ep, EpisodeInv(ep), NEW call \in Links, NEW i \in OkIndices(ep.forms, call)
    PROVE  /\ i \in 1..Len(ep.forms) /\ ep.forms[i].turn \in 1..Len(ep.prompts)
           /\ "right" \in ep.forms[i].source => ShowsLink(ep, ep.forms[i].turn, i, call)
           /\ call \notin Naming(ep.row) => "right" \in ep.forms[i].source
           /\ \A other \in Links : i \in OkIndices(ep.forms, other) => other = call
<1>1. ep.forms \in Seq(ReachForms) /\ Len(ep.forms) \in Nat /\ ep.prompts \in Seq(SUBSET Facts) /\ Len(ep.prompts) \in Nat
  BY DEF EpisodeInv, EpisodeFits
<1>2. i \in 1..Len(ep.forms) /\ ep.forms[i].ok /\ call \in ep.forms[i].source
  BY <1>1 DEF OkIndices
<1>3. ep.forms[i] \in ReachForms
  BY <1>1, <1>2
<1>4. ep.forms[i].turn \in 1..Len(ep.prompts)
  BY <1>1, <1>2, <1>3 DEF ReachForms, EpisodeInv, FormsFit
<1>5. PICK c \in Links : /\ ep.forms[i].source \in {{c}, {c, "right"}}
                         /\ c \notin Naming(ep.row) => "right" \in ep.forms[i].source
  BY <1>2 DEF EpisodeInv, FormsFit
<1>6. "right" \notin Links
  BY DEF Links
<1>7. c = call
  BY <1>2, <1>5, <1>6
<1>8. ASSUME NEW other \in Links, i \in OkIndices(ep.forms, other) PROVE other = call
  BY <1>5, <1>6, <1>7, <1>8 DEF OkIndices
<1> QED BY <1>2, <1>4, <1>5, <1>7, <1>8 DEF ShowsLink

LEMMA RowsInOrder ==
    ASSUME NEW ep, EpisodeInv(ep), NEW i \in 1..Len(ep.forms), NEW j \in 1..Len(ep.forms), i < j
    PROVE  Before(ep.forms[i].turn, i, ep.forms[j].turn, j)
<1>1. ep.forms[i].turn <= ep.forms[j].turn
  BY DEF EpisodeInv, FormsFit
<1>2. ep.forms[i].turn \in Nat /\ ep.forms[j].turn \in Nat
  <2>1. ep.forms[i] \in ReachForms /\ ep.forms[j] \in ReachForms
    BY DEF EpisodeInv, EpisodeFits
  <2> QED BY <2>1 DEF ReachForms
<1> QED BY <1>1, <1>2 DEF Before

LEMMA PromptsShow ==
    ASSUME NEW ep, EpisodeInv(ep), NEW i \in 1..Len(ep.forms), NEW p \in LaterPrompts(ep.prompts, ep.forms[i])
    PROVE  /\ p \in 2..Len(ep.prompts) /\ p \in Nat
           /\ Before(ep.forms[i].turn, i, p, 0)
           /\ Asked[ep.row] \subseteq ep.prompts[p] => ShowsLink(ep, p, 0, "sees")
           /\ ~(Asked[ep.row] \subseteq ep.prompts[p]) => ShowsLink(ep, p, 0, "misses")
           /\ \A j \in 1..Len(ep.forms) : ep.forms[j].turn >= p => Before(p, 0, ep.forms[j].turn, j)
<1>1. Len(ep.prompts) \in Nat /\ Len(ep.forms) \in Nat
  BY DEF EpisodeInv, EpisodeFits
<1>2. \A j \in 1..Len(ep.forms) : ep.forms[j].turn \in Nat /\ ep.forms[j].turn >= 1
  <2> TAKE j \in 1..Len(ep.forms)
  <2>1. ep.forms[j] \in ReachForms
    BY DEF EpisodeInv, EpisodeFits
  <2> QED BY <2>1 DEF ReachForms, EpisodeInv, FormsFit
<1>3. p \in (ep.forms[i].turn + 1)..Len(ep.prompts)
  BY DEF LaterPrompts
<1>4. p \in 2..Len(ep.prompts) /\ p > ep.forms[i].turn /\ p \in Nat
  BY <1>1, <1>2, <1>3
<1>5. \A j \in 1..Len(ep.forms) : ep.forms[j].turn >= p => Before(p, 0, ep.forms[j].turn, j)
  BY <1>1, <1>2, <1>4 DEF Before
<1> QED BY <1>2, <1>4, <1>5 DEF Before, ShowsLink

LEMMA LaterPromptsAreNats ==
    ASSUME NEW ep, EpisodeInv(ep), NEW i \in 1..Len(ep.forms), NEW S, S \subseteq LaterPrompts(ep.prompts, ep.forms[i]),
           S # {}
    PROVE  Min(S) \in S
<1>1. S \subseteq Nat
  BY PromptsShow
<1> QED BY <1>1, MinOfNats

LEMMA RowsOfCalls ==
    ASSUME NEW ep, EpisodeInv(ep), NEW S, S \subseteq 1..Len(ep.forms), S # {}
    PROVE  Min(S) \in S /\ Max(S) \in S
<1>1. Len(ep.forms) \in Nat /\ S \subseteq Nat
  BY DEF EpisodeInv, EpisodeFits
<1> QED BY <1>1, MinOfNats, MaxOfIndices

\* What was reported, and when.
LEMMA ReportsAreRows ==
    ASSUME NEW ep, EpisodeInv(ep), NEW after, NEW moment, ReportedValues(ep.forms, after, moment)
    PROVE  \E t, c \in 1..Len(ep.forms) :
              /\ t > after /\ ep.forms[t].turn >= moment
              /\ ShowsLink(ep, ep.forms[t].turn, t, "told") /\ ShowsLink(ep, ep.forms[c].turn, c, "completed")
              /\ Before(ep.forms[t].turn, t, ep.forms[c].turn, c)
<1> DEFINE late(call) == {i \in Right(ep.forms, OkIndices(ep.forms, call)) : i > after /\ ep.forms[i].turn >= moment}
           t == Min(late("told"))
           c == Max(late("completed"))
<1>1. late("told") # {} /\ late("completed") # {} /\ t < c
  BY DEF ReportedValues
<1>2. "told" \in Links /\ "completed" \in Links
  BY DEF Links
<1>3. \A call \in Links : late(call) \subseteq 1..Len(ep.forms)
  BY RowsShow DEF Right
<1>4. t \in late("told") /\ c \in late("completed")
  <2> HIDE DEF late
  <2> QED BY <1>1, <1>2, <1>3, RowsOfCalls
<1>5. /\ t \in OkIndices(ep.forms, "told") /\ "right" \in ep.forms[t].source /\ t > after /\ ep.forms[t].turn >= moment
      /\ c \in OkIndices(ep.forms, "completed") /\ "right" \in ep.forms[c].source
  BY <1>4 DEF Right
<1> HIDE DEF t, c
<1>6. /\ t \in 1..Len(ep.forms) /\ ShowsLink(ep, ep.forms[t].turn, t, "told")
      /\ c \in 1..Len(ep.forms) /\ ShowsLink(ep, ep.forms[c].turn, c, "completed")
  BY <1>2, <1>5, RowsShow
<1>7. Before(ep.forms[t].turn, t, ep.forms[c].turn, c)
  BY <1>1, <1>6, RowsInOrder
<1> QED BY <1>5, <1>6, <1>7

-----------------------------------------------------------------------------
\* A chain whose links were shownIn one after the other was followed to its end.
LEMMA ChainsAreCompleted ==
    ASSUME NEW ep, EpisodeInv(ep), NEW chain \in Chains[ep.row], NEW turns, NEW indices,
           Follows(ep, chain, Len(chain), turns, indices)
    PROVE  ep.link[chain] = Len(chain)
<1>1. Len(chain) \in Nat
  BY ChainsAreLinks DEF EpisodeInv, EpisodeFits
<1>2. ep.link[chain] >= Len(chain)
  BY <1>1 DEF EpisodeInv, ChainsAreFollowed
<1>3. ep.link[chain] \in Nat /\ ep.link[chain] <= Len(chain)
  BY DEF EpisodeInv, LinksFit
<1> QED BY <1>1, <1>2, <1>3

LEMMA FollowsFive ==
    ASSUME NEW ep, NEW e1, NEW e2, NEW e3, NEW e4, NEW e5,
           NEW t1, NEW t2, NEW t3, NEW t4, NEW t5, NEW i1, NEW i2, NEW i3, NEW i4, NEW i5,
           ShowsLink(ep, t1, i1, e1), ShowsLink(ep, t2, i2, e2), ShowsLink(ep, t3, i3, e3), ShowsLink(ep, t4, i4, e4),
           ShowsLink(ep, t5, i5, e5),
           Before(t1, i1, t2, i2), Before(t2, i2, t3, i3), Before(t3, i3, t4, i4), Before(t4, i4, t5, i5)
    PROVE  Follows(ep, <<e1, e2, e3, e4, e5>>, 5, <<t1, t2, t3, t4, t5>>, <<i1, i2, i3, i4, i5>>)
<1>1. \A k \in 1..5 : k = 1 \/ k = 2 \/ k = 3 \/ k = 4 \/ k = 5
  OBVIOUS
<1>2. \A k \in 1..(5 - 1) : k = 1 \/ k = 2 \/ k = 3 \/ k = 4
  OBVIOUS
<1> QED BY <1>1, <1>2 DEF Follows

LEMMA FollowsSix ==
    ASSUME NEW ep, NEW e1, NEW e2, NEW e3, NEW e4, NEW e5, NEW e6,
           NEW t1, NEW t2, NEW t3, NEW t4, NEW t5, NEW t6, NEW i1, NEW i2, NEW i3, NEW i4, NEW i5, NEW i6,
           ShowsLink(ep, t1, i1, e1), ShowsLink(ep, t2, i2, e2), ShowsLink(ep, t3, i3, e3), ShowsLink(ep, t4, i4, e4),
           ShowsLink(ep, t5, i5, e5), ShowsLink(ep, t6, i6, e6),
           Before(t1, i1, t2, i2), Before(t2, i2, t3, i3), Before(t3, i3, t4, i4), Before(t4, i4, t5, i5),
           Before(t5, i5, t6, i6)
    PROVE  Follows(ep, <<e1, e2, e3, e4, e5, e6>>, 6, <<t1, t2, t3, t4, t5, t6>>, <<i1, i2, i3, i4, i5, i6>>)
<1>1. \A k \in 1..6 : k = 1 \/ k = 2 \/ k = 3 \/ k = 4 \/ k = 5 \/ k = 6
  OBVIOUS
<1>2. \A k \in 1..(6 - 1) : k = 1 \/ k = 2 \/ k = 3 \/ k = 4 \/ k = 5
  OBVIOUS
<1> QED BY <1>1, <1>2 DEF Follows

LEMMA FollowsSeven ==
    ASSUME NEW ep, NEW e1, NEW e2, NEW e3, NEW e4, NEW e5, NEW e6, NEW e7,
           NEW t1, NEW t2, NEW t3, NEW t4, NEW t5, NEW t6, NEW t7,
           NEW i1, NEW i2, NEW i3, NEW i4, NEW i5, NEW i6, NEW i7,
           ShowsLink(ep, t1, i1, e1), ShowsLink(ep, t2, i2, e2), ShowsLink(ep, t3, i3, e3), ShowsLink(ep, t4, i4, e4),
           ShowsLink(ep, t5, i5, e5), ShowsLink(ep, t6, i6, e6), ShowsLink(ep, t7, i7, e7),
           Before(t1, i1, t2, i2), Before(t2, i2, t3, i3), Before(t3, i3, t4, i4), Before(t4, i4, t5, i5),
           Before(t5, i5, t6, i6), Before(t6, i6, t7, i7)
    PROVE  Follows(ep, <<e1, e2, e3, e4, e5, e6, e7>>, 7,
                   <<t1, t2, t3, t4, t5, t6, t7>>, <<i1, i2, i3, i4, i5, i6, i7>>)
<1>1. \A k \in 1..7 : k = 1 \/ k = 2 \/ k = 3 \/ k = 4 \/ k = 5 \/ k = 6 \/ k = 7
  OBVIOUS
<1>2. \A k \in 1..(7 - 1) : k = 1 \/ k = 2 \/ k = 3 \/ k = 4 \/ k = 5 \/ k = 6
  OBVIOUS
<1> QED BY <1>1, <1>2 DEF Follows

-----------------------------------------------------------------------------
\* One lemma for each row's oracle.
LEMMA RootIsEarned ==
    ASSUME NEW ep, EpisodeInv(ep), ep.row = "root_orchestration", Root(ep.prompts, ep.forms)
    PROVE  ep.link[RootChain] = Len(RootChain)
<1> DEFINE rows == ep.forms
           turns == ep.prompts
           startRows == OkIndices(rows, "start")
           queryRows == OkIndices(rows, "query")
           s == Min(startRows)
           q == Max(queryRows)
           child == ChildIdAfterStart(turns, rows[s])
           exposed(row) == {p \in LaterPrompts(turns, row) : child \subseteq turns[p]}
<1>1. /\ Cardinality(startRows) = 1 /\ startRows = Right(rows, startRows) /\ queryRows # {} /\ s < q
      /\ child # {} /\ "right" \in rows[q].source
      /\ \E p \in exposed(rows[s]) : p <= rows[q].turn
      /\ exposed(rows[q]) # {}
      /\ ReportedValues(rows, q, Min(exposed(rows[q])))
  BY DEF Root
<1>2. "start" \in Links /\ "query" \in Links
  BY DEF Links
<1>3. startRows \subseteq 1..Len(rows) /\ queryRows \subseteq 1..Len(rows)
  BY <1>2, RowsShow
<1>4. startRows # {}
  <2>1. Cardinality({}) = 0
    BY FS_EmptySet, Zenon
  <2> HIDE DEF startRows
  <2> QED BY <1>1, <2>1
<1>5. s \in startRows /\ q \in queryRows
  <2> HIDE DEF startRows, queryRows
  <2> QED BY <1>1, <1>3, <1>4, RowsOfCalls
<1>6. s \in 1..Len(rows) /\ q \in 1..Len(rows) /\ "right" \in rows[s].source
  BY <1>1, <1>3, <1>5 DEF Right
<1> HIDE DEF s, q
<1>7. ShowsLink(ep, rows[s].turn, s, "start") /\ ShowsLink(ep, rows[q].turn, q, "query")
  BY <1>1, <1>2, <1>5, <1>6, RowsShow
<1>8. child = {"child"}
  <2> DEFINE ids == UNION {turns[p] : p \in LaterPrompts(turns, rows[s])}
  <2>1. child = ids /\ Cardinality(ids) = 1
    BY <1>1 DEF ChildIdAfterStart
  <2>2. \A p \in LaterPrompts(turns, rows[s]) : ChildrenFit(turns[p])
    BY <1>6, PromptsShow DEF EpisodeInv, PromptsFit
  <2>3. ids \subseteq {"child", "second_child"} /\ (ids # {} => "child" \in ids)
    BY <2>2 DEF ChildrenFit
  <2>4. "child" \in ids /\ "second_child" \notin ids
    <3>1. IsFiniteSet({"child"}) /\ Cardinality({"child"}) = 1
      BY FS_Singleton, Zenon
    <3>2. {"child"} \cup {"second_child"} = {"child", "second_child"} /\ "second_child" \notin {"child"}
      OBVIOUS
    <3>3. Cardinality({"child"} \cup {"second_child"}) = Cardinality({"child"}) + 1
      BY <3>1, <3>2, FS_AddElement, Zenon
    <3>4. ids # {"child", "second_child"}
      <4> HIDE DEF ids
      <4> QED BY <2>1, <3>1, <3>2, <3>3
    <3>5. ids # {}
      BY <1>1, <2>1
    <3> QED BY <2>3, <3>4, <3>5
  <2> QED BY <2>1, <2>3, <2>4
<1> HIDE DEF child
<1>9. Asked[ep.row] = child
  BY <1>8 DEF Asked
<1>10. PICK p \in exposed(rows[s]) : p <= rows[q].turn
  BY <1>1
<1> DEFINE p2 == Min(exposed(rows[q]))
<1>11. p2 \in exposed(rows[q])
  <2> DEFINE afterQuery == exposed(rows[q])
  <2>1. afterQuery # {} /\ afterQuery \subseteq LaterPrompts(turns, rows[q])
    BY <1>1
  <2> HIDE DEF afterQuery
  <2>2. Min(afterQuery) \in afterQuery
    BY <1>6, <2>1, LaterPromptsAreNats
  <2> QED BY <2>2 DEF afterQuery
<1> HIDE DEF p2
<1>12. /\ Before(rows[s].turn, s, p, 0) /\ ShowsLink(ep, p, 0, "sees") /\ Before(p, 0, rows[q].turn, q)
  <2>1. p \in LaterPrompts(turns, rows[s]) /\ Asked[ep.row] \subseteq turns[p]
    BY <1>9, <1>10
  <2>2. rows[q].turn >= p
    <3>1. p \in Nat /\ rows[q].turn \in 1..Len(ep.prompts)
      BY <1>2, <1>5, <1>6, <2>1, PromptsShow, RowsShow
    <3> QED BY <1>10, <3>1
  <2> QED BY <1>6, <2>1, <2>2, PromptsShow
<1>13. p2 \in LaterPrompts(turns, rows[q]) /\ Asked[ep.row] \subseteq turns[p2]
  BY <1>9, <1>11
<1>14. Before(rows[q].turn, q, p2, 0) /\ ShowsLink(ep, p2, 0, "sees")
  BY <1>6, <1>13, PromptsShow
<1>15. PICK t, c \in 1..Len(rows) :
          /\ t > q /\ rows[t].turn >= p2
          /\ ShowsLink(ep, rows[t].turn, t, "told") /\ ShowsLink(ep, rows[c].turn, c, "completed")
          /\ Before(rows[t].turn, t, rows[c].turn, c)
  BY <1>1, ReportsAreRows DEF p2
<1>16. Before(p2, 0, rows[t].turn, t)
  BY <1>6, <1>13, <1>15, PromptsShow
<1> DEFINE moments == <<rows[s].turn, p, rows[q].turn, p2, rows[t].turn, rows[c].turn>>
           indices == <<s, 0, q, 0, t, c>>
<1>17. Follows(ep, RootChain, 6, moments, indices)
  <2> HIDE DEF rows
  <2> QED BY <1>7, <1>12, <1>14, <1>15, <1>16, FollowsSix, Zenon DEF RootChain
<1>18. RootChain \in Chains[ep.row] /\ Len(RootChain) = 6
  BY ChainsAre DEF RootChain
<1> HIDE DEF moments, indices
<1> QED BY <1>17, <1>18, ChainsAreCompleted

LEMMA DiscoveryIsEarned ==
    ASSUME NEW ep, EpisodeInv(ep), ep.row = "namespace_discovery", Discovery(ep.prompts, ep.forms)
    PROVE  ep.link[DiscoveryChain] = Len(DiscoveryChain)
<1> DEFINE rows == ep.forms
           turns == ep.prompts
           f == Min(OkIndices(rows, "functions"))
           m == Min(OkIndices(rows, "move"))
           g == Min(OkIndices(rows, "grants"))
           r == Max(OkIndices(rows, "return"))
           shownIn == {p \in LaterPrompts(turns, rows[m]) : "functions" \in turns[p]}
           p == Min(shownIn)
<1>1. /\ OkIndices(rows, "functions") # {} /\ OkIndices(rows, "move") # {} /\ "right" \in rows[f].source
      /\ f < m /\ shownIn # {} /\ OkIndices(rows, "grants") # {} /\ rows[g].turn >= p
      /\ OkIndices(rows, "return") # {} /\ g < r /\ ReportedValues(rows, r, p)
  BY DEF Discovery
<1>2. /\ "functions" \in Links /\ "move" \in Links /\ "grants" \in Links /\ "return" \in Links
      /\ "move" \notin Naming(ep.row) /\ "grants" \notin Naming(ep.row) /\ "return" \notin Naming(ep.row)
  BY DEF Links, Naming
<1>3. \A call \in Links : OkIndices(rows, call) \subseteq 1..Len(rows)
  BY RowsShow
<1>4. /\ f \in OkIndices(rows, "functions") /\ m \in OkIndices(rows, "move")
      /\ g \in OkIndices(rows, "grants") /\ r \in OkIndices(rows, "return")
  BY <1>1, <1>2, <1>3, RowsOfCalls
<1> HIDE DEF f, m, g, r
<1>5. f \in 1..Len(rows) /\ m \in 1..Len(rows) /\ g \in 1..Len(rows) /\ r \in 1..Len(rows)
  BY <1>2, <1>3, <1>4
<1>6. /\ ShowsLink(ep, rows[f].turn, f, "functions") /\ ShowsLink(ep, rows[m].turn, m, "move")
      /\ ShowsLink(ep, rows[g].turn, g, "grants") /\ ShowsLink(ep, rows[r].turn, r, "return")
  BY <1>1, <1>2, <1>4, RowsShow
<1>7. p \in shownIn
  BY <1>1, <1>5, LaterPromptsAreNats
<1> HIDE DEF p
<1>8. p \in LaterPrompts(turns, rows[m]) /\ Asked[ep.row] \subseteq turns[p]
  BY <1>7 DEF Asked
<1>9. Before(rows[m].turn, m, p, 0) /\ ShowsLink(ep, p, 0, "sees") /\ Before(p, 0, rows[g].turn, g)
  BY <1>1, <1>5, <1>8, PromptsShow
<1>10. PICK t, c \in 1..Len(rows) :
          /\ t > r /\ rows[t].turn >= p
          /\ ShowsLink(ep, rows[t].turn, t, "told") /\ ShowsLink(ep, rows[c].turn, c, "completed")
          /\ Before(rows[t].turn, t, rows[c].turn, c)
  BY <1>1, ReportsAreRows
<1>11. /\ Before(rows[f].turn, f, rows[m].turn, m) /\ Before(rows[g].turn, g, rows[r].turn, r)
       /\ Before(rows[r].turn, r, rows[t].turn, t)
  <2>1. r < t
    BY <1>5, <1>10
  <2> QED BY <1>1, <1>5, <1>10, <2>1, RowsInOrder
<1> DEFINE moments == <<rows[f].turn, rows[m].turn, p, rows[g].turn, rows[r].turn, rows[t].turn, rows[c].turn>>
           indices == <<f, m, 0, g, r, t, c>>
<1>12. Follows(ep, DiscoveryChain, 7, moments, indices)
  <2> HIDE DEF rows
  <2> QED BY <1>6, <1>9, <1>10, <1>11, FollowsSeven, Zenon DEF DiscoveryChain
<1>13. DiscoveryChain \in Chains[ep.row] /\ Len(DiscoveryChain) = 7
  BY ChainsAre DEF DiscoveryChain
<1> HIDE DEF moments, indices
<1> QED BY <1>12, <1>13, ChainsAreCompleted

LEMMA SkillsAreEarned ==
    ASSUME NEW ep, EpisodeInv(ep), ep.row = "skill_lifecycle", Skills(ep.prompts, ep.forms)
    PROVE  ep.link[SkillsChain] = Len(SkillsChain)
<1> DEFINE rows == ep.forms
           turns == ep.prompts
           l == Min(OkIndices(rows, "list"))
           d == Min(OkIndices(rows, "load"))
           u == Max(OkIndices(rows, "unload"))
           loaded == {p \in LaterPrompts(turns, rows[d]) : "body" \in turns[p]}
           gone == {p \in LaterPrompts(turns, rows[u]) : "body" \notin turns[p]}
           p == Min(loaded)
           g == Min(gone)
<1>1. /\ OkIndices(rows, "list") # {} /\ OkIndices(rows, "load") # {} /\ OkIndices(rows, "unload") # {}
      /\ "right" \in rows[d].source /\ "right" \in rows[u].source /\ l < d /\ d < u
      /\ loaded # {} /\ gone # {} /\ rows[u].turn >= p /\ ReportedValues(rows, u, g)
  BY DEF Skills
<1>2. "list" \in Links /\ "load" \in Links /\ "unload" \in Links /\ "list" \notin Naming(ep.row)
  BY DEF Links, Naming
<1>3. \A call \in Links : OkIndices(rows, call) \subseteq 1..Len(rows)
  BY RowsShow
<1>4. l \in OkIndices(rows, "list") /\ d \in OkIndices(rows, "load") /\ u \in OkIndices(rows, "unload")
  BY <1>1, <1>2, <1>3, RowsOfCalls
<1> HIDE DEF l, d, u
<1>5. l \in 1..Len(rows) /\ d \in 1..Len(rows) /\ u \in 1..Len(rows)
  BY <1>2, <1>3, <1>4
<1>6. /\ ShowsLink(ep, rows[l].turn, l, "list") /\ ShowsLink(ep, rows[d].turn, d, "load") /\ ShowsLink(ep, rows[u].turn, u, "unload")
  BY <1>1, <1>2, <1>4, RowsShow
<1>7. p \in loaded /\ g \in gone
  <2>1. loaded \subseteq LaterPrompts(turns, rows[d]) /\ gone \subseteq LaterPrompts(turns, rows[u])
    OBVIOUS
  <2> HIDE DEF loaded, gone
  <2>2. p \in loaded
    BY <1>1, <1>5, <2>1, LaterPromptsAreNats
  <2>3. g \in gone
    BY <1>1, <1>5, <2>1, LaterPromptsAreNats
  <2> QED BY <2>2, <2>3
<1> HIDE DEF p, g
<1>8. /\ p \in LaterPrompts(turns, rows[d]) /\ Asked[ep.row] \subseteq turns[p]
      /\ g \in LaterPrompts(turns, rows[u]) /\ ~(Asked[ep.row] \subseteq turns[g])
  BY <1>7 DEF Asked
<1>9. /\ Before(rows[d].turn, d, p, 0) /\ ShowsLink(ep, p, 0, "sees") /\ Before(p, 0, rows[u].turn, u)
      /\ Before(rows[u].turn, u, g, 0) /\ ShowsLink(ep, g, 0, "misses")
  BY <1>1, <1>5, <1>8, PromptsShow
<1>10. PICK t, c \in 1..Len(rows) :
          /\ t > u /\ rows[t].turn >= g
          /\ ShowsLink(ep, rows[t].turn, t, "told") /\ ShowsLink(ep, rows[c].turn, c, "completed")
          /\ Before(rows[t].turn, t, rows[c].turn, c)
  BY <1>1, ReportsAreRows
<1>11. Before(rows[l].turn, l, rows[d].turn, d) /\ Before(g, 0, rows[t].turn, t)
  BY <1>1, <1>5, <1>8, <1>10, RowsInOrder, PromptsShow
<1> DEFINE moments == <<rows[l].turn, rows[d].turn, p, rows[u].turn, g, rows[t].turn, rows[c].turn>>
           indices == <<l, d, 0, u, 0, t, c>>
<1>12. Follows(ep, SkillsChain, 7, moments, indices)
  <2> HIDE DEF rows
  <2> QED BY <1>6, <1>9, <1>10, <1>11, FollowsSeven, Zenon DEF SkillsChain
<1>13. SkillsChain \in Chains[ep.row] /\ Len(SkillsChain) = 7
  BY ChainsAre DEF SkillsChain
<1> HIDE DEF moments, indices
<1> QED BY <1>12, <1>13, ChainsAreCompleted

LEMMA AcmeIsEarned ==
    ASSUME NEW ep, EpisodeInv(ep), ep.row = "acme_product_tools", Acme(ep.prompts, ep.forms)
    PROVE  \E chain \in Chains[ep.row] : ep.link[chain] = Len(chain)
<1> DEFINE rows == ep.forms
           turns == ep.prompts
           a == Min(OkIndices(rows, "tagline"))
           b == Min(OkIndices(rows, "location"))
           last == Max({a, b})
           shownIn == {p \in LaterPrompts(turns, rows[last]) : Asked.acme_product_tools \subseteq turns[p]}
           p == Min(shownIn)
<1>1. /\ OkIndices(rows, "tagline") # {} /\ OkIndices(rows, "location") # {} /\ "right" \in rows[b].source
      /\ shownIn # {} /\ ReportedValues(rows, last, p)
  BY DEF Acme
<1>2. "tagline" \in Links /\ "location" \in Links /\ "tagline" \notin Naming(ep.row)
  BY DEF Links, Naming
<1>3. \A call \in Links : OkIndices(rows, call) \subseteq 1..Len(rows)
  BY RowsShow
<1>4. a \in OkIndices(rows, "tagline") /\ b \in OkIndices(rows, "location")
  BY <1>1, <1>2, <1>3, RowsOfCalls
<1> HIDE DEF a, b
<1>5. a \in 1..Len(rows) /\ b \in 1..Len(rows) /\ Len(rows) \in Nat
  BY <1>2, <1>3, <1>4 DEF EpisodeInv, EpisodeFits
<1>6. ShowsLink(ep, rows[a].turn, a, "tagline") /\ ShowsLink(ep, rows[b].turn, b, "location")
  BY <1>1, <1>2, <1>4, RowsShow
<1>7. a # b
  BY <1>2, <1>4, RowsShow
<1>8. last \in {a, b} /\ a <= last /\ b <= last
  BY <1>5, MaxOfIndices
<1> HIDE DEF last
<1>9. p \in shownIn
  <2>1. last \in 1..Len(rows)
    BY <1>5, <1>8
  <2>2. shownIn \subseteq LaterPrompts(turns, rows[last])
    OBVIOUS
  <2> HIDE DEF shownIn
  <2> QED BY <1>1, <2>1, <2>2, LaterPromptsAreNats
<1> HIDE DEF p
<1>10. p \in LaterPrompts(turns, rows[last]) /\ Asked[ep.row] \subseteq turns[p]
  BY <1>9
<1>11. Before(rows[last].turn, last, p, 0) /\ ShowsLink(ep, p, 0, "sees")
  BY <1>5, <1>8, <1>10, PromptsShow
<1>12. PICK t, c \in 1..Len(rows) :
          /\ t > last /\ rows[t].turn >= p
          /\ ShowsLink(ep, rows[t].turn, t, "told") /\ ShowsLink(ep, rows[c].turn, c, "completed")
          /\ Before(rows[t].turn, t, rows[c].turn, c)
  BY <1>1, ReportsAreRows
<1>13. Before(p, 0, rows[t].turn, t)
  BY <1>5, <1>8, <1>10, <1>12, PromptsShow
<1>14. CASE last = b
  <2>1. Before(rows[a].turn, a, rows[b].turn, b)
    BY <1>5, <1>7, <1>8, <1>14, RowsInOrder
  <2> DEFINE moments == <<rows[a].turn, rows[b].turn, p, rows[t].turn, rows[c].turn>>
             indices == <<a, b, 0, t, c>>
  <2>2. Before(rows[b].turn, b, p, 0)
    BY <1>11, <1>14
  <2>3. Follows(ep, AcmeChain, 5, moments, indices)
    <3> HIDE DEF rows
    <3> QED BY <1>6, <1>11, <1>12, <1>13, <2>1, <2>2, FollowsFive, Zenon DEF AcmeChain
  <2>4. AcmeChain \in Chains[ep.row] /\ Len(AcmeChain) = 5
    BY ChainsAre DEF AcmeChain
  <2> HIDE DEF moments, indices
  <2> QED BY <2>3, <2>4, ChainsAreCompleted
<1>15. CASE last = a
  <2>1. Before(rows[b].turn, b, rows[a].turn, a)
    BY <1>5, <1>7, <1>8, <1>15, RowsInOrder
  <2> DEFINE moments == <<rows[b].turn, rows[a].turn, p, rows[t].turn, rows[c].turn>>
             indices == <<b, a, 0, t, c>>
  <2>2. Before(rows[a].turn, a, p, 0)
    BY <1>11, <1>15
  <2>3. Follows(ep, EmcaChain, 5, moments, indices)
    <3> HIDE DEF rows
    <3> QED BY <1>6, <1>11, <1>12, <1>13, <2>1, <2>2, FollowsFive, Zenon DEF EmcaChain
  <2>4. EmcaChain \in Chains[ep.row] /\ Len(EmcaChain) = 5
    BY ChainsAre DEF EmcaChain
  <2> HIDE DEF moments, indices
  <2> QED BY <2>3, <2>4, ChainsAreCompleted
<1> QED BY <1>8, <1>14, <1>15

LEMMA ReachCredit == ReachInv => ReachabilityEarned
<1> SUFFICES ASSUME ReachInv, NEW rows \in Responses(episode.forms, {"told", "right"}),
                    CheckReachability(episode.row, episode.prompts, rows, "values", Len(episode.forms))
             PROVE  \E chain \in Chains[episode.row] : episode.link[chain] = Len(chain)
  BY DEF ReachabilityEarned
<1>1. EpisodeInv(episode) /\ episode.forms \in Seq(ReachForms) /\ episode.row \in ReachRows
  BY DEF ReachInv, EpisodeInv, EpisodeFits
<1>2. OrderedProofRows(rows, Len(episode.forms))
  BY DEF CheckReachability, OrderedEvidence
<1>3. rows = episode.forms
  <2>1. \A i \in 1..Len(episode.forms) : episode.forms[i].at = i
    BY <1>1 DEF EpisodeInv, FormsFit
  <2> QED BY <1>1, <1>2, <2>1, ResponsesAreOrdered
<1>4. CASE episode.row = "root_orchestration"
  <2>1. Root(episode.prompts, episode.forms)
    BY <1>3, <1>4 DEF CheckReachability
  <2> QED BY <1>1, <1>4, <2>1, RootIsEarned, ChainsAre
<1>5. CASE episode.row = "namespace_discovery"
  <2>1. Discovery(episode.prompts, episode.forms)
    BY <1>3, <1>5 DEF CheckReachability
  <2> QED BY <1>1, <1>5, <2>1, DiscoveryIsEarned, ChainsAre
<1>6. CASE episode.row = "skill_lifecycle"
  <2>1. Skills(episode.prompts, episode.forms)
    BY <1>3, <1>6 DEF CheckReachability
  <2> QED BY <1>1, <1>6, <2>1, SkillsAreEarned, ChainsAre
<1>7. CASE episode.row = "acme_product_tools"
  <2>1. Acme(episode.prompts, episode.forms)
    BY <1>3, <1>7 DEF CheckReachability
  <2> QED BY <1>1, <1>7, <2>1, AcmeIsEarned
<1> QED BY <1>1, <1>4, <1>5, <1>6, <1>7, ChainsAre

-----------------------------------------------------------------------------
(* ProductScenarios.                                                       *)

Executions == [pid : Pids, digest : {1, 2}, ready : BOOLEAN]
Crashes == [pid : Pids, digest : {1, 2}, recorded : BOOLEAN]
Branches ==
    [live : SUBSET Agents, messages : Seq(Agents), evals : Seq([agent : Agents, inside : BOOLEAN]),
     versions : Seq({"draft", "repaired"}), calls : SUBSET Agents, repairs : SUBSET Agents,
     tested : BOOLEAN, parallel : BOOLEAN, crashes : Seq(Crashes), processes : SUBSET Executions,
     later : BOOLEAN, sibling : BOOLEAN, pod : {1, 2}, database : {1, 2}, value : {"none", "committed"}]

\* A branch whose residents can be counted and whose repairs are in the function's history.
FitBranch(b) ==
    /\ b \in Branches
    /\ IsFiniteSet(b.live)
    /\ b.repairs # {} => \E v \in 1..Len(b.versions) : b.versions[v] = "repaired"

Judging == {"release", "failed", "record", "scored", "raised"}

\* What the scorer is given was read from the branch as it is.
SnapshotOfBranch(s) ==
    IF scenario = "child_recovery"
    THEN \E r \in ReadChildRecovery(branch) : s = [pid |-> r.pid, digest |-> r.digest, processes |-> branch.processes]
    ELSE s \in ProductEvidence(scenario, branch)

ProductInv ==
    /\ scenario \in Scenarios
    /\ FitBranch(branch)
    /\ stage \in {"record", "scored"} => lease = "closed"
    /\ stage \notin Judging => productSnapshot = {}
    /\ stage = "processes" => scenario = "child_recovery" /\ found \subseteq ReadChildRecovery(branch)
    /\ \A s \in productSnapshot : SnapshotOfBranch(s)

LEMMA ProductInvStarts == ProductInit => ProductInv
<1> SUFFICES ASSUME ProductInit PROVE ProductInv
  OBVIOUS
<1>1. EmptyBranch \in Branches
  BY DEF EmptyBranch, Branches, Executions, Pids
<1>2. EmptyBranch.live = {} /\ EmptyBranch.repairs = {}
  BY DEF EmptyBranch
<1>3. FitBranch(branch)
  BY <1>1, <1>2, FS_EmptySet DEF FitBranch, ProductInit
<1> QED BY <1>3 DEF ProductInit, ProductInv, Judging

\* What happens in a phase leaves a branch that is fit.
LEMMA HappensKeeps ==
    ASSUME ProductInv, NEW set, Happens(set), \A b \in set : FitBranch(b)
    PROVE  ProductInv'
<1>1. /\ branch' \in set /\ UNCHANGED <<scenario, stage, lease, found, productSnapshot>>
      /\ stage \in {"first phase", "second phase"}
  BY DEF Happens
<1>2. productSnapshot = {}
  BY <1>1 DEF ProductInv, Judging
<1>3. FitBranch(branch')
  BY <1>1
<1> QED BY <1>1, <1>2, <1>3 DEF ProductInv, Judging, FitBranch

\* Appending a version forgets no repair.
LEMMA VersionsGrow ==
    ASSUME NEW s \in Seq({"draft", "repaired"}), NEW v \in {"draft", "repaired"}
    PROVE  /\ Append(s, v) \in Seq({"draft", "repaired"})
           /\ Append(s, v)[Len(Append(s, v))] = v /\ Len(Append(s, v)) = Len(s) + 1
           /\ (\E i \in 1..Len(s) : s[i] = "repaired") => \E i \in 1..Len(Append(s, v)) : Append(s, v)[i] = "repaired"
OBVIOUS

LEMMA AddressedKeeps == ASSUME ProductInv, Addressed PROVE ProductInv'
<1> DEFINE to(a) == [branch EXCEPT !.messages = Append(@, a), !.live = @ \cup {a}]
<1>1. FitBranch(branch)
  BY DEF ProductInv
<1>2. ASSUME NEW a \in Agents PROVE FitBranch(to(a))
  <2> DEFINE ms == Append(branch.messages, a)
             residents == branch.live \cup {a}
  <2>0. branch \in Branches /\ ms \in Seq(Agents) /\ residents \in SUBSET Agents
    BY <1>1 DEF FitBranch, Branches
  <2>1. to(a) \in Branches /\ to(a).live = residents /\ to(a).repairs = branch.repairs
        /\ to(a).versions = branch.versions
    <3>1. to(a) = [branch EXCEPT !.messages = ms, !.live = residents]
      OBVIOUS
    <3> HIDE DEF ms, residents, to
    <3> QED BY <2>0, <3>1 DEF Branches
  <2>2. IsFiniteSet(to(a).live)
    BY <1>1, <2>1, FS_AddElement DEF FitBranch
  <2> QED BY <1>1, <2>1, <2>2 DEF FitBranch
<1> QED BY <1>2, HappensKeeps DEF Addressed

LEMMA ResidentKeeps == ASSUME ProductInv, Resident PROVE ProductInv'
<1> DEFINE works(a, inside) == [branch EXCEPT !.evals = Append(@, [agent |-> a, inside |-> inside])]
           leaves(a) == [branch EXCEPT !.live = @ \ {a}]
<1>1. FitBranch(branch)
  BY DEF ProductInv
<1>2. ASSUME NEW a \in branch.live, NEW inside \in BOOLEAN PROVE FitBranch(works(a, inside))
  <2> DEFINE rows == Append(branch.evals, [agent |-> a, inside |-> inside])
  <2>0. branch \in Branches /\ rows \in Seq([agent : Agents, inside : BOOLEAN])
    BY <1>1 DEF FitBranch, Branches
  <2>1. works(a, inside) \in Branches /\ works(a, inside).live = branch.live
        /\ works(a, inside).repairs = branch.repairs /\ works(a, inside).versions = branch.versions
    <3>1. works(a, inside) = [branch EXCEPT !.evals = rows]
      OBVIOUS
    <3> HIDE DEF rows, works
    <3> QED BY <2>0, <3>1 DEF Branches
  <2> QED BY <1>1, <2>1 DEF FitBranch
<1>3. ASSUME NEW a \in branch.live PROVE FitBranch(leaves(a))
  <2>1. leaves(a) \in Branches /\ leaves(a).live = branch.live \ {a}
        /\ leaves(a).repairs = branch.repairs /\ leaves(a).versions = branch.versions
    BY <1>1 DEF FitBranch, Branches
  <2>2. IsFiniteSet(leaves(a).live)
    BY <1>1, <2>1, FS_Subset DEF FitBranch
  <2> QED BY <1>1, <2>1, <2>2 DEF FitBranch
<1>4. Happens({works(a, inside) : a \in branch.live, inside \in BOOLEAN} \cup {leaves(a) : a \in branch.live})
  BY DEF Resident
<1> HIDE DEF works, leaves
<1>5. \A b \in {works(a, inside) : a \in branch.live, inside \in BOOLEAN} \cup {leaves(a) : a \in branch.live} :
         FitBranch(b)
  BY <1>2, <1>3
<1> QED BY <1>4, <1>5, HappensKeeps

LEMMA SharedKeeps == ASSUME ProductInv, Shared PROVE ProductInv'
<1> DEFINE publishes == [branch EXCEPT !.versions = Append(@, "draft")]
           uses(a) == [branch EXCEPT !.calls = @ \cup {a}]
           repairs(a) == [branch EXCEPT !.repairs = @ \cup {a}, !.versions = Append(@, "repaired")]
           doubles == [branch EXCEPT !.parallel = TRUE]
           tests == [branch EXCEPT !.tested = @ \/ (branch.versions # <<>> /\ Last(branch.versions) = "repaired")]
           users == {b \in Agents : branch.versions # <<>>}
<1>1. FitBranch(branch)
  BY DEF ProductInv
<1>2. FitBranch(publishes)
  <2>1. publishes \in Branches /\ publishes.live = branch.live /\ publishes.repairs = branch.repairs
        /\ publishes.versions = Append(branch.versions, "draft")
    BY <1>1, VersionsGrow DEF FitBranch, Branches
  <2>2. branch.versions \in Seq({"draft", "repaired"})
    BY <1>1 DEF FitBranch, Branches
  <2> HIDE DEF publishes
  <2> QED BY <1>1, <2>1, <2>2, VersionsGrow DEF FitBranch
<1>3. ASSUME NEW a \in Agents PROVE FitBranch(uses(a))
  <2>1. uses(a) \in Branches /\ uses(a).live = branch.live
        /\ uses(a).repairs = branch.repairs /\ uses(a).versions = branch.versions
    BY <1>1 DEF FitBranch, Branches
  <2> QED BY <1>1, <2>1 DEF FitBranch
<1>4. ASSUME NEW a \in Agents PROVE FitBranch(repairs(a))
  <2>1. repairs(a) \in Branches /\ repairs(a).live = branch.live
        /\ repairs(a).versions = Append(branch.versions, "repaired")
    BY <1>1, VersionsGrow DEF FitBranch, Branches
  <2>2. branch.versions \in Seq({"draft", "repaired"})
    BY <1>1 DEF FitBranch, Branches
  <2>3. LET v == Append(branch.versions, "repaired") IN Len(v) \in 1..Len(v) /\ v[Len(v)] = "repaired"
    BY <2>2, VersionsGrow
  <2> HIDE DEF repairs
  <2> QED BY <1>1, <2>1, <2>3 DEF FitBranch
<1>5. FitBranch(doubles)
  <2>1. doubles \in Branches /\ doubles.live = branch.live
        /\ doubles.repairs = branch.repairs /\ doubles.versions = branch.versions
    BY <1>1 DEF FitBranch, Branches
  <2> QED BY <1>1, <2>1 DEF FitBranch
<1>6. FitBranch(tests)
  <2>1. tests \in Branches /\ tests.live = branch.live
        /\ tests.repairs = branch.repairs /\ tests.versions = branch.versions
    BY <1>1 DEF FitBranch, Branches
  <2> QED BY <1>1, <2>1 DEF FitBranch
<1>7. Happens({publishes} \cup {uses(a) : a \in users} \cup {repairs(a) : a \in Agents} \cup {doubles} \cup {tests})
  BY DEF Shared
<1>8. users \subseteq Agents
  OBVIOUS
<1> HIDE DEF publishes, uses, repairs, doubles, tests, users
<1>9. \A b \in {publishes} \cup {uses(a) : a \in users} \cup {repairs(a) : a \in Agents} \cup {doubles} \cup {tests} :
         FitBranch(b)
  BY <1>2, <1>3, <1>4, <1>5, <1>6, <1>8
<1> QED BY <1>7, <1>9, HappensKeeps

\* The host changes its processes and nothing else of the branch.
LEMMA HostedKeeps ==
    ASSUME FitBranch(branch), NEW b \in Hosted(branch)
    PROVE  /\ FitBranch(b)
           /\ b.crashes = branch.crashes /\ b.later = branch.later /\ b.sibling = branch.sibling
<1>1. branch \in Branches
  BY DEF FitBranch
<1>2. \E ps \in SUBSET Executions : b = [branch EXCEPT !.processes = ps]
  <2>1. CASE b \in Started(branch)
    <3> DEFINE next == {p \in Pids : p = Max({1} \cup {q.pid : q \in branch.processes}
                                                \cup {c.pid : c \in ToSet(branch.crashes)}) + 1}
    <3>0. Started(branch) =
             {[branch EXCEPT !.processes = @ \cup {[pid |-> pid, digest |-> digest, ready |-> FALSE]}] :
                 digest \in {1, 2}, pid \in next}
      BY DEF Started
    <3>5. next \subseteq Pids
      OBVIOUS
    <3> HIDE DEF next
    <3>1. PICK digest \in {1, 2}, pid \in Pids :
             b = [branch EXCEPT !.processes = @ \cup {[pid |-> pid, digest |-> digest, ready |-> FALSE]}]
      BY <2>1, <3>0, <3>5
    <3> DEFINE ps == branch.processes \cup {[pid |-> pid, digest |-> digest, ready |-> FALSE]}
    <3>2. [pid |-> pid, digest |-> digest, ready |-> FALSE] \in Executions
      BY DEF Executions
    <3>3. branch.processes \in SUBSET Executions
      BY <1>1 DEF Branches
    <3>4. ps \in SUBSET Executions
      BY <3>2, <3>3
    <3> QED BY <3>1, <3>4
  <2>2. ASSUME NEW p \in branch.processes,
               b = [branch EXCEPT !.processes = (@ \ {p}) \cup {[p EXCEPT !.ready = TRUE]}]
        PROVE  \E ps \in SUBSET Executions : b = [branch EXCEPT !.processes = ps]
    <3> DEFINE ps == (branch.processes \ {p}) \cup {[p EXCEPT !.ready = TRUE]}
    <3>1. ps \in SUBSET Executions
      BY <1>1 DEF Branches, Executions
    <3> QED BY <2>2, <3>1
  <2>3. ASSUME NEW p \in branch.processes, b = [branch EXCEPT !.processes = @ \ {p}]
        PROVE  \E ps \in SUBSET Executions : b = [branch EXCEPT !.processes = ps]
    <3> DEFINE ps == branch.processes \ {p}
    <3>1. ps \in SUBSET Executions
      BY <1>1 DEF Branches, Executions
    <3> QED BY <2>3, <3>1
  <2> QED BY <2>1, <2>2, <2>3 DEF Hosted
<1>3. PICK ps \in SUBSET Executions : b = [branch EXCEPT !.processes = ps]
  BY <1>2
<1>4. /\ b \in Branches /\ b.crashes = branch.crashes /\ b.later = branch.later /\ b.sibling = branch.sibling
      /\ b.live = branch.live /\ b.repairs = branch.repairs /\ b.versions = branch.versions
  BY <1>1, <1>3 DEF Branches
<1> QED BY <1>4 DEF FitBranch

LEMMA CrashedKeeps == ASSUME ProductInv, Crashed PROVE ProductInv'
<1> DEFINE ready == {p \in branch.processes : p.ready}
           crashes(p) == [branch EXCEPT !.processes = @ \ {p},
                                        !.crashes = Append(@, [pid |-> p.pid, digest |-> p.digest, recorded |-> FALSE])]
           records(i) == [branch EXCEPT !.crashes[i].recorded = TRUE]
           later(p) == [branch EXCEPT !.later = \E c \in ToSet(branch.crashes) : c.recorded]
           helps == [branch EXCEPT !.sibling = TRUE]
<1>1. FitBranch(branch) /\ branch \in Branches
  BY DEF ProductInv, FitBranch
<1>2. ASSUME NEW p \in ready PROVE FitBranch(crashes(p))
  <2>1. p \in Executions /\ [pid |-> p.pid, digest |-> p.digest, recorded |-> FALSE] \in Crashes
    BY <1>1 DEF Branches, Executions, Crashes
  <2> DEFINE cs == Append(branch.crashes, [pid |-> p.pid, digest |-> p.digest, recorded |-> FALSE])
             ps == branch.processes \ {p}
  <2>3. cs \in Seq(Crashes) /\ ps \in SUBSET Executions
    BY <1>1, <2>1 DEF Branches
  <2>2. crashes(p) \in Branches /\ crashes(p).live = branch.live
        /\ crashes(p).repairs = branch.repairs /\ crashes(p).versions = branch.versions
    <3>1. crashes(p) = [branch EXCEPT !.processes = ps, !.crashes = cs]
      OBVIOUS
    <3> HIDE DEF cs, ps, crashes
    <3> QED BY <1>1, <2>3, <3>1 DEF Branches
  <2> QED BY <1>1, <2>2 DEF FitBranch
<1>3. ASSUME NEW i \in DOMAIN branch.crashes PROVE FitBranch(records(i))
  <2> DEFINE c == [branch.crashes[i] EXCEPT !.recorded = TRUE]
  <2>3. branch.crashes \in Seq(Crashes)
    BY <1>1 DEF Branches
  <2>4. c \in Crashes
    <3>1. branch.crashes[i] \in Crashes
      BY <2>3
    <3> QED BY <3>1 DEF Crashes
  <2>1. [branch.crashes EXCEPT ![i].recorded = TRUE] \in Seq(Crashes)
    <3>1. [branch.crashes EXCEPT ![i].recorded = TRUE] = [branch.crashes EXCEPT ![i] = c]
      OBVIOUS
    <3> DEFINE log == branch.crashes
    <3>2. log \in Seq(Crashes) /\ i \in DOMAIN log
      BY <2>3
    <3> HIDE DEF c, log
    <3>3. [log EXCEPT ![i] = c] \in Seq(Crashes)
      BY <3>2, <2>4
    <3> QED BY <3>1, <3>3 DEF log
  <2>2. records(i) \in Branches /\ records(i).live = branch.live
        /\ records(i).repairs = branch.repairs /\ records(i).versions = branch.versions
    BY <1>1, <2>1 DEF Branches
  <2> QED BY <1>1, <2>2 DEF FitBranch
<1>4. ASSUME NEW p \in ready PROVE FitBranch(later(p))
  <2>1. later(p) \in Branches /\ later(p).live = branch.live
        /\ later(p).repairs = branch.repairs /\ later(p).versions = branch.versions
    BY <1>1 DEF Branches
  <2> QED BY <1>1, <2>1 DEF FitBranch
<1>5. FitBranch(helps)
  <2>1. helps \in Branches /\ helps.live = branch.live
        /\ helps.repairs = branch.repairs /\ helps.versions = branch.versions
    BY <1>1 DEF Branches
  <2> QED BY <1>1, <2>1 DEF FitBranch
<1>6. Happens({crashes(p) : p \in ready} \cup {records(i) : i \in DOMAIN branch.crashes}
                \cup {later(p) : p \in ready} \cup {helps} \cup Hosted(branch))
  BY DEF Crashed
<1> HIDE DEF ready, crashes, records, later, helps
<1>7. \A b \in {crashes(p) : p \in ready} \cup {records(i) : i \in DOMAIN branch.crashes}
                \cup {later(p) : p \in ready} \cup {helps} \cup Hosted(branch) : FitBranch(b)
  BY <1>1, <1>2, <1>3, <1>4, <1>5, HostedKeeps
<1> QED BY <1>6, <1>7, HappensKeeps

LEMMA CommitsKeeps == ASSUME ProductInv, Commits PROVE ProductInv'
<1> DEFINE b == [branch EXCEPT !.value = "committed"]
<1>1. FitBranch(branch)
  BY DEF ProductInv
<1>2. b \in Branches /\ b.live = branch.live /\ b.repairs = branch.repairs /\ b.versions = branch.versions
  BY <1>1 DEF FitBranch, Branches
<1>3. FitBranch(b)
  BY <1>1, <1>2 DEF FitBranch
<1> QED BY <1>3, HappensKeeps DEF Commits

LEMMA ProductInvNext ==
    ASSUME ProductInv, [ProductNext]_productVars
    PROVE  ProductInv'
<1>1. CASE AcquireBranchLease \/ FirstRun \/ SecondRun
  <2>1. /\ UNCHANGED <<branch, found, productSnapshot, scenario>>
        /\ stage \in {"acquire", "first phase", "second phase"}
        /\ stage' \in {"raised", "first phase", "second phase", "restart", "read", "failed"}
    BY <1>1 DEF AcquireBranchLease, FirstRun, SecondRun, Proceeds
  <2>2. productSnapshot' = {}
    BY <2>1 DEF ProductInv, Judging
  <2> QED BY <2>1, <2>2 DEF ProductInv, Judging
<1>2. CASE RestartBranchLease
  <2>1. /\ UNCHANGED <<lease, found, productSnapshot, scenario>> /\ stage = "restart"
        /\ stage' \in {"second phase", "failed"}
        /\ \E itsPod \in {1, 2}, database \in {1, 2}, value \in {"none", branch.value} :
              branch' = [branch EXCEPT !.pod = itsPod, !.database = database, !.value = value]
    BY <1>2 DEF RestartBranchLease, Proceeds
  <2>2. PICK itsPod \in {1, 2}, database \in {1, 2}, value \in {"none", branch.value} :
              branch' = [branch EXCEPT !.pod = itsPod, !.database = database, !.value = value]
    BY <2>1
  <2>3. branch' \in Branches /\ branch'.live = branch.live /\ branch'.repairs = branch.repairs
        /\ branch'.versions = branch.versions
    BY <2>2 DEF ProductInv, FitBranch, Branches
  <2>4. FitBranch(branch')
    BY <2>3 DEF ProductInv, FitBranch
  <2>5. productSnapshot' = {}
    BY <2>1 DEF ProductInv, Judging
  <2> QED BY <2>1, <2>4, <2>5 DEF ProductInv, Judging, FitBranch
<1>3. CASE QueryProductEvidence
  <2>1. /\ UNCHANGED <<lease, branch, scenario>> /\ found' = ProductEvidence(scenario, branch)
        /\ stage' \in {"failed", "processes", "release"}
        /\ stage' = "processes" => scenario = "child_recovery"
        /\ productSnapshot' = IF scenario = "child_recovery" THEN {} ELSE found'
    BY <1>3 DEF QueryProductEvidence, Proceeds
  <2>2. scenario = "child_recovery" => ProductEvidence(scenario, branch) = ReadChildRecovery(branch)
    BY DEF ProductEvidence
  <2>3. \A s \in productSnapshot' : SnapshotOfBranch(s)'
    BY <2>1 DEF SnapshotOfBranch
  <2>4. stage' = "processes" => scenario' = "child_recovery" /\ found' \subseteq ReadChildRecovery(branch')
    BY <2>1, <2>2
  <2>5. stage' \notin Judging => productSnapshot' = {}
    BY <2>1 DEF Judging
  <2>6. FitBranch(branch')
    BY <2>1 DEF ProductInv
  <2> QED BY <2>1, <2>3, <2>4, <2>5, <2>6 DEF ProductInv, FitBranch, ReadChildRecovery
<1>4. CASE HostGoesOn
  <2>1. /\ UNCHANGED <<scenario, stage, lease, found, productSnapshot>> /\ stage = "processes"
        /\ branch' \in Hosted(branch)
    BY <1>4 DEF HostGoesOn
  <2>2. FitBranch(branch') /\ branch'.crashes = branch.crashes /\ branch'.later = branch.later
        /\ branch'.sibling = branch.sibling
    BY <2>1, HostedKeeps DEF ProductInv
  <2>3. ReadChildRecovery(branch') = ReadChildRecovery(branch)
    BY <2>2 DEF ReadChildRecovery
  <2>4. productSnapshot' = {}
    BY <2>1 DEF ProductInv, Judging
  <2>5. found' \subseteq ReadChildRecovery(branch') /\ scenario' = "child_recovery"
    BY <2>1, <2>3 DEF ProductInv
  <2> QED BY <2>1, <2>2, <2>4, <2>5 DEF ProductInv, Judging, FitBranch, ReadChildRecovery
<1>5. CASE QueryExecutionProcesses
  <2>1. /\ UNCHANGED <<lease, branch, found, scenario>> /\ stage = "processes" /\ stage' \in {"release", "failed"}
        /\ productSnapshot' = {[pid |-> r.pid, digest |-> r.digest, processes |-> branch.processes] : r \in found}
    BY <1>5 DEF QueryExecutionProcesses, Proceeds
  <2>2. scenario = "child_recovery" /\ found \subseteq ReadChildRecovery(branch)
    BY <2>1 DEF ProductInv
  <2>3. ReadChildRecovery(branch') = ReadChildRecovery(branch)
    BY <2>1
  <2>4. \A s \in productSnapshot' : SnapshotOfBranch(s)'
    BY <2>1, <2>2, <2>3 DEF SnapshotOfBranch
  <2>5. FitBranch(branch')
    BY <2>1 DEF ProductInv
  <2> QED BY <2>1, <2>2, <2>4, <2>5 DEF ProductInv, Judging, FitBranch
<1>6. CASE ReleaseBranchLease \/ RecordResults
  <2>1. /\ UNCHANGED <<branch, found, productSnapshot, scenario>> /\ stage \in Judging
        /\ stage' \in {"record", "raised", "scored"}
        /\ stage' = "record" => lease' = "closed"
        /\ stage' = "scored" => lease' = lease /\ stage = "record"
    BY <1>6 DEF ReleaseBranchLease, RecordResults, Proceeds, Judging
  <2>2. \A s \in productSnapshot' : SnapshotOfBranch(s)'
    BY <2>1 DEF ProductInv, SnapshotOfBranch
  <2>3. stage' \in {"record", "scored"} => lease' = "closed"
    BY <2>1 DEF ProductInv
  <2>4. FitBranch(branch') /\ scenario' \in Scenarios
    BY <2>1 DEF ProductInv
  <2> QED BY <2>1, <2>2, <2>3, <2>4 DEF ProductInv, Judging, FitBranch
<1>7. CASE UNCHANGED productVars
  BY <1>7 DEF productVars, ProductInv, SnapshotOfBranch
<1> QED BY <1>1, <1>2, <1>3, <1>4, <1>5, <1>6, <1>7, AddressedKeeps, ResidentKeeps, SharedKeeps, CrashedKeeps,
           CommitsKeeps DEF ProductNext

\* Two of something are two different ones.
LEMMA TwoOf ==
    ASSUME NEW S, IsFiniteSet(S), Cardinality(S) = 2
    PROVE  \E x, y \in S : x # y
<1>1. S # {}
  BY FS_EmptySet
<1>2. PICK x \in S : TRUE
  BY <1>1
<1>3. Cardinality(S \ {x}) = 1
  BY FS_RemoveElement
<1>4. S \ {x} # {}
  BY <1>3, FS_EmptySet
<1> QED BY <1>4

LEMMA NamespaceCredit ==
    ASSUME FitBranch(branch), NEW s \in ReadNamespace(branch), CheckNamespace(s)
    PROVE  Happened.namespace
<1> DEFINE addressed == {a \in branch.live : /\ \E m \in DOMAIN branch.messages : branch.messages[m] = a
                                             /\ \E e \in DOMAIN branch.evals : branch.evals[e].agent = a}
<1>1. PICK a \in addressed :
         /\ Cardinality(addressed) = 1
         /\ s.messages = Cardinality({m \in DOMAIN branch.messages : branch.messages[m] = a})
  <2>1. PICK a \in {a \in addressed : Cardinality(addressed) = 1} :
         s = [to |-> a,
              messages |-> Cardinality({m \in DOMAIN branch.messages : branch.messages[m] = a}),
              inside |-> branch.evals[Min({e \in DOMAIN branch.evals : branch.evals[e].agent = a})].inside]
    BY Zenon DEF ReadNamespace
  <2>2. a \in addressed /\ Cardinality(addressed) = 1
    BY <2>1
  <2>3. s.messages = Cardinality({m \in DOMAIN branch.messages : branch.messages[m] = a})
    BY <2>1
  <2> HIDE DEF addressed
  <2> QED BY <2>2, <2>3
<1>2. IsFiniteSet(addressed)
  BY FS_Subset DEF FitBranch
<1>3. \A b \in addressed : b = a
  <2> HIDE DEF addressed
  <2>1. /\ IsFiniteSet(addressed \ {a})
        /\ Cardinality(addressed \ {a}) = IF a \in addressed THEN Cardinality(addressed) - 1 ELSE Cardinality(addressed)
    BY <1>2, FS_RemoveElement, Zenon
  <2>2. Cardinality(addressed \ {a}) = 0
    BY <1>1, <2>1
  <2>3. addressed \ {a} = {}
    BY <2>1, <2>2, FS_EmptySet, Zenon
  <2> QED BY <2>3
<1>4. \A b \in addressed : b = a
  BY <1>3
<1> DEFINE sent == {m \in DOMAIN branch.messages : branch.messages[m] = a}
<1>5. Cardinality(sent) = 2
  BY <1>1 DEF CheckNamespace
<1>6. IsFiniteSet(sent)
  <2>1. DOMAIN branch.messages = 1..Len(branch.messages) /\ Len(branch.messages) \in Nat
    BY DEF FitBranch, Branches
  <2>2. 1 \in Int /\ Len(branch.messages) \in Int
    BY <2>1
  <2>3. IsFiniteSet(1..Len(branch.messages))
    BY <2>2, FS_Interval, Zenon
  <2>4. IsFiniteSet(DOMAIN branch.messages) /\ sent \subseteq DOMAIN branch.messages
    BY <2>1, <2>3
  <2> QED BY <2>4, FS_Subset
<1>7. \E m, n \in sent : m # n
  BY <1>5, <1>6, TwoOf
<1>8. \A b \in branch.live \ {a}, m \in DOMAIN branch.messages, e \in DOMAIN branch.evals :
         branch.messages[m] # b \/ branch.evals[e].agent # b
  BY <1>4
<1>9. \E r \in branch.live :
        /\ \E m, n \in DOMAIN branch.messages :
              m # n /\ branch.messages[m] = r /\ branch.messages[n] = r
        /\ \A b \in branch.live \ {r}, m \in DOMAIN branch.messages, e \in DOMAIN branch.evals :
              branch.messages[m] # b \/ branch.evals[e].agent # b
  BY <1>1, <1>7, <1>8
<1> QED BY <1>9 DEF Happened

LEMMA RepairCredit ==
    ASSUME FitBranch(branch), NEW s \in ReadReuseRepair(branch), CheckReuseRepair(s)
    PROVE  Happened.reuse_repair
<1>1. /\ Cardinality(branch.calls) = 1 /\ Cardinality(branch.repairs) = 1 /\ branch.calls # branch.repairs
      /\ branch.tested /\ s = [versions |-> Len(branch.versions), parallel |-> branch.parallel]
  BY DEF ReadReuseRepair
<1> DEFINE users == branch.calls
           repairers == branch.repairs
<1>2. users # {} /\ repairers # {} /\ users # repairers
  <2>1. Cardinality(users) = 1 /\ Cardinality(repairers) = 1 /\ users # repairers
    BY <1>1
  <2> HIDE DEF users, repairers
  <2> QED BY <2>1, FS_EmptySet
<1>3. \E a \in branch.calls, b \in branch.repairs : a # b
  <2> HIDE DEF users, repairers
  <2>1. SUFFICES \E a \in users, b \in repairers : a # b
    BY DEF users, repairers
  <2>2. PICK x \in users : TRUE
    BY <1>2
  <2>3. PICK y \in repairers : TRUE
    BY <1>2
  <2>4. CASE x = y
    BY <1>2, <2>2, <2>3, <2>4
  <2> QED BY <2>2, <2>3, <2>4
<1>4. branch.versions \in Seq({"draft", "repaired"}) /\ \E v \in 1..Len(branch.versions) : branch.versions[v] = "repaired"
  BY <1>2 DEF FitBranch, Branches
<1>5. "repaired" \in ToSet(branch.versions)
  BY <1>4 DEF ToSet
<1>6. Len(branch.versions) > 1 /\ ~branch.parallel
  BY <1>1, <1>4 DEF CheckReuseRepair
<1> QED BY <1>1, <1>3, <1>5, <1>6 DEF Happened

LEMMA RecoveryCredit ==
    ASSUME FitBranch(branch), NEW r \in ReadChildRecovery(branch),
           NEW s, s = [pid |-> r.pid, digest |-> r.digest, processes |-> branch.processes], CheckChildRecovery(s)
    PROVE  Happened.child_recovery
<1>1. PICK c \in ToSet(branch.crashes) :
         /\ Len(branch.crashes) = 1 /\ c.recorded /\ branch.later /\ branch.sibling
         /\ r.pid = c.pid /\ r.digest = c.digest
  BY DEF ReadChildRecovery
<1> DEFINE replacements == {p \in s.processes : p.pid # s.pid}
<1>2. Cardinality(replacements) = 1 /\ \A p \in replacements : p.ready /\ p.digest = s.digest
  BY DEF CheckChildRecovery
<1>3. replacements # {}
  BY <1>2, FS_EmptySet
<1>4. \E p \in branch.processes : p.ready /\ p.digest = c.digest /\ p.pid # c.pid
  BY <1>1, <1>2, <1>3
<1> QED BY <1>1, <1>4 DEF Happened

LEMMA RestartCredit ==
    ASSUME FitBranch(branch), NEW s \in ReadPodRestart(branch), CheckPodRestart(s)
    PROVE  Happened.pod_restart
<1>1. branch.pod \in {1, 2} /\ branch.pod # 1 /\ branch.database = 1 /\ branch.value = "committed"
  BY DEF ReadPodRestart, CheckPodRestart, FitBranch, Branches
<1> QED BY <1>1 DEF Happened

LEMMA ProductCredit == ProductInv => ProductEarned
<1> SUFFICES ASSUME ProductInv, stage = "scored", NEW s \in productSnapshot, CheckProduct(scenario, s)
             PROVE  Happened[scenario]
  BY DEF ProductEarned, ProductInv
<1>1. FitBranch(branch) /\ SnapshotOfBranch(s) /\ scenario \in Scenarios
  BY DEF ProductInv
<1>2. CASE scenario = "namespace"
  <2>1. s \in ReadNamespace(branch) /\ CheckNamespace(s)
    BY <1>1, <1>2 DEF SnapshotOfBranch, ProductEvidence, CheckProduct
  <2> QED BY <1>1, <1>2, <2>1, NamespaceCredit
<1>3. CASE scenario = "reuse_repair"
  <2>1. s \in ReadReuseRepair(branch) /\ CheckReuseRepair(s)
    BY <1>1, <1>3 DEF SnapshotOfBranch, ProductEvidence, CheckProduct
  <2> QED BY <1>1, <1>3, <2>1, RepairCredit
<1>4. CASE scenario = "child_recovery"
  <2>1. CheckChildRecovery(s) /\ \E r \in ReadChildRecovery(branch) :
          s = [pid |-> r.pid, digest |-> r.digest, processes |-> branch.processes]
    BY <1>1, <1>4 DEF SnapshotOfBranch, CheckProduct
  <2> QED BY <1>1, <1>4, <2>1, RecoveryCredit
<1>5. CASE scenario = "pod_restart"
  <2>1. s \in ReadPodRestart(branch) /\ CheckPodRestart(s)
    BY <1>1, <1>5 DEF SnapshotOfBranch, ProductEvidence, CheckProduct
  <2> QED BY <1>1, <1>5, <2>1, RestartCredit
<1> QED BY <1>1, <1>2, <1>3, <1>4, <1>5 DEF Scenarios

-----------------------------------------------------------------------------
(* The graders side by side.                                               *)

\* For any forms and openings of an episode, and any pod it leaves: a milestone
\* is graded correct only when the agent did it (the checks of milestone.py).
THEOREM MilestoneCreditIsEarned == MilestoneInit /\ [][MilestoneNext]_milestoneVars => []MilestoneEarned
<1> QED BY MilestoneInvStarts, MilestoneInvNext, MilestoneCredit, PTL

\* For any plans laid before the clock's second millisecond and any forms, of
\* those too that do otherwise than they look: continuity is credited only to a
\* plan that was laid before the restart, survived it, had no root made anew,
\* and of which a step was finished afterwards or in the very millisecond of the
\* interruption; and, unless a form did otherwise than it looks, only to an
\* agent that planned first and did not close in one go (check_planning in
\* planning.py).
THEOREM ContinuityCreditIsEarned == PlanInit /\ [][PlanNext]_planVars => []ContinuityEarned
<1> QED BY ContinuityInvStarts, ContinuityInvNext, ContinuityCredit, PTL

\* For any number of transactions and plans: an arm's credit is for the plan the
\* arm is about, and for an answer stored and reported in time.
THEOREM ExperimentCreditIsEarned == ExperimentInit /\ [][ExperimentNext]_experimentVars => []ExperimentEarned
<1> QED BY ExperimentInvStarts, ExperimentInvNext, ExperimentCredit, PTL

\* For any openings and numbers of forms: a row is graded correct only when the
\* agent went through a chain to its end, each link after what the prompt showed
\* of the one before it (the oracles of reachability.py).
THEOREM ReachabilityCreditIsEarned == ReachInit /\ [][ReachNext]_reachVars => []ReachabilityEarned
<1> QED BY ReachInvStarts, ReachInvNext, ReachCredit, PTL

\* For any bounds of a branch: a scenario is credited only when what it claims
\* happened in the branch it judged, and that branch was closed.
THEOREM ProductCreditIsEarned == ProductInit /\ [][ProductNext]_productVars => []ProductEarned
<1> QED BY ProductInvStarts, ProductInvNext, ProductCredit, PTL

GradersInv == MilestoneInv /\ ContinuityInv /\ ExperimentInv /\ ReachInv /\ ProductInv

\* However the graders are interleaved, none credits what was not done, with the
\* exceptions ContinuityEarned states.
THEOREM PassStaysEarned == GradersSpec => []PassIsEarned
<1>1. GradersInit => GradersInv
  BY MilestoneInvStarts, ContinuityInvStarts, ExperimentInvStarts, ReachInvStarts, ProductInvStarts
     DEF GradersInit, GradersInv
<1>2. GradersInv /\ [GradersNext]_graderVars => GradersInv'
  <2> SUFFICES ASSUME GradersInv, [GradersNext]_graderVars PROVE GradersInv'
    OBVIOUS
  <2>1. /\ [MilestoneNext]_milestoneVars /\ [PlanNext]_planVars /\ [ExperimentNext]_experimentVars
        /\ [ReachNext]_reachVars /\ [ProductNext]_productVars
    BY DEF GradersNext, graderVars
  <2> QED BY <2>1, MilestoneInvNext, ContinuityInvNext, ExperimentInvNext, ReachInvNext, ProductInvNext DEF GradersInv
<1>3. GradersInv => PassIsEarned
  BY MilestoneCredit, ContinuityCredit, ExperimentCredit, ReachCredit, ProductCredit DEF GradersInv, PassIsEarned
<1> QED BY <1>1, <1>2, <1>3, PTL DEF GradersSpec
=============================================================================
