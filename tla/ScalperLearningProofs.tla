----------------------- MODULE ScalperLearningProofs ------------------------
(***************************************************************************)
(* Proofs about ScalperLearning, for any market and any settings.  The     *)
(* argument: ids are given out once, in the order of the replays, so what  *)
(* is beyond the last consumed id has never validated; and the challenger  *)
(* that a fit promotes is one generation ahead of what is stored until the *)
(* snapshot is, so no trade is stamped before it.                          *)
(***************************************************************************)
EXTENDS ScalperLearning, RankLemmas

-----------------------------------------------------------------------------
(* Rows and their ids.                                                     *)

LEMMA RowsAreFinite ==
  ASSUME TypeOK
  PROVE  /\ Rows \subseteq Stamp /\ IsFiniteSet(Rows)
         /\ Cardinality(Rows) \in Nat /\ Cardinality(Rows) <= MaxTick
<1>1. MaxTick \in Nat /\ Rows \in SUBSET Stamp
  BY BoundsAssumption DEF Rows
<1>2. IsFiniteSet(Stamp) /\ Cardinality(Stamp) = MaxTick
  <2>1. \A k \in Nat : IsFiniteSet(1..k) /\ Cardinality(1..k) = k
    BY FS_Interval
  <2>2. QED
    BY <1>1, <2>1 DEF Stamp
<1>3. QED
  BY <1>1, <1>2, FS_Subset, FS_CardinalityType

LEMMA RowsAreNumbered ==
  ASSUME TypeOK, IdsInv, NEW S, S \subseteq Rows
  PROVE  Numbers(id, S)
<1>1. IsFiniteSet(S)
  BY RowsAreFinite, FS_Subset
<1>2. \A t \in S : id[t] \in Nat
  BY BoundsAssumption DEF TypeOK, Rows, Stamp
<1>3. \A t, u \in S : id[t] = id[u] => t = u
  BY DEF IdsInv
<1>4. QED
  BY <1>1, <1>2, <1>3 DEF Numbers

\* The last id of some rows is the id of one of them.
LEMMA LastIdIsLast ==
  ASSUME TypeOK, IdsInv, NEW S, S \subseteq Rows, S # {}
  PROVE  /\ \E t \in S : LastId(S) = id[t]
         /\ \A t \in S : id[t] <= LastId(S)
         /\ LastId(S) \in 0..MaxTick
<1>1. PICK x \in S : \A t \in S : id[t] <= id[x]
  BY RowsAreNumbered, LastExists
<1>2. \E i \in {id[t] : t \in S} : \A t \in S : id[t] <= i
  BY <1>1
<1>3. LastId(S) \in {id[t] : t \in S} /\ \A t \in S : id[t] <= LastId(S)
  BY <1>2 DEF LastId
<1>4. \A t \in S : id[t] \in 0..MaxTick
  BY DEF TypeOK, Rows
<1>5. QED
  BY <1>3, <1>4

\* A cycle that may train has a block to validate on, all of it fresh.
LEMMA BlockIsFresh ==
  ASSUME TypeOK, IdsInv, Trainable
  PROVE  Validation # {} /\ Validation \subseteq Fresh
<1>1. /\ Fresh \subseteq Rows /\ Block \in Nat /\ Block > 0
      /\ \A t \in Rows : id[t] \in Nat /\ id[t] > 0
  BY SettingsAssumption, BoundsAssumption DEF Fresh, TypeOK, Rows, Stamp
<1>2. Fresh # {}
  <2>1. Cardinality(Fresh) >= Block
    BY DEF Trainable
  <2>2. Cardinality({}) = 0
    BY FS_EmptySet
  <2>3. QED
    BY <1>1, <2>1, <2>2
<1>3. CASE consumed = 0
  <2>1. Validation = {t \in Rows : id[t] + Block > Cardinality(Rows)}
    BY <1>3 DEF Validation
  <2>2. Rows # {} /\ Numbers(id, Rows) /\ Cardinality(Rows) \in Nat
    BY <1>1, <1>2, RowsAreNumbered, RowsAreFinite
  <2>3. PICK t \in Rows : id[t] >= Cardinality(Rows)
    BY <1>1, <2>2, LastIsLarge
  <2>4. t \in Validation
    BY <1>1, <2>1, <2>2, <2>3
  <2>5. Validation \subseteq Fresh
    BY <1>1, <1>3, <2>1 DEF Fresh
  <2>6. QED
    BY <2>4, <2>5
<1>4. CASE consumed # 0
  <2>1. Validation = {t \in Fresh : Cardinality({u \in Fresh : id[u] <= id[t]}) <= Block}
    BY <1>4 DEF Validation
  <2>2. Numbers(id, Fresh)
    BY <1>1, RowsAreNumbered
  <2>3. PICK t \in Fresh : Rank(id, Fresh, t) = 1
    BY <1>2, <2>2, FirstExists
  <2>4. t \in Validation
    BY <1>1, <2>1, <2>3 DEF Rank
  <2>5. QED
    BY <2>1, <2>4
<1>5. QED
  BY <1>3, <1>4

\* The first row of the block is the only one with no other before it.
LEMMA FirstIsFirst ==
  ASSUME TypeOK, IdsInv, Trainable
  PROVE  /\ First \in Validation
         /\ \A v \in Validation : (\A w \in Validation : id[v] <= id[w]) => v = First
<1>1. Validation # {} /\ Validation \subseteq Rows
  BY BlockIsFresh DEF Fresh
<1>2. PICK x \in Validation : \A w \in Validation : id[x] <= id[w]
  BY <1>1, RowsAreNumbered, FirstExists
<1>3. First \in Validation /\ \A w \in Validation : id[First] <= id[w]
  BY <1>2 DEF First
<1>4. ASSUME NEW v \in Validation, \A w \in Validation : id[v] <= id[w]
      PROVE  v = First
  <2>1. id[v] <= id[First] /\ id[First] <= id[v]
    BY <1>3, <1>4
  <2>2. id[v] \in Nat /\ id[First] \in Nat
    BY <1>1, <1>3, RowsAreNumbered DEF Numbers
  <2>3. id[v] = id[First]
    BY <2>1, <2>2
  <2>4. QED
    BY <1>1, <1>3, <2>3 DEF IdsInv
<1>5. QED
  BY <1>3, <1>4

\* New rows are numbered after the old ones, in their order.
LEMMA NewRowsAreNumbered ==
  ASSUME TypeOK, IdsInv, AddSamples
  PROVE  /\ id' \in [Stamp -> 0..MaxTick] /\ IdsInv'
         /\ Rows' = Rows \cup Labelled
         /\ \A t \in Rows : id'[t] = id[t]
<1> DEFINE new == Labelled \ Rows
           N == Cardinality(Rows)
           self == [t \in Stamp |-> t]
<1>1. /\ Rows \subseteq Stamp /\ IsFiniteSet(Rows) /\ N \in Nat
      /\ MaxTick \in Nat
  BY RowsAreFinite, BoundsAssumption
<1>2. new \subseteq Stamp
  <2>1. lo \in Stamp /\ hi \in 0..MaxTick
    BY DEF TypeOK
  <2>2. Ticks \subseteq Stamp
    BY <1>1, <2>1 DEF Ticks, Stamp
  <2>3. QED
    BY <2>2 DEF Labelled, Anchors
<1>3. Numbers(self, new)
  <2>1. IsFiniteSet(Stamp)
    BY <1>1, FS_Interval DEF Stamp
  <2>2. IsFiniteSet(new)
    BY <1>2, <2>1, FS_Subset
  <2>3. \A t \in new : self[t] \in Nat /\ self[t] = t
    BY <1>1, <1>2 DEF Stamp
  <2> HIDE DEF self, new
  <2>4. QED
    BY <2>2, <2>3 DEF Numbers
<1>4. /\ IsFiniteSet(new) /\ Cardinality(new) \in Nat
      /\ Cardinality(Rows \cup new) = N + Cardinality(new)
  <2>1. IsFiniteSet(new) /\ Rows \cap new = {}
    BY <1>3 DEF Numbers
  <2> HIDE DEF new
  <2>2. Cardinality(Rows \cup new) = N + Cardinality(new) - Cardinality({})
    BY <1>1, <2>1, FS_Union
  <2>3. QED
    BY <1>1, <2>1, <2>2, FS_CardinalityType, FS_EmptySet
<1>5. N + Cardinality(new) <= MaxTick
  <2>1. IsFiniteSet(Stamp) /\ Cardinality(Stamp) = MaxTick
    <3>1. \A k \in Nat : IsFiniteSet(1..k) /\ Cardinality(1..k) = k
      BY FS_Interval
    <3>2. QED
      BY <1>1, <3>1 DEF Stamp
  <2>2. Rows \cup new \in SUBSET Stamp
    BY <1>1, <1>2
  <2> HIDE DEF new
  <2>3. Cardinality(Rows \cup new) <= MaxTick
    BY <2>1, <2>2, FS_Subset
  <2>4. QED
    BY <1>4, <2>3
<1>6. \A t \in Stamp : id'[t] = IF t \in new THEN N + Rank(self, new, t) ELSE id[t]
  <2>1. ASSUME NEW t \in new
        PROVE  {u \in new : u <= t} = {u \in new : self[u] <= self[t]}
    BY <1>2
  <2>2. ASSUME NEW t \in Stamp, t \in new PROVE id'[t] = N + Rank(self, new, t)
    <3>1. id'[t] = N + Cardinality({u \in new : u <= t})
      BY <2>2 DEF AddSamples
    <3>2. QED
      BY <2>1, <2>2, <3>1 DEF Rank
  <2>3. ASSUME NEW t \in Stamp, t \notin new PROVE id'[t] = id[t]
    BY <2>3 DEF AddSamples
  <2> HIDE DEF new, self
  <2>4. QED
    BY <2>2, <2>3
<1>7. \A t \in new : /\ Rank(self, new, t) \in Nat /\ Rank(self, new, t) >= 1
                     /\ Rank(self, new, t) <= Cardinality(new)
  <2> HIDE DEF new, self
  <2>1. QED
    BY <1>3, RankBounds
<1>8. \A t, u \in new : Rank(self, new, t) = Rank(self, new, u) => t = u
  <2> HIDE DEF new, self
  <2>1. QED
    BY <1>3, RankIsInjective
<1>9. \A t \in Stamp : id[t] \in Nat /\ id[t] <= MaxTick
  BY <1>1 DEF TypeOK
<1>10. \A t \in Rows : t \notin new /\ id[t] > 0
  BY DEF Rows
<1>11. \A t \in Stamp : t \notin new /\ t \notin Rows => id[t] = 0
  BY <1>9 DEF Rows
<1>12. id' \in [Stamp -> 0..MaxTick]
  <2>1. DOMAIN id' = Stamp /\ id' = [t \in Stamp |-> id'[t]]
    BY DEF AddSamples
  <2> HIDE DEF new, self, N
  <2>2. \A t \in Stamp : id'[t] \in 0..MaxTick
    BY <1>1, <1>4, <1>5, <1>6, <1>7, <1>9
  <2>3. QED
    BY <2>1, <2>2
<1>13. Rows' = Rows \cup new
  <2> HIDE DEF new, self, N
  <2>1. Rows' = {t \in Stamp : id'[t] > 0}
    BY DEF Rows
  <2>2. \A t \in Stamp : id'[t] > 0 <=> t \in Rows \cup new
    BY <1>1, <1>6, <1>7, <1>9, <1>10, <1>11
  <2>3. QED
    BY <1>1, <1>2, <2>1, <2>2
<1>14. \A t \in Rows : id'[t] = id[t] /\ id[t] <= N
  <2>1. \A t \in Rows : id[t] <= N
    BY DEF IdsInv
  <2>2. QED
    BY <1>1, <1>6, <1>10, <2>1
<1>15. IdsInv'
  <2> HIDE DEF new, self, N
  <2>1. ASSUME NEW t \in Rows' PROVE id'[t] <= N + Cardinality(new)
    BY <2>1, <1>1, <1>2, <1>4, <1>6, <1>7, <1>9, <1>13, <1>14
  <2>2. ASSUME NEW t \in Rows', NEW u \in Rows', id'[t] = id'[u] PROVE t = u
    <3>1. CASE t \in new /\ u \in new
      <4>1. Rank(self, new, t) = Rank(self, new, u)
        BY <1>1, <1>2, <1>6, <1>7, <2>2, <3>1
      <4>2. QED
        BY <1>8, <3>1, <4>1
    <3>2. CASE t \in Rows /\ u \in Rows
      BY <1>14, <2>2, <3>2 DEF IdsInv
    <3>3. CASE t \in new /\ u \in Rows
      BY <1>1, <1>2, <1>6, <1>7, <1>9, <1>14, <2>2, <3>3
    <3>4. CASE t \in Rows /\ u \in new
      BY <1>1, <1>2, <1>6, <1>7, <1>9, <1>14, <2>2, <3>4
    <3>5. QED
      BY <1>13, <3>1, <3>2, <3>3, <3>4
  <2>3. Cardinality(Rows') = N + Cardinality(new)
    BY <1>4, <1>13
  <2>4. QED
    BY <2>1, <2>2, <2>3 DEF IdsInv
<1>16. QED
  BY <1>12, <1>13, <1>14, <1>15

-----------------------------------------------------------------------------
(* Steps.                                                                  *)

\* A label that counts is decided by a stored tick.
LEMMA LabelsAreDecided ==
  ASSUME TypeOK, NEW t \in Labelled
  PROVE  t \in Stamp /\ End(t) \in 1..hi /\ End(t) \in 0..MaxTick
<1>1. MaxTick \in Nat /\ MaxCost \in Nat /\ lo \in Stamp /\ hi \in 0..MaxTick
  BY BoundsAssumption DEF TypeOK
<1>2. t \in Stamp /\ End(t) <= hi
  BY <1>1 DEF Labelled, Anchors, Ticks, Stamp
<1>3. End(t) \in 1..Undecided
  <2>1. \A c \in Cost : hit[c] \in [Stamp -> 1..Undecided]
    BY DEF TypeOK
  <2>2. (IF process = "boot" THEN 0 ELSE cost) \in Cost
    BY <1>1 DEF TypeOK, Cost
  <2>3. QED
    BY <1>2, <2>1, <2>2 DEF End
<1>4. QED
  BY <1>1, <1>2, <1>3 DEF Undecided

\* Only a replay and a rebuild touch the rows.
LEMMA RowsChange ==
  ASSUME [Next]_vars
  PROVE  \/ UNCHANGED id
         \/ AddSamples
         \/ Rebuild
BY DEF Next, vars, store, history, memory, Start, Crash, LiveTick, ObserveFill, Trade, Import,
       Learn, ClearIntervals, RecordIntervals, Wait, Fit, Consume, Save

\* A block that is consumed is not empty.
LEMMA ConsumedId ==
  ASSUME LearningInv, pc = "consume"
  PROVE  /\ ConsumedUpTo \in 0..MaxTick /\ ConsumedUpTo > consumed
         /\ fit.validation \subseteq Rows
         /\ \A t \in fit.validation : id[t] <= ConsumedUpTo
<1>1. /\ TypeOK /\ IdsInv
      /\ fit.validation # {} /\ fit.validation \subseteq Fresh
  BY DEF LearningInv, ConsumedInv
<1>2. fit.validation \subseteq Rows /\ \A t \in fit.validation : id[t] > consumed
  BY <1>1 DEF Fresh
<1>3. PICK t \in fit.validation : LastId(fit.validation) = id[t]
  BY <1>1, <1>2, LastIdIsLast
<1>4. QED
  BY <1>1, <1>2, <1>3, LastIdIsLast DEF ConsumedUpTo

\* What a fit leaves behind.
LEMMA FitStep ==
  ASSUME LearningInv, Fit
  PROVE  /\ fit' \in [train : SUBSET Stamp, validation : SUBSET Stamp, promoted : BOOLEAN]
         /\ fit'.train = Training /\ fit'.validation = Validation
         /\ Validation # {} /\ Validation \subseteq Fresh
         /\ LastId(Validation) \in 0..MaxTick
         /\ fit'.promoted => Promote
         /\ ~fit'.promoted => UNCHANGED <<promotions, champion>>
<1>1. TypeOK /\ IdsInv /\ Trainable
  BY DEF LearningInv, Fit
<1>2. Validation # {} /\ Validation \subseteq Fresh
  BY <1>1, BlockIsFresh
<1>3. Validation \subseteq Rows /\ Rows \subseteq Stamp
  BY <1>2 DEF Fresh, Rows
<1>4. Training \subseteq Stamp
  BY DEF Training, Kept, KeptByCount, Earlier, Rows
<1>5. LastId(Validation) \in 0..MaxTick
  BY <1>1, <1>2, <1>3, LastIdIsLast
<1>6. PICK promoted \in BOOLEAN :
        /\ fit' = [train |-> Training, validation |-> Validation, promoted |-> promoted]
        /\ IF promoted THEN Promote ELSE UNCHANGED <<promotions, champion>>
  BY DEF Fit
<1>7. QED
  BY <1>2, <1>3, <1>4, <1>5, <1>6

LEMMA TypeStep ==
  ASSUME LearningInv, [Next]_vars
  PROVE  TypeOK'
<1> USE BoundsAssumption
<1>1. TypeOK
  BY DEF LearningInv
<1>2. /\ None \in [generation : Nat, model : Nat, block : 0..MaxTick]
      /\ NoFit \in [train : SUBSET Stamp, validation : SUBSET Stamp, promoted : BOOLEAN]
  BY DEF None, NoFit
<1>3. CASE Start
  BY <1>1, <1>3 DEF TypeOK, Start, Restored, store, history
<1>4. CASE Crash
  BY <1>1, <1>2, <1>4 DEF TypeOK, Crash, store
<1>5. CASE LiveTick
  BY <1>1, <1>5 DEF TypeOK, LiveTick, history
<1>6. CASE ObserveFill
  BY <1>1, <1>6 DEF TypeOK, ObserveFill, history, memory
<1>7. CASE Trade
  <2>1. [generation |-> champion.generation, model |-> champion.model]
          \in [generation : Nat, model : Nat]
    BY <1>1 DEF TypeOK
  <2>2. QED
    BY <1>1, <1>7, <2>1 DEF TypeOK, Trade, history, memory
<1>8. CASE Import
  <2>1. lo' \in Stamp
    BY <1>1, <1>8 DEF TypeOK, Import, Stamp
  <2>2. QED
    BY <1>1, <1>8, <2>1 DEF TypeOK, Import, Bootstrapping, Restored
<1>9. CASE Rebuild
  BY <1>1, <1>2, <1>9 DEF TypeOK, Rebuild, Reset, Bootstrapping
<1>10. CASE ClearIntervals
  BY <1>1, <1>10 DEF TypeOK, ClearIntervals, history
<1>11. CASE AddSamples
  <2>1. id' \in [Stamp -> 0..MaxTick]
    BY <1>1, <1>11, NewRowsAreNumbered DEF LearningInv
  <2>2. looked' \in [Stamp -> 0..MaxTick]
    <3>1. \A t \in Labelled \ Rows : End(t) \in 0..MaxTick
      BY <1>1, LabelsAreDecided
    <3>2. QED
      BY <1>1, <1>11, <3>1 DEF TypeOK, AddSamples
  <2>3. QED
    BY <1>1, <1>11, <2>1, <2>2 DEF TypeOK, AddSamples, history
<1>12. CASE RecordIntervals
  <2>1. \A t \in Labelled : End(t) \in 0..MaxTick
    BY <1>1, LabelsAreDecided
  <2>2. intervals' \in [Stamp -> 0..MaxTick]
    BY <1>1, <1>12, <2>1 DEF TypeOK, RecordIntervals, Upserted
  <2>3. QED
    BY <1>1, <1>12, <2>2 DEF TypeOK, RecordIntervals, history
<1>13. CASE Wait
  BY <1>1, <1>2, <1>13 DEF TypeOK, Wait, EndCycle, store, history
<1>14. CASE Fit
  <2>1. fit' \in [train : SUBSET Stamp, validation : SUBSET Stamp, promoted : BOOLEAN]
    BY <1>14, FitStep
  <2>2. /\ promotions' \in Nat
        /\ champion' \in [generation : Nat, model : Nat, block : 0..MaxTick]
    <3>1. CASE fit'.promoted
      BY <1>1, <1>14, <3>1, FitStep DEF Promote, TypeOK
    <3>2. CASE ~fit'.promoted
      BY <1>1, <1>14, <3>2, FitStep DEF TypeOK
    <3>3. QED
      BY <3>1, <3>2
  <2>3. QED
    BY <1>1, <1>14, <2>1, <2>2 DEF TypeOK, Fit, store
<1>15. CASE Consume
  <2>1. consumed' \in 0..MaxTick
    BY <1>15, ConsumedId DEF Consume
  <2>2. validated' \subseteq Stamp
    BY <1>1, <1>15 DEF TypeOK, Consume
  <2>3. QED
    BY <1>1, <1>2, <1>15, <2>1, <2>2 DEF TypeOK, Consume, EndCycle
<1>16. CASE Save
  BY <1>1, <1>2, <1>16 DEF TypeOK, Save, Snapshot, EndCycle, history
<1>17. CASE UNCHANGED vars
  BY <1>1, <1>17 DEF TypeOK, vars, store, memory, history
<1>18. QED
  BY <1>3, <1>4, <1>5, <1>6, <1>7, <1>8, <1>9, <1>10, <1>11, <1>12, <1>13, <1>14, <1>15,
     <1>16, <1>17 DEF Next, Learn

LEMMA IdsStep ==
  ASSUME LearningInv, [Next]_vars
  PROVE  IdsInv'
<1>1. CASE UNCHANGED id
  BY <1>1 DEF LearningInv, IdsInv, Rows
<1>2. CASE AddSamples
  BY <1>2, NewRowsAreNumbered DEF LearningInv
<1>3. CASE Rebuild
  <2>1. Rows' = {}
    BY <1>3 DEF Rebuild, Reset, Rows
  <2>2. QED
    BY <2>1 DEF IdsInv
<1>4. QED
  BY <1>1, <1>2, <1>3, RowsChange

LEMMA ServeStep ==
  ASSUME LearningInv, [Next]_vars
  PROVE  ServeInv'
<1>1. TypeOK /\ ServeInv
  BY DEF LearningInv
<1>2. CASE Start
  BY <1>2 DEF ServeInv, Start, Restored, store
<1>3. CASE Crash
  BY <1>3 DEF ServeInv, Crash
<1>4. CASE LiveTick \/ ObserveFill \/ Trade
  BY <1>1, <1>4 DEF ServeInv, LiveTick, ObserveFill, Trade, memory
<1>5. CASE Import \/ Rebuild
  BY <1>1, <1>5 DEF ServeInv, Import, Rebuild, Reset, Bootstrapping, Restored
<1>6. CASE ClearIntervals \/ AddSamples \/ RecordIntervals
  BY <1>1, <1>6 DEF ServeInv, ClearIntervals, AddSamples, RecordIntervals
<1>7. CASE Wait
  BY <1>1, <1>7 DEF ServeInv, Wait, EndCycle, store, TypeOK
<1>8. CASE Fit
  <2>1. /\ champion = saved /\ pc' = "consume" /\ UNCHANGED <<saved, process, id>>
        /\ process # "down"
    BY <1>1, <1>8 DEF ServeInv, Fit, store
  <2>2. fit'.promoted => /\ champion'.generation = saved'.generation + 1
                         /\ champion'.block = LastId(Validation)
    BY <1>8, <2>1, FitStep DEF Promote
  <2>3. ~fit'.promoted => champion' = saved'
    BY <1>8, <2>1, FitStep
  <2>4. LastId(fit.validation)' = LastId(Validation)
    BY <1>8, <2>1, FitStep DEF LastId
  <2>5. QED
    BY <2>1, <2>2, <2>3, <2>4 DEF ServeInv
<1>9. CASE Consume
  BY <1>1, <1>9 DEF ServeInv, Consume, EndCycle, TypeOK
<1>10. CASE Save
  BY <1>1, <1>10 DEF ServeInv, Save, Snapshot, EndCycle, TypeOK
<1>11. CASE UNCHANGED vars
  BY <1>1, <1>11 DEF ServeInv, vars, memory, store, LastId
<1>12. QED
  BY <1>2, <1>3, <1>4, <1>5, <1>6, <1>7, <1>8, <1>9, <1>10, <1>11 DEF Next, Learn

LEMMA ConsumedStep ==
  ASSUME LearningInv, [Next]_vars
  PROVE  ConsumedInv'
<1>1. TypeOK /\ IdsInv /\ ServeInv /\ ConsumedInv
  BY DEF LearningInv
<1>2. consumed \in Nat /\ saved.block \in Nat /\ None.block = 0
  BY <1>1, BoundsAssumption DEF TypeOK, None
<1>3. CASE Start \/ LiveTick \/ ObserveFill \/ Trade
  BY <1>1, <1>3 DEF ConsumedInv, ServeInv, Start, LiveTick, ObserveFill, Trade, store, memory,
       history, Rows
<1>4. CASE Crash
  BY <1>1, <1>4 DEF ConsumedInv, Crash, store, Rows
<1>5. CASE Import
  BY <1>1, <1>5 DEF ConsumedInv, Import, Bootstrapping, Rows
<1>6. CASE Rebuild
  BY <1>2, <1>6 DEF ConsumedInv, Rebuild, Reset, Bootstrapping
<1>7. CASE ClearIntervals \/ RecordIntervals
  BY <1>1, <1>7 DEF ConsumedInv, ClearIntervals, RecordIntervals, history, Rows
<1>8. CASE AddSamples
  <2>1. Rows \subseteq Rows' /\ \A t \in Rows : id'[t] = id[t]
    BY <1>1, <1>8, NewRowsAreNumbered
  <2>2. \A t \in validated' : t \in Rows' /\ id'[t] <= consumed'
    BY <1>1, <1>8, <2>1 DEF AddSamples, history, ConsumedInv
  <2>3. QED
    BY <1>1, <1>8, <2>2 DEF ConsumedInv, AddSamples
<1>9. CASE Wait
  BY <1>1, <1>9 DEF ConsumedInv, Wait, EndCycle, store, history, Rows
<1>10. CASE Fit
  <2>1. UNCHANGED <<id, consumed, saved, validated>> /\ pc' = "consume"
    BY <1>10 DEF Fit, store
  <2>2. fit'.validation # {} /\ fit'.validation \subseteq Fresh'
    BY <1>10, <2>1, FitStep DEF Fresh, Rows
  <2>3. QED
    BY <1>1, <2>1, <2>2 DEF ConsumedInv, Rows
<1>11. CASE Consume
  <2>1. /\ consumed' = ConsumedUpTo /\ validated' = validated \cup fit.validation
        /\ UNCHANGED <<id, saved>> /\ pc = "consume" /\ pc' # "consume"
    BY <1>11 DEF Consume, EndCycle
  <2>2. /\ consumed' \in Nat /\ consumed' > consumed /\ fit.validation \subseteq Rows
        /\ \A t \in fit.validation : id[t] <= consumed'
    BY <2>1, ConsumedId, BoundsAssumption
  <2>3. \A t \in validated' : t \in Rows' /\ id'[t] <= consumed'
    <3>1. \A t \in validated : t \in Rows /\ id[t] <= consumed
      BY <1>1 DEF ConsumedInv
    <3>2. \A t \in Rows : id[t] \in Nat
      BY <1>1, RowsAreNumbered DEF Numbers
    <3>3. QED
      BY <1>2, <2>1, <2>2, <3>1, <3>2 DEF Rows
  <2>4. saved'.block <= consumed'
    BY <1>1, <1>2, <2>1, <2>2 DEF ConsumedInv
  <2>5. pc' = "save" => champion'.block <= consumed'
    <3>1. pc' = "save" => fit.promoted /\ champion' = champion
      BY <1>11 DEF Consume, EndCycle
    <3>2. fit.promoted => champion.block = consumed'
      BY <1>1, <2>1 DEF ServeInv, ConsumedUpTo
    <3>3. QED
      BY <2>2, <3>1, <3>2
  <2>6. QED
    BY <2>1, <2>3, <2>4, <2>5 DEF ConsumedInv
<1>12. CASE Save
  BY <1>1, <1>12 DEF ConsumedInv, Save, Snapshot, EndCycle, history, Rows
<1>13. CASE UNCHANGED vars
  BY <1>1, <1>13 DEF ConsumedInv, vars, store, memory, history, Fresh, Rows
<1>14. QED
  BY <1>3, <1>4, <1>5, <1>6, <1>7, <1>8, <1>9, <1>10, <1>11, <1>12, <1>13 DEF Next, Learn

LEMMA EvidenceStep ==
  ASSUME LearningInv, [Next]_vars
  PROVE  EvidenceInv'
<1>1. TypeOK /\ ServeInv /\ EvidenceInv
  BY DEF LearningInv
<1>2. /\ rebuilds \in Nat /\ saved.generation \in Nat
      /\ \A a \in evidence : a.generation \in Nat
  BY <1>1 DEF TypeOK
<1>3. CASE UNCHANGED <<evidence, saved, rebuilds>>
  BY <1>1, <1>3 DEF EvidenceInv
<1>4. CASE Trade
  <2> DEFINE e == [generation |-> saved.generation, model |-> saved.model]
  <2>1. evidence' = evidence \cup {e} /\ UNCHANGED <<saved, rebuilds>>
    BY <1>1, <1>4 DEF Trade, ServeInv, history
  <2>2. e.generation = saved.generation /\ e.model = saved.model
    OBVIOUS
  <2> HIDE DEF e
  <2>3. QED
    BY <1>1, <1>2, <2>1, <2>2 DEF EvidenceInv
<1>5. CASE Rebuild
  <2>1. rebuilds' # 0
    BY <1>2, <1>5 DEF Rebuild
  <2>2. QED
    BY <2>1 DEF EvidenceInv
<1>6. CASE Save
  <2>1. /\ saved'.generation = saved.generation + 1
        /\ UNCHANGED <<evidence, rebuilds>>
    BY <1>1, <1>6 DEF Save, Snapshot, ServeInv, history
  <2>2. QED
    BY <1>1, <1>2, <2>1 DEF EvidenceInv
<1>7. \/ UNCHANGED <<evidence, saved, rebuilds>>
      \/ Trade \/ Rebuild \/ Save
  BY DEF Next, vars, store, memory, history, Start, Crash, LiveTick, ObserveFill, Import,
         Bootstrapping, Learn, ClearIntervals, AddSamples, RecordIntervals, Wait, Fit, Consume
<1>8. QED
  BY <1>3, <1>4, <1>5, <1>6, <1>7

-----------------------------------------------------------------------------
(* The results.                                                            *)

LEMMA LearningInit == Init => LearningInv
<1> SUFFICES ASSUME Init PROVE LearningInv
  OBVIOUS
<1>1. TypeOK
  <2>1. hit \in [Cost -> [Stamp -> 1..Undecided]]
    BY DEF Init, Outcomes
  <2>2. /\ FirstLive \in Stamp /\ FirstLive - 1 \in 0..MaxTick /\ 0 \in 0..MaxTick
        /\ 0 \in Cost
    BY BoundsAssumption DEF Stamp, Cost
  <2>3. QED
    BY <2>1, <2>2 DEF Init, TypeOK, None, NoFit
<1>2. Rows = {}
  BY DEF Init, Rows
<1>3. QED
  BY <1>1, <1>2 DEF Init, LearningInv, IdsInv, ServeInv, ConsumedInv, EvidenceInv, None

\* The strengthening of the properties below: the ids of the rows, what the
\* process serves, what is consumed and what the evidence is of, whatever the
\* market, the settings, the crashes, the imports and the rebuilds.
THEOREM LearningAgreement == Spec => []LearningInv
<1>1. LearningInv /\ [Next]_vars => LearningInv'
  BY TypeStep, IdsStep, ServeStep, ConsumedStep, EvidenceStep DEF LearningInv
<1>2. QED
  BY <1>1, LearningInit, PTL DEF Spec

\* No row that was consumed ever judges a challenger again
\* (SelfImprovementController.maybe_train, scalper_last_validation_sample_id).
THEOREM ValidationIsFresh == Spec => []FreshValidation
<1>1. LearningInv => FreshValidation
  <2> SUFFICES ASSUME LearningInv, pc = "consume", NEW t \in fit.validation, t \in validated
               PROVE  FALSE
    BY DEF FreshValidation
  <2>1. id[t] > consumed /\ id[t] <= consumed
    BY DEF LearningInv, ConsumedInv, Fresh
  <2>2. id[t] \in Nat /\ consumed \in Nat
    BY BoundsAssumption DEF LearningInv, TypeOK
  <2>3. QED
    BY <2>1, <2>2
<1>2. QED
  BY <1>1, LearningAgreement, PTL

\* The block that promoted the stored model is marked consumed: the progress
\* is written before the snapshot.
THEOREM PromotionConsumes == Spec => []PromotedBlockConsumed
<1>1. LearningInv => PromotedBlockConsumed
  BY DEF LearningInv, ConsumedInv, PromotedBlockConsumed
<1>2. QED
  BY <1>1, LearningAgreement, PTL

\* The model that trades is the one a restart would restore.
THEOREM ServedIsStored == Spec => []ServingIsDurable
<1>1. LearningInv => ServingIsDurable
  BY DEF LearningInv, ServeInv, ServingIsDurable
<1>2. QED
  BY <1>1, LearningAgreement, PTL

\* The trades stamped with a generation are the evidence of one model, until
\* the learning state is rebuilt.
THEOREM GenerationIsOneModel == Spec => []EvidenceOfOneModel
<1>1. LearningInv => EvidenceOfOneModel
  BY DEF LearningInv, EvidenceInv, EvidenceOfOneModel
<1>2. QED
  BY <1>1, LearningAgreement, PTL

-----------------------------------------------------------------------------
(* What the labels of the training rows looked at.                         *)

\* A tick stays an anchor as long as the first tick, or the stride, is one.
LEMMA AnchorsStay ==
  ASSUME TypeOK, OneReplay, lo <= FirstLive, lo' \in Stamp, hi' \in 0..MaxTick,
         lo' <= lo, hi <= hi', UNCHANGED hit, cost \in Cost, cost' \in Cost,
         NEW t \in Labelled
  PROVE  t \in Labelled' /\ End(t)' = End(t)
<1>1. /\ lo \in Nat /\ lo > 0 /\ hi \in Nat /\ lo' \in Nat /\ lo' > 0 /\ hi' \in Nat
      /\ FirstLive \in Nat /\ MinFuture \in Nat /\ MaxTick \in Nat
  BY BoundsAssumption, SettingsAssumption DEF TypeOK, Stamp
<1>2. /\ t \in lo..hi /\ (t - lo) % Stride = 0 /\ t + MinFuture <= hi /\ End(t) <= hi
  BY DEF Labelled, Anchors, Ticks
<1>3. t \in lo'..hi' /\ t + MinFuture <= hi'
  BY <1>1, <1>2
<1>4. (t - lo') % Stride = 0
  <2>1. CASE FirstLive = 1
    <3>1. lo' = lo
      BY <1>1, <2>1
    <3>2. QED
      BY <1>2, <3>1
  <2>2. CASE Stride = 1
    <3>1. \A n \in Nat : n % 1 = 0
      OBVIOUS
    <3>2. t - lo' \in Nat
      <4>1. t \in Int /\ lo' <= t /\ lo' \in Int
        BY <1>1, <1>3
      <4>2. \A a, b \in Int : b <= a => a - b \in Nat
        OBVIOUS
      <4>3. QED
        BY <4>1, <4>2
    <3>3. QED
      BY <2>2, <3>1, <3>2
  <2>3. QED
    BY <2>1, <2>2 DEF OneReplay
<1>5. End(t) = hit[0][t] /\ End(t)' = hit[0][t]
  <2>1. cost = 0 /\ cost' = 0
    BY DEF OneReplay, Cost
  <2>2. QED
    BY <2>1 DEF End
<1>6. End(t)' <= hi'
  <2>1. End(t) \in 0..MaxTick
    BY LabelsAreDecided
  <2>2. QED
    BY <1>1, <1>2, <1>5, <2>1
<1>7. QED
  BY <1>3, <1>4, <1>5, <1>6 DEF Labelled, Anchors, Ticks

\* The purge keeps what ended before the first row of the block.
LEMMA PurgeRespectsBoundary ==
  ASSUME TypeOK, IdsInv, LabelInv, Fit, fit'.train = Training, fit'.validation = Validation
  PROVE  BoundaryRespected'
<1>1. Trainable /\ \A t \in Rows : intervals[t] = looked[t] /\ looked[t] = End(t) /\ t \in Labelled
  BY DEF Fit, LabelInv
<1>2. Earlier \subseteq Recorded
  <2>1. \A t \in Rows : intervals[t] > 0 /\ t \in Stamp
    <3>1. \A t \in Labelled : t \in Stamp /\ End(t) \in 1..hi
      BY LabelsAreDecided
    <3>2. hi \in Nat
      BY BoundsAssumption DEF TypeOK
    <3>3. QED
      BY <1>1, <3>1, <3>2
  <2>2. QED
    BY <2>1 DEF Earlier, Recorded
<1>3. \A t \in Training : looked[t] < First
  BY <1>1, <1>2 DEF Training, Kept, Earlier
<1>4. UNCHANGED <<id, looked>>
  BY DEF Fit, store
<1>5. QED
  BY <1>1, <1>3, <1>4, FirstIsFirst DEF BoundaryRespected

LEMMA LabelStep ==
  ASSUME LearningInv, LabelInv, OneReplay, [Next]_vars
  PROVE  LabelInv'
<1>1. /\ TypeOK /\ TypeOK' /\ IdsInv /\ cost \in Cost /\ cost' \in Cost
      /\ lo' \in Stamp /\ hi' \in 0..MaxTick
  BY TypeStep DEF LearningInv, TypeOK
<1>2. lo <= FirstLive /\ \A t \in Rows : t \in Labelled /\ looked[t] = End(t)
  BY DEF LabelInv
<1>3. /\ lo \in Nat /\ lo' \in Nat /\ hi \in Nat /\ hi' \in Nat /\ FirstLive \in Nat
  BY <1>1, BoundsAssumption DEF TypeOK, Stamp
<1>4. UNCHANGED hit /\ lo' <= lo /\ hi <= hi'
  BY <1>3 DEF Next, vars, store, memory, history, Start, Crash, LiveTick, ObserveFill, Trade,
     Import, Rebuild, Reset, Bootstrapping, Learn, ClearIntervals, AddSamples, RecordIntervals,
     Wait, Fit, Consume, Save
<1>5. lo' <= FirstLive /\ \A t \in Labelled : t \in Labelled' /\ End(t)' = End(t)
  BY <1>1, <1>2, <1>3, <1>4, AnchorsStay
<1>6. \A t \in Rows' : t \in Labelled' /\ looked'[t] = End(t)'
  <2>1. CASE UNCHANGED <<id, looked>>
    BY <1>2, <1>5, <2>1 DEF Rows
  <2>2. CASE AddSamples
    <3>1. Rows' = Rows \cup Labelled
      BY <1>1, <2>2, NewRowsAreNumbered
    <3>2. \A t \in Rows' : t \in Labelled /\ t \in Stamp
      BY <1>2, <3>1 DEF Rows
    <3>3. \A t \in Rows' : looked'[t] = End(t)
      BY <1>2, <2>2, <3>1, <3>2 DEF AddSamples
    <3>4. QED
      BY <1>5, <3>2, <3>3
  <2>3. CASE Rebuild
    BY <2>3 DEF Rebuild, Reset, Rows
  <2>4. UNCHANGED <<id, looked>> \/ AddSamples \/ Rebuild
    BY DEF Next, vars, store, memory, history, Start, Crash, LiveTick, ObserveFill, Trade,
       Import, Bootstrapping, Learn, ClearIntervals, RecordIntervals, Wait, Fit, Consume, Save
  <2>5. QED
    BY <2>1, <2>2, <2>3, <2>4
<1>7. pc' \in {"train", "consume"} => \A t \in Rows' : intervals'[t] = looked'[t]
  <2>1. CASE RecordIntervals
    <3>1. UNCHANGED <<id, looked>> /\ intervals' = Upserted(Labelled \cap Rows)
      BY <2>1 DEF RecordIntervals
    <3>2. \A t \in Rows : t \in Stamp /\ t \in Labelled \cap Rows /\ looked[t] = End(t)
      BY <1>2 DEF Rows
    <3>3. QED
      BY <3>1, <3>2 DEF Rows, Upserted
  <2>2. CASE pc \in {"train", "consume"} /\ UNCHANGED <<id, looked, intervals>>
    BY <2>2 DEF LabelInv, Rows
  <2>3. \/ RecordIntervals \/ pc' \notin {"train", "consume"}
        \/ pc \in {"train", "consume"} /\ UNCHANGED <<id, looked, intervals>>
    BY DEF Next, vars, store, memory, history, Start, Crash, LiveTick, ObserveFill, Trade,
       Import, Rebuild, Bootstrapping, Learn, ClearIntervals, AddSamples, Wait, EndCycle, Fit,
       Consume, Save
  <2>4. QED
    BY <2>1, <2>2, <2>3
<1>8. BoundaryRespected'
  <2>1. CASE Fit
    BY <1>1, <2>1, FitStep, PurgeRespectsBoundary
  <2>2. CASE UNCHANGED vars
    BY <2>2 DEF LabelInv, BoundaryRespected, vars, store, memory
  <2>3. Fit \/ UNCHANGED vars \/ pc' # "consume"
    BY DEF Next, memory, Start, Crash, LiveTick, ObserveFill, Trade, Import, Rebuild,
       Bootstrapping, Learn, ClearIntervals, AddSamples, RecordIntervals, Wait, EndCycle,
       Consume, Save, LearningInv, ServeInv
  <2>4. QED
    BY <2>1, <2>2, <2>3 DEF BoundaryRespected
<1>9. QED
  BY <1>5, <1>6, <1>7, <1>8 DEF LabelInv

\* No label of a training row looked at a tick at or beyond the first row of
\* the validation block (scalper/trainer.py:74), where all replays agree on
\* the labels: one label cost, and no import that moves the anchors.
THEOREM TrainingLooksBefore ==
  ASSUME OneReplay
  PROVE  Spec => []BoundaryRespected
<1>1. Init => LabelInv
  <2> SUFFICES ASSUME Init PROVE LabelInv
    OBVIOUS
  <2>1. Rows = {} /\ lo = FirstLive /\ pc = "idle"
    BY DEF Init, Rows
  <2>2. FirstLive \in Nat
    BY BoundsAssumption
  <2>3. QED
    BY <2>1, <2>2 DEF LabelInv, BoundaryRespected
<1>2. LearningInv /\ LabelInv /\ [Next]_vars => LabelInv'
  BY LabelStep
<1>3. LabelInv => BoundaryRespected
  BY DEF LabelInv
<1>4. QED
  BY <1>1, <1>2, <1>3, LearningAgreement, PTL DEF Spec
=============================================================================
