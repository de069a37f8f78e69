--------------------------- MODULE ScalperLearning ---------------------------
(***************************************************************************)
(* The learning loop of the scalper: TickReplayBuilder.build               *)
(* (truetrade/scalper/replay.py) turns the stored ticks into labelled      *)
(* samples, SelfImprovementController.maybe_train (scalper/trainer.py)     *)
(* trains a challenger on the samples before a validation block, promotes  *)
(* it or not (scalper/learning.py), and keeps its progress in the meta     *)
(* table of ScalperStore.  scripts/bbyg_bootstrap_ticks.py does the same   *)
(* from imported history, or from scratch, while the runtime is down.      *)
(*                                                                         *)
(* Simplifications.                                                        *)
(*  - The stored ticks are lo..hi: live ticks extend them upwards, an      *)
(*    import downwards (as one step; ticks it already has change nothing). *)
(*  - Prices are left out.  hit[c][t] is the first tick on which the label *)
(*    of anchor t is decided when labels cost c, beyond MaxTick if never;  *)
(*    a higher cost moves the profit barriers away, never closer.          *)
(*  - A model is the number of the promotion that made it, 0 before any.   *)
(*  - A promotion depends on the data; it is left open.                    *)
(*  - Row ids are numbered without the gaps INSERT OR IGNORE leaves in     *)
(*    them; only their order is ever used.                                 *)
(*  - The bootstrap script runs while the runtime is down.                 *)
(***************************************************************************)
EXTENDS Naturals, FiniteSets

CONSTANTS
  MaxTick,      \* bound: ticks of the market
  FirstLive,    \* the first tick polled live; the earlier ones are importable
  Stride,       \* TickReplayBuilder.stride
  MinFuture,    \* future ticks a label needs (10 in replay.py)
  MaxLook,      \* LabelSettings.max_lookahead_ticks
  MaxCost,      \* label costs are 0..MaxCost, 0 being the labeler's default
  Block,        \* LearningSettings.validation_block
  Purge,        \* LearningSettings.purge_samples
  MinTrain,     \* LearningSettings.min_train_samples
  MaxCrashes,   \* bound: crashes
  MaxRebuilds   \* bound: runs of --rebuild-learning-only

ASSUME BoundsAssumption ==
  /\ MaxTick \in Nat /\ MaxCost \in Nat /\ MaxCrashes \in Nat /\ MaxRebuilds \in Nat
  /\ FirstLive \in 1..MaxTick
ASSUME SettingsAssumption ==
  /\ Stride \in Nat \ {0} /\ MinFuture \in Nat /\ MaxLook \in Nat \ {0}
  /\ Block \in Nat \ {0} /\ Purge \in Nat \ {0} /\ MinTrain \in Nat \ {0}

Stamp == 1..MaxTick
Cost == 0..MaxCost
Undecided == MaxTick + 1

VARIABLES
  \* the market
  hit,
  \* scalper.sqlite
  lo, hi,      \* the ticks table
  id,          \* samples: id of the row of a timestamp, 0 while there is none
  looked,      \* last tick the stored label of a row looked at (not a column)
  intervals,   \* sample_label_intervals: label_end_ts_ns, 0 while there is none
  consumed,    \* meta scalper_last_validation_sample_id, 0 while absent
  saved,       \* meta scalper_champion_snapshot, None while absent
  evidence,    \* trade_outcomes: the generations stamped on trades, with the model
  cost,        \* meta scalper_execution_quality_v1: what labels cost the runtime
  \* memory of the process
  process,     \* "down", "demo" (the runtime) or "boot" (the bootstrap script)
  pc,
  champion,    \* the serving model
  fit,         \* the last fit_and_maybe_promote: its rows and its verdict
  \* history
  validated,   \* rows of the validation blocks consumed so far
  promotions, crashes, rebuilds

store == <<lo, hi, id, looked, intervals, consumed, saved, evidence, cost>>
memory == <<process, pc, champion, fit>>
history == <<validated, promotions, crashes, rebuilds>>
vars == <<hit, store, memory, history>>

\* generation counts promotions as the snapshot does; block is the last row
\* of the validation block that promoted the model.
None == [generation |-> 0, model |-> 0, block |-> 0]
NoFit == [train |-> {}, validation |-> {}, promoted |-> FALSE]

Rows == {t \in Stamp : id[t] > 0}

\* CostAwareLabeler.outcome: a tick after the anchor, within the look-ahead,
\* reaches a profit barrier first; both losses, or no barrier, leave it open.
Outcomes ==
  {h \in [Cost -> [Stamp -> 1..Undecided]] :
     \A t \in Stamp :
       /\ h[0][t] \in ((t + 1)..(t + MaxLook)) \cup {Undecided}
       /\ \A c \in Cost \ {0} :
            h[c][t] >= h[c - 1][t] /\ h[c][t] \in (1..(t + MaxLook)) \cup {Undecided}}

Init ==
  /\ hit \in Outcomes
  /\ lo = FirstLive /\ hi = FirstLive - 1
  /\ id = [t \in Stamp |-> 0] /\ looked = [t \in Stamp |-> 0]
  /\ intervals = [t \in Stamp |-> 0]
  /\ consumed = 0 /\ saved = None /\ evidence = {} /\ cost = 0
  /\ process = "down" /\ pc = "idle" /\ champion = None /\ fit = NoFit
  /\ validated = {} /\ promotions = 0 /\ crashes = 0 /\ rebuilds = 0
-----------------------------------------------------------------------------
(* The processes.                                                          *)

\* Mutant of Restored: the generation is not restored.
RestoredWeights == [saved EXCEPT !.generation = 0]

\* SelfImprovementController restores the champion from its snapshot.
Restored == saved

Start ==
  /\ process = "down"
  /\ process' = "demo" /\ pc' = "idle" /\ champion' = Restored
  /\ UNCHANGED <<hit, store, fit, history>>

Crash ==
  /\ process # "down" /\ crashes < MaxCrashes
  /\ crashes' = crashes + 1
  /\ process' = "down" /\ pc' = "idle" /\ champion' = None /\ fit' = NoFit
  /\ UNCHANGED <<hit, store, validated, promotions, rebuilds>>

\* A live tick; on every replay_every_ticks-th, the learning cycle.
LiveTick ==
  /\ process = "demo" /\ pc = "idle" /\ hi < MaxTick
  /\ hi' = hi + 1
  /\ pc' \in {"idle", "build"}
  /\ UNCHANGED <<hit, lo, id, looked, intervals, consumed, saved, evidence,
                 process, cost, champion, fit, history>>

\* A verified fill moves the slippage average the label cost follows.
ObserveFill ==
  /\ process = "demo" /\ pc = "idle"
  /\ \E c \in Cost : c # cost /\ cost' = c
  /\ UNCHANGED <<hit, lo, hi, id, looked, intervals, consumed, saved, evidence, memory, history>>

\* A trade of the champion is opened, closed and harvested.
Trade ==
  /\ process = "demo" /\ pc = "idle" /\ champion.generation > 0
  /\ evidence' = evidence \cup {[generation |-> champion.generation, model |-> champion.model]}
  /\ UNCHANGED <<hit, lo, hi, id, looked, intervals, consumed, saved, cost, memory, history>>

Bootstrapping ==
  /\ process = "down"
  /\ process' = "boot" /\ pc' = "build"
  /\ UNCHANGED <<hit, looked, evidence, cost, fit, promotions, crashes>>

\* Older history arrives after newer samples were made.
Import ==
  /\ Bootstrapping
  /\ lo > 1 /\ lo' \in 1..(lo - 1)
  /\ champion' = Restored
  /\ UNCHANGED <<hi, id, intervals, consumed, saved, validated, rebuilds>>

\* reset_learning_state, in one transaction: rows, intervals, progress and
\* model go; ticks and trade outcomes stay.
Reset ==
  /\ id' = [t \in Stamp |-> 0] /\ intervals' = [t \in Stamp |-> 0]
  /\ consumed' = 0 /\ saved' = None /\ validated' = {}
  /\ UNCHANGED <<lo, hi>>

\* --rebuild-learning-only: the learner that follows the reset is a new one.
Rebuild ==
  /\ Bootstrapping /\ rebuilds < MaxRebuilds
  /\ rebuilds' = rebuilds + 1
  /\ Reset /\ champion' = None
-----------------------------------------------------------------------------
(* TickReplayBuilder.build: three transactions.                            *)

\* The bootstrap script labels at the labeler's default cost.
End(t) == hit[IF process = "boot" THEN 0 ELSE cost][t]

ClearIntervals ==
  /\ pc = "build"
  /\ intervals' = [t \in Stamp |-> 0]
  /\ pc' = "label"
  /\ UNCHANGED <<hit, lo, hi, id, looked, consumed, saved, evidence,
                 process, cost, champion, fit, history>>

\* ScalperStore.ticks.
Ticks == lo..hi

\* Every Stride-th stored tick, counted from the first one.
Anchors == {t \in Ticks : (t - lo) % Stride = 0}

\* Mutant of Labelled: an undecided label counts.
Evidenced == {t \in Anchors : t + MinFuture <= hi}

\* The anchors whose label the stored ticks decide.
Labelled == {t \in Anchors : t + MinFuture <= hi /\ End(t) <= hi}

\* INSERT OR IGNORE in tick order: a row keeps the label it was made with.
AddSamples ==
  LET new == Labelled \ Rows IN
  /\ pc = "label"
  /\ id' = [t \in Stamp |-> IF t \in new
              THEN Cardinality(Rows) + Cardinality({u \in new : u <= t}) ELSE id[t]]
  /\ looked' = [t \in Stamp |-> IF t \in new THEN End(t) ELSE looked[t]]
  /\ pc' = "record"
  /\ UNCHANGED <<hit, lo, hi, intervals, consumed, saved, evidence,
                 process, cost, champion, fit, history>>

\* record_label_intervals overwrites what is there.
Upserted(S) == [t \in Stamp |-> IF t \in S THEN End(t) ELSE intervals[t]]

\* The intervals are those of this replay, whatever the rows were made with.
RecordIntervals ==
  /\ pc = "record"
  /\ intervals' = Upserted(Labelled \cap Rows)
  /\ pc' = "train"
  /\ UNCHANGED <<hit, lo, hi, id, looked, consumed, saved, evidence,
                 process, cost, champion, fit, history>>
-----------------------------------------------------------------------------
(* SelfImprovementController.maybe_train.                                  *)

\* Mutant of Fresh: the last row consumed counts again.
FreshInclusive == {t \in Rows : id[t] >= consumed}

Fresh == {t \in Rows : id[t] > consumed}

\* The last block while nothing was consumed, then the first fresh one.
Validation ==
  IF consumed = 0
    THEN {t \in Rows : id[t] + Block > Cardinality(Rows)}
    ELSE {t \in Fresh : Cardinality({u \in Fresh : id[u] <= id[t]}) <= Block}

\* The first row, by id, of the validation block.
First == CHOOSE t \in Validation : \A u \in Validation : id[t] <= id[u]

Earlier == {t \in Rows : id[t] < id[First]}

\* Mutant of Kept: off by one at the boundary.
KeptInclusive == {t \in Earlier : intervals[t] <= First}

\* The purge by label interval.
Kept == {t \in Earlier : intervals[t] < First}

\* The purge by number of rows, when some row has no interval.
KeptByCount == {t \in Earlier : id[t] + Purge <= Cardinality(Earlier)}

\* load_label_intervals.
Recorded == {t \in Stamp : intervals[t] > 0}

Training == IF Earlier \subseteq Recorded THEN Kept ELSE KeptByCount

\* Where the process goes when the cycle is over.
EndCycle(model) ==
  /\ pc' = "idle" /\ fit' = NoFit
  /\ IF process = "boot" THEN process' = "down" /\ champion' = None
                         ELSE process' = process /\ champion' = model

Trainable == Cardinality(Fresh) >= Block /\ Cardinality(Training) >= MinTrain

\* The early returns of maybe_train: nothing is consumed.
Wait ==
  /\ pc = "train" /\ ~Trainable
  /\ EndCycle(champion)
  /\ UNCHANGED <<hit, store, history>>

LastId(S) == CHOOSE i \in {id[t] : t \in S} : \A t \in S : id[t] <= i

\* fit_and_maybe_promote: the challenger takes the champion's place, in memory
\* only, under the next generation number.
Promote ==
  /\ promotions' = promotions + 1
  /\ champion' = [generation |-> champion.generation + 1, model |-> promotions + 1,
                  block |-> LastId(Validation)]

\* The challenger is trained and judged.
Fit ==
  /\ pc = "train" /\ Trainable
  /\ \E promoted \in BOOLEAN :
       /\ fit' = [train |-> Training, validation |-> Validation, promoted |-> promoted]
       /\ IF promoted THEN Promote ELSE UNCHANGED <<promotions, champion>>
  /\ pc' = "consume"
  /\ UNCHANGED <<hit, store, process, validated, crashes, rebuilds>>

\* Mutant of ConsumedUpTo: the last row stays fresh.
ConsumedBefore == LastId(fit.validation) - 1

ConsumedUpTo == LastId(fit.validation)

\* The block is consumed, promoted or not.
Consume ==
  /\ pc = "consume"
  /\ consumed' = ConsumedUpTo /\ validated' = validated \cup fit.validation
  /\ IF fit.promoted THEN pc' = "save" /\ UNCHANGED <<process, champion, fit>>
                     ELSE EndCycle(champion)
  /\ UNCHANGED <<hit, lo, hi, id, looked, intervals, saved, evidence, cost,
                 promotions, crashes, rebuilds>>

\* Mutant of Snapshot: the promoted model is not stored.
NoSnapshot == saved

Snapshot == champion

Save ==
  /\ pc = "save"
  /\ saved' = Snapshot
  /\ EndCycle(champion)
  /\ UNCHANGED <<hit, lo, hi, id, looked, intervals, consumed, evidence, cost, history>>
-----------------------------------------------------------------------------
Learn == ClearIntervals \/ AddSamples \/ RecordIntervals \/ Wait \/ Fit \/ Consume \/ Save

Next ==
  \/ Start \/ Crash \/ LiveTick \/ ObserveFill \/ Trade
  \/ Import \/ Rebuild \/ Learn

Spec == Init /\ [][Next]_vars
-----------------------------------------------------------------------------
TypeOK ==
  /\ hit \in [Cost -> [Stamp -> 1..Undecided]]
  /\ lo \in Stamp /\ hi \in 0..MaxTick
  /\ id \in [Stamp -> 0..MaxTick] /\ looked \in [Stamp -> 0..MaxTick]
  /\ intervals \in [Stamp -> 0..MaxTick]
  /\ consumed \in 0..MaxTick /\ evidence \subseteq [generation : Nat, model : Nat]
  /\ cost \in Cost
  /\ {saved, champion} \subseteq [generation : Nat, model : Nat, block : 0..MaxTick]
  /\ process \in {"down", "demo", "boot"}
  /\ pc \in {"idle", "build", "label", "record", "train", "consume", "save"}
  /\ fit \in [train : SUBSET Stamp, validation : SUBSET Stamp, promoted : BOOLEAN]
  /\ validated \subseteq Stamp
  /\ promotions \in Nat /\ crashes \in Nat /\ rebuilds \in Nat

\* No consumed row ever judges a challenger again (docs/SCALPER_PHASE2.md:37).
FreshValidation == pc = "consume" => fit.validation \cap validated = {}

\* Whatever the crashes, a model that serves after a restart was judged by a
\* block that is marked consumed.
PromotedBlockConsumed == saved.block <= consumed

\* No training label looked at a tick at or beyond the first validation row.
BoundaryRespected ==
  pc = "consume" => \A t \in fit.train, v \in fit.validation :
    (\A w \in fit.validation : id[v] <= id[w]) => looked[t] < v

\* The trades of a generation are the evidence of one model, unless the
\* learning state was rebuilt: a rebuild starts again at generation 1 and
\* keeps the trades.
EvidenceOfOneModel ==
  rebuilds = 0 => \A a, b \in evidence : a.generation = b.generation => a.model = b.model

\* The model that trades is the one a restart would restore.
ServingIsDurable == process = "demo" /\ pc = "idle" => champion = saved

\* docs/SCALPER_PHASE2.md:35 "training uses only older labeled rows".
TrainingIsOlder == pc = "consume" => \A t \in fit.train, v \in fit.validation : t < v
-----------------------------------------------------------------------------
(* The strengthening that makes the invariants inductive.                  *)

\* Ids are given out once and without gaps.
IdsInv ==
  \A t \in Rows :
    id[t] <= Cardinality(Rows) /\ \A u \in Rows : id[t] = id[u] => t = u

\* Where the process can be, and what it serves: until a challenger is
\* promoted that is what is stored.
ServeInv ==
  /\ process = "down" => pc = "idle"
  /\ process = "boot" => pc # "idle"
  /\ process # "down" /\ pc \notin {"consume", "save"} => champion = saved
  /\ pc = "consume" /\ ~fit.promoted => champion = saved
  /\ pc = "consume" /\ fit.promoted => champion.block = LastId(fit.validation)
  /\ pc = "save" \/ (pc = "consume" /\ fit.promoted) =>
       champion.generation = saved.generation + 1

\* What validated is consumed; what validates is not yet.
ConsumedInv ==
  /\ \A t \in validated : t \in Rows /\ id[t] <= consumed
  /\ pc = "consume" => fit.validation # {} /\ fit.validation \subseteq Fresh
  /\ saved.block <= consumed
  /\ pc = "save" => champion.block <= consumed

\* Evidence exists of stored generations only, of the last one's model too.
EvidenceInv ==
  rebuilds = 0 =>
    /\ \A a, b \in evidence : a.generation = b.generation => a.model = b.model
    /\ \A a \in evidence :
         /\ a.generation <= saved.generation
         /\ a.generation = saved.generation => a.model = saved.model

LearningInv == TypeOK /\ IdsInv /\ ServeInv /\ ConsumedInv /\ EvidenceInv

\* One label cost, and one grid of anchors, which an import of older ticks
\* moves unless every tick is an anchor: then every replay gives every row
\* the interval its label was made with.
OneReplay == MaxCost = 0 /\ (Stride = 1 \/ FirstLive = 1)

LabelInv ==
  /\ lo <= FirstLive
  /\ \A t \in Rows : t \in Labelled /\ looked[t] = End(t)
  /\ pc \in {"train", "consume"} => \A t \in Rows : intervals[t] = looked[t]
  /\ BoundaryRespected
=============================================================================
