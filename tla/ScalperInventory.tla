-------------------------- MODULE ScalperInventory ---------------------------
(***************************************************************************)
(* What the scalper holds and what it plans about it: ScalperCore.on_tick  *)
(* (truetrade/scalper/engine.py) with its portfolio guard, exits, sizing   *)
(* and risk limits, and DemoScalperRuntime carrying the plan out intent by *)
(* intent.  ScalperExec models the journal of one order; here an order is  *)
(* refused, filled, or left open, and open orders may still fill.          *)
(*                                                                         *)
(* Simplifications.                                                        *)
(*  - Volumes are counted in minimum lots; a position is named by the      *)
(*    order in which the positions were opened.                            *)
(*  - Probabilities and features are left out: the side the model leans to *)
(*    and every threshold an entry or an exit needs are open choices.  The *)
(*    hard stop is not: it depends on the price alone.                     *)
(*  - Position files, outcomes and learning are in the other modules; the  *)
(*    execution block is a flag that an observed write may move.           *)
(*  - So is the limit of orders per second, which withholds entries only.  *)
(*  - A ticket is never used again: what was known of a position goes when *)
(*    it closes, and not with the next snapshot.                           *)
(***************************************************************************)
EXTENDS Naturals, Sequences, FiniteSets

CONSTANTS
  Ticket,          \* bound: positions that may ever be open, in their order
  MaxPositions, MaxSameSide, MaxTotal, MaxDirectional, \* ScalperRiskLimits
  MaxSize,         \* lots of one entry
  Parts,           \* an exit takes one part in so many: 2 and 4 in the code
  MaxReductions,   \* exit reductions of one position
  MaxHeld,         \* bound: lots found at the first start, together
  MaxCrashes       \* bound: crashes

ASSUME LimitsAssumption ==
  /\ IsFiniteSet(Ticket) /\ Ticket = 1..Cardinality(Ticket)
  /\ {MaxPositions, MaxSameSide, MaxTotal, MaxDirectional, MaxSize, MaxReductions}
       \subseteq Nat \ {0}
  /\ Parts \subseteq Nat \ {0, 1} /\ MaxSameSide <= MaxPositions
  /\ MaxHeld \in Nat /\ MaxCrashes \in Nat

Side == {"LONG", "SHORT"}

VARIABLES
  \* MT5
  size,      \* lots of a position, 0 when it is not open
  side,
  opened,    \* positions opened so far
  adverse,   \* positions whose loss has reached the hard stop
  \* scalper.sqlite
  spent,     \* positions.reductions
  blocked,   \* execution quality blocks entries
  open,      \* the write with an unsettled row, if any
  halted,    \* meta scalper_execution_halted
  \* memory
  up,        \* is the process running?
  warm,      \* does the feature engine deliver?
  snap,      \* the positions of the last _positions()
  queue,     \* planned intents, the current one first
  \* history
  scaled,    \* exit reductions of a position that were executed
  crashes

broker == <<size, side, opened>>
store == <<spent, blocked, open, halted>>
memory == <<up, warm, snap, queue>>
vars == <<broker, adverse, store, memory, scaled, crashes>>

Open == {p \in Ticket : size[p] > 0}
Lots(ps) == Cardinality(UNION {{p} \X (1..size[p]) : p \in ps})
OnSide(s) == {p \in Open : side[p] = s}

\* part: 1 for a full close, 2 for a half.
Intent == [kind : {"REDUCE", "CLOSE"}, on : Ticket, part : {1, 2} \cup Parts, exit : BOOLEAN]
          \cup [kind : {"PROTECT"}, on : Ticket]
          \cup [kind : {"ENTER"}, side : Side, lots : 1..MaxSize]
None == [kind |-> "none"]
Settled == [kind |-> "settled"]

\* An earlier session, a smaller configuration or the operator may have left
\* any inventory.
Init ==
  /\ opened \in 0..Cardinality(Ticket)
  /\ size \in [Ticket -> 0..MaxHeld] /\ \A p \in Ticket : size[p] > 0 <=> p <= opened
  /\ Lots(Open) <= MaxHeld
  /\ side \in [Ticket -> Side] /\ \A p \in Ticket : p > opened => side[p] = "LONG"
  /\ adverse = {}
  /\ spent = [p \in Ticket |-> 0] /\ blocked = FALSE /\ open = None /\ halted = FALSE
  /\ up = FALSE /\ warm = FALSE /\ snap = {} /\ queue = << >>
  /\ scaled = [p \in Ticket |-> 0] /\ crashes = 0

-----------------------------------------------------------------------------
(* The portfolio guard.                                                    *)

\* Mutant of TooMany: the limit itself is too many.
FullHouse(n) == n >= MaxPositions

TooMany(n) == n > MaxPositions

\* Is the inventory over its limits, were the positions of half halved?  (The
\* lots are doubled: the guard halves without rounding.)
Over(half) ==
  LET Lots2(ps) == Lots(ps) + Lots(ps \ half)
  IN  \/ TooMany(Cardinality(Open))
      \/ Lots2(Open) > 2 * MaxTotal
      \/ \E s \in Side : Lots2(OnSide(s)) > 2 * MaxDirectional

\* Positions in the broker's order.
InOrder(ps) ==
  [i \in 1..Cardinality(ps) |-> CHOOSE p \in ps : Cardinality({q \in ps : q <= p}) = i]

\* Positions against the lean of the model come first; sorted is stable.
Candidates(lean) == InOrder(Open \ OnSide(lean)) \o InOrder(OnSide(lean))

\* emergency_deleveraging: halve one after the other until the limits hold.
Deleveraging(lean) ==
  LET c == Candidates(lean)
      n == CHOOSE k \in 1..Len(c) :
             /\ k = Len(c) \/ ~Over({c[i] : i \in 1..k})
             /\ \A j \in 1..(k - 1) : Over({c[i] : i \in 1..j})
  IN  [i \in 1..n |-> [kind |-> "REDUCE", on |-> c[i], part |-> 2, exit |-> FALSE]]

-----------------------------------------------------------------------------
(* Exits, protection and entries.                                          *)

\* Mutant of Tracked: _merge_tracking does not carry reductions over.
Untracked(p) == 0

\* _merge_tracking: what was stored about the position.
Tracked(p) == spent[p]

Close(p) == [kind |-> "CLOSE", on |-> p, part |-> 1, exit |-> TRUE]

\* DynamicProtectionManager: a held position may earn a tighter stop.
Held(p) == {None, [kind |-> "PROTECT", on |-> p]}

\* AlgorithmicExitManager.evaluate: the hard stop closes whatever the model
\* says, and a reduction needs budget.
Exits(p) ==
  IF p \in adverse THEN {Close(p)}
  ELSE {Close(p)} \cup Held(p)
       \cup {[kind |-> "REDUCE", on |-> p, part |-> f, exit |-> TRUE] :
               f \in IF Tracked(p) < MaxReductions THEN Parts ELSE {}}

\* Mutant of PositionsAllow: off by one.
OneMore(s) == Cardinality(Open) <= MaxPositions /\ Cardinality(OnSide(s)) <= MaxSameSide

PositionsAllow(s) == Cardinality(Open) < MaxPositions /\ Cardinality(OnSide(s)) < MaxSameSide

\* can_open.
CanOpen(s, lots) ==
  /\ PositionsAllow(s)
  /\ Lots(Open) + lots <= MaxTotal
  /\ Lots(OnSide(s)) + lots <= MaxDirectional

\* AdaptiveSizer.size: any size up to the room that is left.
Sizes(s) ==
  {n \in 1..MaxSize : n + Lots(Open) <= MaxTotal /\ n + Lots(OnSide(s)) <= MaxDirectional}

\* No entry beside a close, while execution is blocked, or against a position.
Entries(exits) ==
  {e \in [kind : {"ENTER"}, side : {s \in Side : OnSide(s) = Open}, lots : 1..MaxSize] :
     /\ ~blocked /\ \A p \in Open : exits[p].kind # "CLOSE"
     /\ e.lots \in Sizes(e.side) /\ CanOpen(e.side, e.lots)}

\* What the positions need, those that are held left out.
Intents(exits) ==
  LET ps == InOrder({p \in Open : exits[p] # None})
  IN  [i \in DOMAIN ps |-> exits[ps[i]]]

\* on_tick: the guard alone, or what every position needs and then an entry.
Plans ==
  IF Over({})
  THEN {[intents |-> Deleveraging(lean), reduced |-> {}] : lean \in Side \cup {"NONE"}}
  ELSE LET exits == {x \in [Open -> UNION {Exits(p) : p \in Open}] :
                       \A p \in Open : x[p] \in Exits(p)}
           reduced(x) == {p \in Open : x[p].kind = "REDUCE"}
       IN  {[intents |-> Intents(x), reduced |-> reduced(x)] : x \in exits}
           \cup UNION {{[intents |-> Append(Intents(x), e), reduced |-> reduced(x)] :
                         e \in Entries(x)} : x \in exits}

-----------------------------------------------------------------------------
(* run_once.                                                               *)

Idle == up /\ queue = << >>

\* The rows of the positions are written anew, with what was just spent.
ReplacePositions(reduced) ==
  spent' = [p \in Ticket |-> IF p \in reduced THEN Tracked(p) + 1 ELSE Tracked(p)]

\* observe, observe_failure: the averages move, and with them the block.
Observed == blocked' \in BOOLEAN

\* After a start the features have to be built up again.
Warm ==
  /\ Idle /\ ~warm
  /\ warm' = TRUE
  /\ UNCHANGED <<broker, adverse, store, up, snap, queue, scaled, crashes>>

\* The positions are stored with what their exits spent, before anything is
\* executed.  While execution is halted the plan is only logged.
Poll ==
  /\ Idle /\ warm
  /\ UNCHANGED <<broker, adverse, blocked, open, halted, up, warm, scaled, crashes>>
  /\ \E plan \in Plans :
       /\ ReplacePositions(plan.reduced)
       /\ queue' = IF halted THEN << >> ELSE plan.intents
       /\ snap' = IF queue' = << >> THEN {} ELSE Open

Current == Head(queue)
IsExit(i) == i.kind \in {"REDUCE", "CLOSE"}

\* Is i a reduction of p that its exits planned?
Scales(i, p) == i.kind = "REDUCE" /\ i.on = p /\ i.exit

\* The process is gone, and with it its plan.
Down == up' = FALSE /\ warm' = FALSE /\ queue' = << >> /\ snap' = {}

\* What is left of the volume after rounding down; a reduction of a single
\* lot rounds to nothing and is refused.
Volume(i) == size[i.on] \div i.part

\* An exit needs its position in the last snapshot.
Known(i) == IsExit(i) => i.on \in snap

\* The snapshot is taken again after every intent; after the last one it is
\* not used any more.
Advance == queue' = Tail(queue) /\ snap' = IF queue' = << >> THEN {} ELSE Open'

Refused ==
  /\ queue # << >> /\ Known(Current)
  /\ UNCHANGED <<broker, adverse, spent, open, halted, up, warm, scaled, crashes>>
  /\ Advance
  /\ Observed

\* Position p is left with n lots; with none, nothing of it is kept.
Resize(p, n) ==
  /\ size' = [size EXCEPT ![p] = n]
  /\ side' = IF n > 0 THEN side ELSE [side EXCEPT ![p] = "LONG"]
  /\ adverse' = IF n > 0 THEN adverse ELSE adverse \ {p}
  /\ spent' = IF n > 0 THEN spent ELSE [spent EXCEPT ![p] = 0]
  /\ UNCHANGED opened

\* An order for n lots takes effect.
Fills(i, n) ==
  \/ /\ i.kind = "ENTER" /\ opened < Cardinality(Ticket) /\ n \in 1..i.lots
     /\ opened' = opened + 1
     /\ size' = [size EXCEPT ![opened + 1] = n] /\ side' = [side EXCEPT ![opened + 1] = i.side]
     /\ UNCHANGED <<adverse, spent, scaled>>
  \/ /\ IsExit(i) /\ n \in 1..Volume(i)
     /\ Resize(i.on, size[i.on] - n)
     /\ scaled' = [scaled EXCEPT ![i.on] =
                     IF size'[i.on] = 0 THEN 0 ELSE IF Scales(i, i.on) THEN @ + 1 ELSE @]
  \/ /\ i.kind = "PROTECT" /\ n = 1 /\ size[i.on] > 0
     /\ UNCHANGED <<broker, adverse, spent, scaled>>

\* What the readback must show.
Asked(i) == IF i.kind = "ENTER" THEN i.lots ELSE IF IsExit(i) THEN Volume(i) ELSE 1

Filled ==
  /\ queue # << >> /\ Known(Current)
  /\ Fills(Current, Asked(Current))
  /\ Advance
  /\ IF Current.kind = "PROTECT" THEN UNCHANGED blocked ELSE Observed
  /\ UNCHANGED <<open, halted, up, warm, crashes>>

\* Mutant of HaltLatch: the flag is left as it was.
NoLatch == halted

HaltLatch == TRUE

\* ExecutionUncertain: run_forever goes on, scripts/bbyg_demo.py exits.
Doubtful ==
  /\ queue # << >> /\ Known(Current)
  /\ open' = Current /\ halted' = HaltLatch
  /\ Observed
  /\ Down \/ (queue' = << >> /\ snap' = {} /\ UNCHANGED <<up, warm>>)
  /\ UNCHANGED <<broker, adverse, spent, scaled, crashes>>

\* ValueError behind a row that is submitted already.
Missing ==
  /\ queue # << >> /\ ~Known(Current)
  /\ open' = Current /\ Down
  /\ UNCHANGED <<broker, adverse, spent, blocked, halted, scaled, crashes>>

\* The process dies; the current intent may be submitted.
Crash ==
  /\ up /\ crashes < MaxCrashes
  /\ crashes' = crashes + 1
  /\ Down
  /\ open' \in {open} \cup (IF queue # << >> THEN {Current} ELSE {})
  /\ UNCHANGED <<broker, adverse, spent, blocked, halted, scaled>>

\* startup_reconcile: an order that was filled is found, or is not.
Start ==
  /\ ~up
  /\ up' = TRUE
  /\ \/ open \in {None, Settled} /\ open' = None /\ halted' = FALSE
     \/ open # None /\ UNCHANGED open /\ halted' = TRUE
  /\ UNCHANGED <<broker, adverse, spent, blocked, warm, snap, queue, scaled, crashes>>

-----------------------------------------------------------------------------
(* The market and the terminal.                                            *)

\* An open order takes effect, in part or as asked for.
LateFill ==
  /\ open \notin {None, Settled}
  /\ \E n \in 1..Asked(open) : Fills(open, n)
  /\ open' = Settled
  /\ UNCHANGED <<blocked, halted, memory, crashes>>

\* A stop-out, or the operator.
Shrink ==
  /\ \E p \in Open : \E n \in 0..(size[p] - 1) :
       /\ Resize(p, n)
       /\ scaled' = [scaled EXCEPT ![p] = IF n = 0 THEN 0 ELSE @]
  /\ UNCHANGED <<blocked, open, halted, memory, crashes>>

Move ==
  /\ \E p \in Open : adverse' \in {adverse \cup {p}, adverse \ {p}}
  /\ UNCHANGED <<broker, store, memory, scaled, crashes>>

-----------------------------------------------------------------------------
Process == Warm \/ Poll \/ Refused \/ Filled \/ Doubtful \/ Missing \/ Start

Next == Process \/ Crash \/ LateFill \/ Shrink \/ Move

Spec == Init /\ [][Next]_vars

\* The loop polls for ever and is started again when it exits, and the broker
\* does not refuse every close.
FairSpec ==
  Spec /\ WF_vars(Process) /\ SF_vars(Filled /\ Current.kind = "CLOSE")
-----------------------------------------------------------------------------
(* Properties.                                                             *)

\* docs/SCALPER_PHASE3.md:21 "RiskController still blocks new entries when
\* total, directional, position-count ... limits are reached": whatever was
\* inherited and whenever an order fills, the inventory grows only to what
\* the limits allow, and on one side.
Within ==
  /\ Cardinality(Open) <= MaxPositions /\ Lots(Open) <= MaxTotal
  /\ \E s \in Side :
       OnSide(s) = Open /\ Cardinality(Open) <= MaxSameSide /\ Lots(Open) <= MaxDirectional
GrowsWithinLimits == [][opened' # opened => Within']_vars

\* ExitSettings.max_reductions, over the whole life of a position: restarts,
\* late fills and halts never let the exits take another part of it.
ReductionsBudgeted == \A p \in Ticket : scaled[p] <= MaxReductions

\* docs/SCALPER_ARCHITECTURE.md:42 "CLOSE on hard adverse movement": unless
\* the inventory is over its limits, when the guard plans alone, a position
\* at its hard stop is closed, or recovers, or execution is halted.
HardStopIsClosed ==
  \A p \in Ticket :
    (p \in adverse /\ size[p] > 0 /\ up /\ ~Over({})) ~> (size[p] = 0 \/ p \notin adverse \/ halted)
-----------------------------------------------------------------------------
(* The strengthening that makes the first two inductive.                   *)

ITypeOK ==
  /\ size \in [Ticket -> Nat] /\ side \in [Ticket -> Side] /\ opened \in 0..Cardinality(Ticket)
  /\ adverse \subseteq Ticket /\ spent \in [Ticket -> Nat] /\ scaled \in [Ticket -> Nat]
  /\ {blocked, halted, up, warm} \subseteq BOOLEAN /\ snap \subseteq Ticket
  /\ queue \in Seq(Intent) /\ open \in Intent \cup {None, Settled} /\ crashes \in Nat

\* Nothing waits to be executed while an order is open, and an order that is
\* open halts.
HaltInv == open # None => queue = << >> /\ (up => halted)

\* What is planned or open, of the positions opened so far.
Outstanding == {queue[i] : i \in DOMAIN queue} \cup ({open} \ {None, Settled})

KnownInv ==
  /\ \A p \in Ticket : size[p] > 0 => p <= opened
  /\ \A i \in Outstanding : i.kind # "ENTER" => i.on <= opened

\* Is a reduction planned for p not executed yet?
Owed(p) == \E i \in Outstanding : Scales(i, p)

\* What the exits of an open position have spent is at least what they have
\* taken, what they have planned and what is open.
BudgetInv ==
  /\ \A i, j \in DOMAIN queue : \A p \in Ticket :
       Scales(queue[i], p) /\ Scales(queue[j], p) => i = j
  /\ \A p \in Ticket :
       /\ spent[p] <= MaxReductions
       /\ IF size[p] = 0 THEN scaled[p] = 0
          ELSE scaled[p] + (IF Owed(p) THEN 1 ELSE 0) <= spent[p]

\* An entry is the last thing planned, and still has its room and its side.
Fits(e) == OnSide(e.side) = Open /\ CanOpen(e.side, e.lots)

EntryInv ==
  /\ \A i \in DOMAIN queue : queue[i].kind = "ENTER" => i = Len(queue)
  /\ \A i \in Outstanding : i.kind = "ENTER" => Fits(i)

InventoryInv == ITypeOK /\ HaltInv /\ KnownInv /\ BudgetInv /\ EntryInv
=============================================================================
