----------------------------- MODULE ScalperExec -----------------------------
(***************************************************************************)
(* The order path of the tick-driven scalper: DemoScalperRuntime           *)
(* (truetrade/scalper/runtime.py) driving DemoMT5Execution                 *)
(* (scalper/execution.py) over the execution journal of ScalperStore       *)
(* (scalper/store.py), with the MT5 terminal and its trade server as the   *)
(* environment.                                                            *)
(*                                                                         *)
(* One decision is one row of execution_intents.  The process may die      *)
(* between any two durable writes and restarts into startup_reconcile; an  *)
(* order it sent may execute or be refused at any later time, whatever     *)
(* the process was told.                                                   *)
(*                                                                         *)
(* Simplifications.                                                        *)
(*  - OPEN stands for OPEN and ADD, which take the same path.  Sides,      *)
(*    prices and confidences are left out; on_tick may plan anything its   *)
(*    control flow allows for the snapshot it is given.                    *)
(*  - A position is named by the decision that opened it.  Its volume is   *)
(*    counted in minimum lots and its broker stop in tightening levels,    *)
(*    0 being the emergency stop sent with the entry.                      *)
(*  - Crash is every death of the process that is not one of the           *)
(*    exceptions modelled on its own: a kill, --once, a lost terminal, an  *)
(*    MT5 query that fails (DemoExecutionError escapes the loop).          *)
(***************************************************************************)
EXTENDS Naturals, Sequences

CONSTANTS
  MaxTick,      \* bound: ticks on which on_tick may plan something
  MaxIntents,   \* bound: non-HOLD intents planned on one tick
  Carried,      \* entries an earlier session opened and confirmed
  Lot,          \* minimum lots bought by one entry
  MaxStop,      \* bound: tightening levels of a broker stop
  MaxCrashes,   \* bound: crashes
  AmbiguousZeroTicket, \* may an order answered without a ticket still execute?
  NoPosition

Decision == ((1..MaxTick) \X (1..MaxIntents)) \cup Carried

ASSUME BoundsAssumption ==
  /\ MaxTick \in Nat /\ MaxIntents \in Nat /\ MaxStop \in Nat /\ MaxCrashes \in Nat
  /\ Lot \in Nat \ {0}
  /\ AmbiguousZeroTicket \in BOOLEAN
ASSUME CarriedAssumption == Carried \subseteq {0} \X Nat
ASSUME NoPositionAssumption == NoPosition \notin Decision

Level == 0..MaxStop
Intent == [kind : {"OPEN", "REDUCE", "CLOSE", "PROTECT"},
           position_id : Decision \cup {NoPosition}, stop : Level]
NoIntent == [kind |-> "OPEN", position_id |-> NoPosition, stop |-> 0]
Planned == [id : Decision, intent : Intent]

VARIABLES
  \* scalper.sqlite
  journal,    \* execution_intents.state, "absent" while there is no row
  intent,     \* execution_intents.kind, position_id, stop
  risk,       \* is execution_intents.risk_amount known?
  halted,     \* meta scalper_execution_halted
  outcomes,   \* decisions with a trade_outcomes row
  seen,       \* is the broker's current tick in the ticks table?
  \* memory of the process
  pc,
  at,         \* the tick run_once is processing
  delivered,  \* has latest_tick already returned the current tick?
  snap,       \* open positions at the last _positions()
  queue,      \* planned intents not yet executed, the current one first
  todo,       \* rows a reconcile or harvest loop has still to visit
  added,      \* has this harvest recorded an outcome?
  after,      \* where run_once goes on after the harvest
  expect,     \* volume the readback must show for the order just sent
  \* MT5
  tick,       \* the current quote
  fate,       \* what became of the order sent for a decision
  sends,      \* how often order_send was called for a decision
  req,        \* stop level in the request sent for a PROTECT
  vol,        \* open volume of a position
  stop,       \* broker-side stop of a position
  aged,       \* decisions whose deal left the 24 h window of find_decision
  crashes

store == <<journal, intent, risk, halted, outcomes, seen>>
memory == <<pc, at, delivered, snap, queue, todo, added, after, expect>>
market == <<tick, fate, sends, req, vol, stop, aged>>
vars == <<store, memory, market, crashes>>

Unsettled(d) == journal[d] \in {"created", "submitted", "unknown"}
OpenPositions == {e \in Decision : vol[e] > 0}
IsExit(i) == i.kind \in {"REDUCE", "CLOSE"}

Current == Head(queue)
Cur == Current.id

\* Mutant of Unharvested: only the entries of the current tick.
UnharvestedNow ==
  {d \in Decision :
     journal[d] = "confirmed" /\ intent[d].kind = "OPEN" /\ d \notin outcomes /\ d[1] = tick}

\* Rows the harvest visits: confirmed entries without an outcome.
Unharvested ==
  {d \in Decision : journal[d] = "confirmed" /\ intent[d].kind = "OPEN" /\ d \notin outcomes}

Init ==
  /\ journal = [d \in Decision |-> IF d \in Carried THEN "confirmed" ELSE "absent"]
  /\ intent = [d \in Decision |-> NoIntent]
  /\ risk = [d \in Decision |-> d \in Carried]
  /\ halted = FALSE /\ outcomes = {} /\ seen = FALSE
  /\ pc = "down" /\ at = 0 /\ delivered = FALSE /\ snap = {} /\ queue = << >>
  /\ todo = {} /\ added = FALSE /\ after = "idle" /\ expect = 0
  /\ tick = 0
  /\ fate = [d \in Decision |-> IF d \in Carried THEN "done" ELSE "none"]
  /\ sends = [d \in Decision |-> IF d \in Carried THEN 1 ELSE 0]
  /\ req = [d \in Decision |-> 0]
  /\ vol = [d \in Decision |-> IF d \in Carried THEN Lot ELSE 0]
  /\ stop = [d \in Decision |-> 0]
  /\ aged = {} /\ crashes = 0

-----------------------------------------------------------------------------
(* Process start, exit and startup_reconcile.                              *)

\* The local variables of run_once go out of scope.
Return(next) ==
  /\ pc' = next /\ at' = 0 /\ snap' = {} /\ queue' = << >>
  /\ todo' = {} /\ added' = FALSE /\ after' = "idle" /\ expect' = 0

\* The process is gone, and the tick signature of its adapter with it.
Die == Return("down") /\ delivered' = FALSE

Crash ==
  /\ pc # "down" /\ crashes < MaxCrashes
  /\ crashes' = crashes + 1
  /\ Die
  /\ UNCHANGED <<store, market>>

Start ==
  /\ pc = "down"
  /\ pc' = "recon"
  /\ todo' = {d \in Decision : Unsettled(d)}
  /\ UNCHANGED <<store, market, crashes, at, delivered, snap, queue, added, after, expect>>

Visit(d) == d \in todo /\ todo' = todo \ {d}

\* The bookkeeping shared by the branches of the reconcile loop.
Reconciling(d) ==
  /\ pc = "recon" /\ Visit(d)
  /\ UNCHANGED <<market, crashes, intent, risk, halted, outcomes, seen,
                 pc, at, delivered, snap, queue, added, after, expect>>

\* Mutant of NeverSent: an order without an answer is taken for unsent.
NeverAnswered(d) == journal[d] \in {"created", "submitted"}

\* A row that never reached "submitted" was never sent.
NeverSent(d) == journal[d] = "created"

RejectUnsent(d) ==
  /\ Reconciling(d) /\ NeverSent(d)
  /\ journal' = [journal EXCEPT ![d] = "rejected"]

\* protection_matches: the position is open and carries the wanted stop.
ProtectionMatches(i) ==
  i.position_id \in OpenPositions /\ stop[i.position_id] = i.stop

\* Mutant of DealFound: the deal counts only while its position is open.
DealOfOpenPosition(d) ==
  /\ intent[d].kind # "PROTECT" /\ fate[d] = "done" /\ d \notin aged
  /\ intent[d].kind = "OPEN" => vol[d] > 0

\* find_decision: a deal with the decision's comment in the last 24 hours.
DealFound(d) == intent[d].kind # "PROTECT" /\ fate[d] = "done" /\ d \notin aged

Evident(d) ==
  IF intent[d].kind = "PROTECT" THEN ProtectionMatches(intent[d]) ELSE DealFound(d)

\* The order is found at the broker: risk_amount stays NULL.
ConfirmFound(d) ==
  /\ Reconciling(d) /\ journal[d] \in {"submitted", "unknown"} /\ Evident(d)
  /\ journal' = [journal EXCEPT ![d] = "confirmed"]

LeaveUnresolved(d) ==
  /\ Reconciling(d) /\ journal[d] \in {"submitted", "unknown"} /\ ~Evident(d)
  /\ UNCHANGED journal

\* Mutant of AnyUnsettled: only rows marked "unknown" count.
AnyUnknown == \E d \in Decision : journal[d] = "unknown"

AnyUnsettled == \E d \in Decision : Unsettled(d)

FinishReconcile ==
  /\ pc = "recon" /\ todo = {}
  /\ halted' = AnyUnsettled
  /\ pc' = "idle"
  /\ UNCHANGED <<market, crashes, journal, intent, risk, outcomes, seen,
                 at, delivered, snap, queue, todo, added, after, expect>>

-----------------------------------------------------------------------------
(* run_once: a tick, the harvest, the plan.                                *)

\* A restarted process is given the tick an earlier one journaled.
PollDuplicate ==
  /\ pc = "idle" /\ ~delivered /\ seen
  /\ delivered' = TRUE
  /\ UNCHANGED <<store, market, crashes, pc, at, snap, queue, todo, added, after, expect>>

BeginHarvest(next, positions) ==
  /\ pc' = "harvest" /\ after' = next /\ added' = FALSE
  /\ snap' = positions /\ todo' = Unharvested

\* Mutant of NewTick: the ticks table has no primary key.
AnyTick == TRUE

\* append_tick: INSERT OR IGNORE, keyed by the timestamp.
NewTick == ~seen

\* append_tick, then a snapshot of the positions.
PollNew ==
  /\ pc = "idle" /\ ~delivered /\ NewTick
  /\ delivered' = TRUE /\ seen' = TRUE /\ at' = tick
  /\ BeginHarvest("decide", OpenPositions)
  /\ UNCHANGED <<market, crashes, journal, intent, risk, halted, outcomes, queue, expect>>

\* closed_outcome: the deals of the position balance, entry against exit.
ClosedOutcome(d) == fate[d] = "done" /\ vol[d] = 0

Recordable(d) == d \notin snap /\ risk[d] /\ ClosedOutcome(d)

HarvestOne(d) ==
  /\ pc = "harvest" /\ Visit(d)
  /\ outcomes' = IF Recordable(d) THEN outcomes \cup {d} ELSE outcomes
  /\ added' = (added \/ Recordable(d))
  /\ UNCHANGED <<market, crashes, journal, intent, risk, halted, seen,
                 pc, at, delivered, snap, queue, after, expect>>

\* Nothing new: no forward evaluation.
HarvestNothingNew ==
  /\ pc = "harvest" /\ todo = {} /\ ~added
  /\ \/ /\ after = "decide" /\ pc' = "decide"
        /\ UNCHANGED <<at, snap, queue, todo, added, after, expect>>
     \/ after = "idle" /\ Return("idle")
  /\ UNCHANGED <<store, market, crashes, delivered>>

\* forward.evaluate_store passes the generation by position to the
\* keyword-only parameter of trade_outcomes: TypeError, which nothing
\* catches.  (Only a qualified model, of generation >= 1, opens positions.)
EvaluateForward ==
  /\ pc = "harvest" /\ todo = {} /\ added
  /\ Die
  /\ UNCHANGED <<store, market, crashes>>

\* What on_tick may return for the snapshot: at most one intent for a
\* position, protection only ever tighter, an entry last and only when
\* nothing is closed.  HOLD intents are left out of the numbering.
Plans ==
  LET For(e) == {[kind |-> k, position_id |-> e, stop |-> 0] : k \in {"REDUCE", "CLOSE"}}
                \cup {[kind |-> "PROTECT", position_id |-> e, stop |-> s] :
                        s \in {l \in Level : l > stop[e]}}
      Options == (UNION {For(e) : e \in snap}) \cup {NoIntent}
  IN  {p \in UNION {[1..n -> Options] : n \in 0..MaxIntents} :
         /\ \A i, j \in DOMAIN p : i # j => p[i].position_id # p[j].position_id
         /\ \A i \in DOMAIN p : p[i].kind = "OPEN" =>
              i = Len(p) /\ \A j \in DOMAIN p : p[j].kind # "CLOSE"}

\* The halt flag is read after on_tick; while it is set the plan is only
\* logged.  A disabled execution (execution_enabled) is the empty plan.
Decide ==
  /\ pc = "decide"
  /\ \/ halted /\ Return("idle")
     \/ /\ ~halted
        /\ \E p \in Plans :
             /\ p # << >> => at \in 1..MaxTick
             /\ queue' = [i \in 1..Len(p) |-> [id |-> <<at, i>>, intent |-> p[i]]]
        /\ pc' = "exec"
        /\ UNCHANGED <<at, snap, todo, added, after, expect>>
  /\ UNCHANGED <<store, market, crashes, delivered>>

-----------------------------------------------------------------------------
(* _execute: one intent.                                                   *)

\* The row is written before anything else is done about the intent.
Create ==
  /\ pc = "exec" /\ queue # << >>
  /\ journal[Cur] = "absent"
  /\ journal' = [journal EXCEPT ![Cur] = "created"]
  /\ intent' = [intent EXCEPT ![Cur] = Current.intent]
  /\ pc' = "created"
  /\ UNCHANGED <<market, crashes, risk, halted, outcomes, seen,
                 at, delivered, snap, queue, todo, added, after, expect>>

\* _execution_side looks the exit's position up in the last snapshot, after
\* the row became "submitted"; if it is gone, ValueError ends the process.
Submit ==
  /\ pc = "created"
  /\ journal' = [journal EXCEPT ![Cur] = "submitted"]
  /\ IF IsExit(Current.intent) /\ Current.intent.position_id \notin snap
       THEN Die
       ELSE /\ pc' = "preflight"
            /\ UNCHANGED <<at, delivered, snap, queue, todo, added, after, expect>>
  /\ UNCHANGED <<market, crashes, intent, risk, halted, outcomes, seen>>

\* What the request asks for, floor(volume * fraction) in whole lots.
Volume(i) == IF i.kind = "CLOSE" THEN vol[i.position_id] ELSE vol[i.position_id] \div 2

Settle(verdict, next) ==
  /\ journal' = [journal EXCEPT ![Cur] = verdict]
  /\ pc' = next

\* Every refusal before order_send: permissions, foreign positions, spread,
\* volume limits, risk budget, an absent position, a stop that would not
\* tighten, order_check.  The tick read for the write may be consumed.
Preflight ==
  /\ pc = "preflight"
  /\ Settle("rejected", "refresh")
  /\ delivered' \in {delivered, TRUE}
  /\ UNCHANGED <<market, crashes, intent, risk, halted, outcomes, seen,
                 at, snap, queue, todo, added, after, expect>>

\* order_send.  _fresh_tick_for_write has read the current tick, which
\* run_once will not be given again.  A PROTECT is clamped to the minimum
\* distance from the market, so the stop sent may be short of the wanted one.
OrderSend ==
  LET i == Current.intent
      e == i.position_id IN
  /\ pc = "preflight"
  /\ i.kind # "OPEN" => e \in OpenPositions
  /\ \/ i.kind = "OPEN" /\ expect' = Lot /\ UNCHANGED req
     \/ /\ IsExit(i) /\ Volume(i) > 0
        /\ expect' = vol[e] - Volume(i) /\ UNCHANGED req
     \/ /\ i.kind = "PROTECT"
        /\ \E s \in Level : s > stop[e] /\ s <= i.stop /\ req' = [req EXCEPT ![Cur] = s]
        /\ UNCHANGED expect
  /\ sends' = [sends EXCEPT ![Cur] = @ + 1]
  /\ fate' = [fate EXCEPT ![Cur] = "inflight"]
  /\ delivered' = TRUE
  /\ pc' = "sent"
  /\ UNCHANGED <<store, tick, vol, stop, aged, crashes,
                 at, snap, queue, todo, added, after>>

\* DONE or DONE_PARTIAL: go and verify order, deal and position.
ReplyDone ==
  /\ pc = "sent" /\ fate[Cur] = "done"
  /\ pc' = "verify"
  /\ UNCHANGED <<store, market, crashes, at, delivered, snap, queue, todo, added, after, expect>>

\* Any other retcode of a deal request that carries neither an order nor a
\* deal ticket is taken for a rejection (a timeout's retcode too).
TicketlessReply == fate[Cur] = "refused" \/ AmbiguousZeroTicket

ReplyRejected ==
  /\ pc = "sent" /\ Current.intent.kind # "PROTECT" /\ TicketlessReply
  /\ Settle("rejected", "refresh")
  /\ UNCHANGED <<market, crashes, intent, risk, halted, outcomes, seen,
                 at, delivered, snap, queue, todo, added, after, expect>>

\* Mutant of AfterUncertain: send it again.
Retry == "preflight"

AfterUncertain == "latch"

\* No answer, a malformed one, another retcode with a ticket, any retcode
\* but DONE for a PROTECT; or a readback that does not show the effect (the
\* history may lag, the stop may have hit meanwhile).
Uncertain ==
  /\ pc \in {"sent", "verify"}
  /\ Settle("unknown", AfterUncertain)
  /\ UNCHANGED <<market, crashes, intent, risk, halted, outcomes, seen,
                 at, delivered, snap, queue, todo, added, after, expect>>

Readback(i, d) ==
  CASE i.kind = "OPEN"    -> vol[d] = expect
    [] i.kind = "PROTECT" -> i.position_id \in OpenPositions /\ stop[i.position_id] = req[d]
    [] OTHER              -> vol[i.position_id] = expect

Confirm ==
  /\ pc = "verify" /\ Readback(Current.intent, Cur)
  /\ Settle("confirmed", "refresh")
  /\ risk' = [risk EXCEPT ![Cur] = (Current.intent.kind = "OPEN")]
  /\ UNCHANGED <<market, crashes, intent, halted, outcomes, seen,
                 at, delivered, snap, queue, todo, added, after, expect>>

\* Mutant of HaltLatch: the flag is left as it was.
NoLatch == halted

HaltLatch == TRUE

\* The halt is a second durable write.  ExecutionUncertain then leaves
\* run_once: run_forever goes on polling, scripts/bbyg_demo.py exits.
Latch ==
  /\ pc = "latch"
  /\ halted' = HaltLatch
  /\ Die \/ (Return("idle") /\ UNCHANGED delivered)
  /\ UNCHANGED <<market, crashes, journal, intent, risk, outcomes, seen>>

\* The snapshot is refreshed after every intent, executed or refused.
Refresh ==
  /\ pc = "refresh"
  /\ snap' = OpenPositions /\ queue' = Tail(queue)
  /\ pc' = "exec"
  /\ UNCHANGED <<store, market, crashes, at, delivered, todo, added, after, expect>>

\* After the last intent the harvest runs again, on the last snapshot.
HarvestAgain ==
  /\ pc = "exec" /\ queue = << >>
  /\ BeginHarvest("idle", snap)
  /\ UNCHANGED <<store, market, crashes, at, delivered, queue, expect>>

-----------------------------------------------------------------------------
(* The terminal and the trade server.                                      *)

\* Ticks past MaxTick are ticks on which nothing is planned.
Quote ==
  /\ tick' = IF tick <= MaxTick THEN tick + 1 ELSE tick
  /\ seen' = FALSE /\ delivered' = FALSE
  /\ UNCHANGED <<journal, intent, risk, halted, outcomes, fate, sends, req, vol, stop, aged,
                 pc, at, snap, queue, todo, added, after, expect, crashes>>

\* An order executes, in full or (DONE_PARTIAL) in part.
Fill(d) ==
  LET i == intent[d]
      e == i.position_id IN
  /\ fate[d] = "inflight"
  /\ fate' = [fate EXCEPT ![d] = "done"]
  /\ \/ /\ i.kind = "OPEN"
        /\ \E v \in 1..Lot : vol' = [vol EXCEPT ![d] = v]
        /\ UNCHANGED stop
     \/ /\ IsExit(i) /\ e \in OpenPositions
        /\ \E v \in 1..Volume(i) : vol' = [vol EXCEPT ![e] = @ - v]
        /\ UNCHANGED stop
     \/ /\ i.kind = "PROTECT" /\ e \in OpenPositions
        /\ stop' = [stop EXCEPT ![e] = req[d]]
        /\ UNCHANGED vol
  /\ UNCHANGED <<store, memory, crashes, tick, sends, req, aged>>

RefuseOrder(d) ==
  /\ fate[d] = "inflight"
  /\ fate' = [fate EXCEPT ![d] = "refused"]
  /\ UNCHANGED <<store, memory, crashes, tick, sends, req, vol, stop, aged>>

\* The broker-side stop is hit, or the position is closed from the terminal.
StopOut(e) ==
  /\ vol[e] > 0
  /\ vol' = [vol EXCEPT ![e] = 0]
  /\ UNCHANGED <<store, memory, crashes, tick, fate, sends, req, stop, aged>>

\* A process that stays down long enough loses sight of an old deal.
Age(d) ==
  /\ pc \in {"down", "idle"} /\ Unsettled(d) /\ fate[d] = "done" /\ d \notin aged
  /\ aged' = aged \cup {d}
  /\ UNCHANGED <<store, memory, crashes, tick, fate, sends, req, vol, stop>>

-----------------------------------------------------------------------------
Reconcile ==
  \E d \in Decision : RejectUnsent(d) \/ ConfirmFound(d) \/ LeaveUnresolved(d)

\* One step of the process, other than dying.
Process ==
  \/ Start \/ Reconcile \/ FinishReconcile
  \/ PollDuplicate \/ PollNew
  \/ \E d \in Decision : HarvestOne(d)
  \/ HarvestNothingNew \/ EvaluateForward \/ Decide
  \/ Create \/ Submit \/ Preflight \/ OrderSend
  \/ ReplyDone \/ ReplyRejected \/ Uncertain \/ Confirm \/ Latch
  \/ Refresh \/ HarvestAgain

Resolve == \E d \in Decision : Fill(d) \/ RefuseOrder(d)

Next ==
  \/ Process \/ Crash
  \/ Quote \/ Resolve
  \/ \E d \in Decision : StopOut(d) \/ Age(d)

Spec == Init /\ [][Next]_vars

\* The loop polls for ever and is restarted when it exits; the broker
\* quotes, and answers what it was sent.  Nothing is assumed of crashes,
\* which MaxCrashes bounds, of stop-outs or of which answer comes.
Fairness == WF_vars(Process) /\ WF_vars(Quote) /\ WF_vars(Resolve)

FairSpec == Spec /\ Fairness
-----------------------------------------------------------------------------
(* Properties.                                                             *)

StoreOK ==
  /\ journal \in [Decision -> {"absent", "created", "submitted", "confirmed", "rejected", "unknown"}]
  /\ intent \in [Decision -> Intent]
  /\ risk \in [Decision -> BOOLEAN] /\ halted \in BOOLEAN
  /\ outcomes \in SUBSET Decision /\ seen \in BOOLEAN

MemoryOK ==
  /\ pc \in {"down", "recon", "idle", "harvest", "decide", "exec", "created", "preflight",
             "sent", "verify", "latch", "refresh"}
  /\ at \in Nat /\ delivered \in BOOLEAN /\ snap \in SUBSET Decision
  /\ queue \in Seq(Planned)
  /\ todo \in SUBSET Decision /\ added \in BOOLEAN /\ after \in {"decide", "idle"}
  /\ expect \in 0..Lot

MarketOK ==
  /\ tick \in Nat
  /\ fate \in [Decision -> {"none", "inflight", "done", "refused"}]
  /\ sends \in [Decision -> Nat] /\ req \in [Decision -> Level]
  /\ vol \in [Decision -> 0..Lot] /\ stop \in [Decision -> Level]
  /\ aged \in SUBSET Decision

TypeOK == StoreOK /\ MemoryOK /\ MarketOK /\ crashes \in Nat

\* A decision that is about to be journaled has no row yet: neither a crash
\* nor a tick delivered again after a restart leads back to an old decision
\* (so the "duplicate unresolved decision id" branch of _execute is dead).
NeverReprocessed ==
  pc = "exec" => \A i \in DOMAIN queue : journal[queue[i].id] = "absent"

\* order_send is called at most once for a decision, in all sessions together.
SentAtMostOnce == \A d \in Decision : sends[d] <= 1

\* An order that may still execute is the only unsettled one: nothing new is
\* written while the outcome of an earlier write is open.
NoOverlappingWrites ==
  /\ \A d, e \in Decision : Unsettled(d) /\ Unsettled(e) => d = e
  /\ \A d \in Decision : fate[d] = "inflight" => Unsettled(d)

\* What the journal calls confirmed has happened at the broker: neither the
\* deal history nor the stop readback confirms an order that did not execute.
ConfirmedExecuted == \A d \in Decision : journal[d] = "confirmed" => fate[d] = "done"

\* What the journal calls rejected has not happened and never will.
RejectedNeverExecutes ==
  \A d \in Decision : journal[d] = "rejected" => fate[d] \in {"none", "refused"}

\* While the loop is free to trade, every open position is a confirmed entry
\* of the journal (or the one being verified right now).
PositionsAccountedFor ==
  \A e \in OpenPositions :
    \/ journal[e] = "confirmed"
    \/ halted \/ pc \in {"down", "recon"}
    \/ queue # << >> /\ Cur = e

\* No interleaving of a late protection order with a later one ever loosens
\* a broker-side stop.
StopsOnlyTighten == [][\A e \in Decision : stop'[e] >= stop[e]]_vars

\* Nothing is harvested before the position is flat at the broker.
HarvestedWhenFlat == \A d \in outcomes : journal[d] = "confirmed" /\ risk[d] /\ vol[d] = 0

\* The order path implements the one-shot order.
Verdict ==
  [d \in Decision |-> CASE journal[d] = "absent"    -> "none"
                        [] journal[d] = "confirmed" -> "done"
                        [] journal[d] = "rejected"  -> "void"
                        [] OTHER                    -> "pending"]
Effect == [d \in Decision |-> fate[d] = "done"]
OneShot == INSTANCE OneShotOrder WITH Order <- Decision, verdict <- Verdict, effect <- Effect
ImplementsOneShotOrder == OneShot!Spec

\* A verified entry whose position is flat is eventually harvested, whatever
\* the crashes and however the harvest itself ends the process.
ClosedTradeHarvested ==
  \A d \in Decision :
    (journal[d] = "confirmed" /\ intent[d].kind = "OPEN" /\ risk[d] /\ vol[d] = 0)
      ~> d \in outcomes

\* A market order that executed while its row was left unsettled is found by
\* the next start, provided its deal is still within 24 hours.
ExecutedOrderSettles ==
  \A d \in Decision :
    (pc = "down" /\ Unsettled(d) /\ intent[d].kind # "PROTECT" /\ fate[d] = "done")
      ~> (journal[d] = "confirmed" \/ d \in aged)

\* docs/SCALPER_PHASE3.md:31 "ForwardDemoQualifier evaluates each model
\* generation separately": recording outcomes is no reason to go down.
HarvestSurvives ==
  [][pc = "harvest" /\ pc' = "down" => crashes' = crashes + 1]_vars

-----------------------------------------------------------------------------
(* The strengthening that makes the safety properties inductive.           *)

Writing == {"created", "preflight", "sent", "verify", "latch"}
Executing == Writing \cup {"exec", "refresh"}

\* The queue lives from the plan to the last refresh of its tick, and a plan
\* is only made while nothing is halted.
QueueInv ==
  /\ pc \in Writing \cup {"refresh"} => queue # << >>
  /\ queue # << >> => pc \in Executing
  /\ pc \in Executing => ~halted

\* What the journal says of the decision being executed.
CurrentInv ==
  /\ pc = "created" => journal[Cur] = "created"
  /\ pc \in {"preflight", "sent", "verify"} => journal[Cur] = "submitted"
  /\ pc = "latch" => journal[Cur] = "unknown"
  /\ pc \in Writing => intent[Cur] = Current.intent
  /\ pc = "preflight" => fate[Cur] = "none"
  /\ pc = "verify" => fate[Cur] = "done"

\* One unsettled row at most, and the halt flag stands for it whenever the
\* process is past its reconciliation and not working on it.
HaltInv ==
  /\ \A d, e \in Decision : Unsettled(d) /\ Unsettled(e) => d = e
  /\ pc \notin {"down", "recon"} =>
       \A d \in Decision : Unsettled(d) => halted \/ (pc \in Writing /\ d = Cur)

\* The journal row against the order at the broker.
FateInv ==
  \A d \in Decision :
    /\ journal[d] \in {"absent", "created"} => fate[d] = "none"
    /\ journal[d] = "rejected" => fate[d] \in {"none", "refused"}
    /\ journal[d] = "confirmed" => fate[d] = "done"
    /\ sends[d] = IF fate[d] = "none" THEN 0 ELSE 1
    /\ vol[d] > 0 => fate[d] = "done"

\* A wanted stop is out of reach of every order but the one that wants it.
Ahead(i) == i.kind = "PROTECT" =>
              i.position_id \in Decision /\ stop[i.position_id] < i.stop
StopInv ==
  /\ \A d \in Decision : Unsettled(d) /\ fate[d] # "done" => Ahead(intent[d])
  /\ \A d \in Decision : intent[d].kind = "PROTECT" /\ fate[d] = "inflight" =>
       stop[intent[d].position_id] < req[d] /\ req[d] <= intent[d].stop
  /\ \A i \in 1..Len(queue) :
       i > 1 \/ pc \in {"exec", "created", "preflight"} => Ahead(queue[i].intent)
  /\ \A i, j \in 1..Len(queue) :
       i # j => queue[i].intent.position_id # queue[j].intent.position_id

\* What the harvest loop still visits, and what it recorded.
HarvestInv ==
  /\ pc = "harvest" => \A d \in todo : journal[d] = "confirmed" /\ intent[d].kind = "OPEN"
  /\ \A d \in outcomes : journal[d] = "confirmed" /\ risk[d] /\ vol[d] = 0

\* A tick on which something may be planned has begun, and cannot begin again.
Begun(t) == t < tick \/ (t = tick /\ seen)
OnTick(d, t) == d[1] = t /\ t \in 1..MaxTick

\* The rows of a tick are younger than its entry in the ticks table, and what
\* is planned for the tick being processed has none.
FreshInv ==
  /\ at \in 1..MaxTick => Begun(at)
  /\ \A d \in Decision : d[1] \in 1..MaxTick /\ journal[d] # "absent" => Begun(d[1])
  /\ pc = "decide" \/ (pc = "harvest" /\ after = "decide") =>
       \A d \in Decision : OnTick(d, at) => journal[d] = "absent"
  /\ \A i, j \in DOMAIN queue : queue[i].id = queue[j].id => i = j
  /\ \A i \in DOMAIN queue :
       /\ OnTick(queue[i].id, at)
       /\ i > 1 \/ pc = "exec" => journal[queue[i].id] = "absent"

\* The inductive invariant: the journal, the halt flag, the queue and the
\* broker never disagree about which order is outstanding.
JournalTellsTheTruth ==
  TypeOK /\ QueueInv /\ CurrentInv /\ HaltInv /\ FateInv /\ StopInv /\ HarvestInv /\ FreshInv
=============================================================================
