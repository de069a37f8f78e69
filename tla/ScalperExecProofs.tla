-------------------------- MODULE ScalperExecProofs --------------------------
(***************************************************************************)
(* Machine-checked facts about ScalperExec, for every number of ticks,     *)
(* intents, carried positions, stop levels and crashes.                    *)
(***************************************************************************)
EXTENDS ScalperExec, SequenceTheorems, TLAPS

\* What on_tick may plan is a sequence of intents, at most MaxIntents long.
LEMMA PlansType ==
  ASSUME TypeOK, NEW p \in Plans
  PROVE  /\ p \in Seq(Intent) /\ Len(p) <= MaxIntents
         /\ \A i, j \in 1..Len(p) : i # j => p[i].position_id # p[j].position_id
         /\ \A i \in 1..Len(p) : p[i].kind = "PROTECT" =>
              p[i].position_id \in Decision /\ stop[p[i].position_id] < p[i].stop
<1> DEFINE For(e) == {[kind |-> k, position_id |-> e, stop |-> 0] : k \in {"REDUCE", "CLOSE"}}
                     \cup {[kind |-> "PROTECT", position_id |-> e, stop |-> s] :
                             s \in {l \in Level : l > stop[e]}}
           Options == (UNION {For(e) : e \in snap}) \cup {NoIntent}
<1>1. PICK n \in 0..MaxIntents : p \in [1..n -> Options]
  BY DEF Plans
<1>2. /\ Options \subseteq Intent
      /\ \A o \in Options : o.kind = "PROTECT" =>
           o.position_id \in Decision /\ stop[o.position_id] < o.stop
  <2>1. SUFFICES ASSUME NEW o \in Options
                 PROVE  /\ o \in Intent
                        /\ o.kind = "PROTECT" =>
                             o.position_id \in Decision /\ stop[o.position_id] < o.stop
    OBVIOUS
  <2>2. CASE o = NoIntent
    BY <2>2, BoundsAssumption DEF NoIntent, Intent, Level
  <2>3. ASSUME NEW e \in snap, o \in For(e)
        PROVE  /\ o \in Intent
               /\ o.kind = "PROTECT" =>
                    o.position_id \in Decision /\ stop[o.position_id] < o.stop
    <3>1. e \in Decision /\ stop[e] \in Level
      BY <2>3 DEF TypeOK, MemoryOK, MarketOK
    <3>2. CASE \E k \in {"REDUCE", "CLOSE"} : o = [kind |-> k, position_id |-> e, stop |-> 0]
      BY <3>1, <3>2, BoundsAssumption DEF Intent, Level
    <3>3. CASE \E s \in {l \in Level : l > stop[e]} :
                 o = [kind |-> "PROTECT", position_id |-> e, stop |-> s]
      BY <3>1, <3>3, BoundsAssumption DEF Intent, Level
    <3>4. QED BY <2>3, <3>2, <3>3
  <2>4. QED BY <2>1, <2>2, <2>3
<1>3. n \in Nat /\ Len(p) = n /\ DOMAIN p = 1..n /\ p \in Seq(Intent)
  <2>1. n \in Nat
    BY BoundsAssumption
  <2>2. p \in [1..n -> Intent]
    BY <1>1, <1>2
  <2>3. QED BY <2>1, <2>2, LenProperties, SeqDef
<1>4. \A i, j \in DOMAIN p : i # j => p[i].position_id # p[j].position_id
  BY DEF Plans
<1>5. QED BY <1>1, <1>2, <1>3, <1>4

-----------------------------------------------------------------------------
(* Every action keeps the types.                                           *)

LEMMA InitType == Init => TypeOK
<1> SUFFICES ASSUME Init PROVE TypeOK
  OBVIOUS
<1>0. 0 \in Level /\ NoIntent \in Intent /\ 0 \in 0..Lot /\ Lot \in 0..Lot
  BY BoundsAssumption DEF Level, NoIntent, Intent
<1>1. StoreOK
  <2>1. risk \in [Decision -> BOOLEAN]
    <3>1. risk = [d \in Decision |-> d \in Carried]
      BY Zenon DEF Init
    <3>2. \A d \in Decision : (d \in Carried) \in BOOLEAN
      OBVIOUS
    <3>3. QED
      BY <3>1, <3>2, Zenon
  <2>2. journal \in [Decision -> {"absent", "created", "submitted", "confirmed", "rejected", "unknown"}]
    BY DEF Init
  <2>3. intent \in [Decision -> Intent]
    BY <1>0 DEF Init
  <2>4. QED
    BY <2>1, <2>2, <2>3 DEF Init, StoreOK
<1>2. MemoryOK
  BY <1>0, EmptySeq DEF Init, MemoryOK
<1>3. MarketOK
  BY <1>0 DEF Init, MarketOK
<1>4. QED
  BY <1>1, <1>2, <1>3 DEF Init, TypeOK

\* The head of a non-empty queue is the decision being executed.
LEMMA CurrentType ==
  ASSUME TypeOK, queue # << >>
  PROVE  /\ Len(queue) \in Nat \ {0} /\ Current = queue[1] /\ Current \in Planned
         /\ Cur \in Decision /\ Current.intent \in Intent
         /\ Tail(queue) \in Seq(Planned) /\ Len(Tail(queue)) = Len(queue) - 1
         /\ \A i \in 1..Len(Tail(queue)) : Tail(queue)[i] = queue[i + 1]
<1>1. queue \in Seq(Planned)
  BY DEF TypeOK, MemoryOK
<1>2. Len(queue) \in Nat \ {0} /\ Head(queue) = queue[1]
  BY <1>1, EmptySeq
<1>3. /\ Head(queue) \in Planned /\ Tail(queue) \in Seq(Planned)
      /\ Len(Tail(queue)) = Len(queue) - 1
      /\ \A i \in 1..Len(Tail(queue)) : Tail(queue)[i] = queue[i + 1]
  BY <1>1, HeadTailProperties
<1>4. Head(queue).id \in Decision /\ Head(queue).intent \in Intent
  BY <1>3 DEF Planned
<1>5. QED
  BY <1>2, <1>3, <1>4 DEF Current, Cur

LEMMA VolumeType ==
  ASSUME NEW i \in Intent, TypeOK, i.position_id \in OpenPositions
  PROVE  /\ vol[i.position_id] \in 0..Lot
         /\ Volume(i) \in 0..vol[i.position_id]
<1>1. vol[i.position_id] \in Nat /\ vol[i.position_id] \in 0..Lot
  BY BoundsAssumption DEF TypeOK, MarketOK, OpenPositions
<1>2. \A n \in Nat : n \div 2 \in 0..n
  BY SMT
<1>3. QED
  BY <1>1, <1>2 DEF Volume

LEMMA StoreStep == TypeOK /\ QueueInv /\ [Next]_vars => StoreOK'
<1> SUFFICES ASSUME TypeOK, QueueInv, [Next]_vars PROVE StoreOK'
  OBVIOUS
<1>q. queue # << >> => Cur \in Decision /\ Current.intent \in Intent
  BY CurrentType
<1> USE DEF TypeOK, StoreOK
<1>1. CASE UNCHANGED <<journal, intent, risk, halted, outcomes, seen>>
  BY <1>1
<1>2. ASSUME NEW d \in Decision, RejectUnsent(d) \/ ConfirmFound(d) PROVE StoreOK'
  BY <1>2 DEF RejectUnsent, ConfirmFound, Reconciling
<1>3. CASE FinishReconcile
  BY <1>3 DEF FinishReconcile, AnyUnsettled
<1>4. CASE PollNew \/ Quote
  BY <1>4 DEF PollNew, Quote
<1>5. ASSUME NEW d \in Decision, HarvestOne(d) PROVE StoreOK'
  BY <1>5 DEF HarvestOne
<1>6. CASE Create
  BY <1>6, <1>q DEF Create
<1>7. CASE Submit \/ Preflight \/ ReplyRejected \/ Uncertain
  BY <1>7, <1>q DEF Submit, Preflight, ReplyRejected, Uncertain, Settle, QueueInv, Writing
<1>8. CASE Confirm
  BY <1>8, <1>q DEF Confirm, Settle, QueueInv, Writing
<1>9. CASE Latch
  BY <1>9 DEF Latch, HaltLatch
<1>10. QED
  BY <1>1, <1>2, <1>3, <1>4, <1>5, <1>6, <1>7, <1>8, <1>9
     DEF Next, Process, Reconcile, Resolve, vars, store, Start, LeaveUnresolved, Reconciling,
         PollDuplicate, HarvestNothingNew, EvaluateForward, Decide, OrderSend, ReplyDone,
         Refresh, HarvestAgain, Crash, Fill, RefuseOrder, StopOut, Age

\* A plan becomes a queue of decisions of the tick being processed.
LEMMA QueueType ==
  ASSUME TypeOK, NEW p \in Plans, p # << >> => at \in 1..MaxTick,
         queue' = [i \in 1..Len(p) |-> [id |-> <<at, i>>, intent |-> p[i]]]
  PROVE  /\ queue' \in Seq(Planned) /\ Len(queue') = Len(p) /\ Len(p) \in Nat
         /\ \A i \in 1..Len(p) : queue'[i].intent = p[i]
<1>1. /\ Len(p) \in Nat /\ Len(p) <= MaxIntents
      /\ \A i \in 1..Len(p) : p[i] \in Intent
  BY PlansType, LenProperties, ElementOfSeq
<1>2. \A i \in 1..Len(p) : at \in 1..MaxTick
  <2>1. p = << >> => Len(p) = 0
    BY EmptySeq
  <2>2. QED BY <2>1, <1>1
<1>3. \A i \in 1..Len(p) : [id |-> <<at, i>>, intent |-> p[i]] \in Planned
  BY <1>1, <1>2, BoundsAssumption DEF Planned, Decision
<1>4. queue' \in [1..Len(p) -> Planned]
  BY <1>3
<1>5. queue' \in Seq(Planned)
  BY <1>1, <1>4, SeqDef
<1>6. DOMAIN queue' = 1..Len(p) /\ DOMAIN queue' = 1..Len(queue')
  BY <1>4, <1>5, LenProperties
<1>7. Len(queue') \in Nat
  BY <1>5, LenProperties
<1>8. Len(queue') = Len(p)
  BY <1>1, <1>6, <1>7
<1>9. QED
  BY <1>1, <1>5, <1>8

LEMMA MemoryStep == TypeOK /\ QueueInv /\ [Next]_vars => MemoryOK'
<1> SUFFICES ASSUME TypeOK, QueueInv, [Next]_vars PROVE MemoryOK'
  OBVIOUS
<1>e. << >> \in Seq(Planned) /\ 0 \in Nat /\ 0 \in 0..Lot /\ Lot \in 0..Lot
  BY EmptySeq, BoundsAssumption
<1>r. ASSUME NEW next \in {"down", "idle"}, Return(next), delivered' \in BOOLEAN PROVE MemoryOK'
  BY <1>e, <1>r DEF Return, MemoryOK
<1>d. Die => MemoryOK'
  BY <1>r DEF Die
<1> USE DEF TypeOK, MemoryOK
<1>1. CASE UNCHANGED memory
  BY <1>1 DEF memory
<1>2. CASE Crash \/ EvaluateForward
  BY <1>2, <1>d DEF Crash, EvaluateForward
<1>3. CASE Start \/ FinishReconcile \/ PollDuplicate
  BY <1>3 DEF Start, FinishReconcile, PollDuplicate
<1>4. ASSUME NEW d \in Decision, RejectUnsent(d) \/ ConfirmFound(d) \/ LeaveUnresolved(d)
      PROVE MemoryOK'
  BY <1>4 DEF RejectUnsent, ConfirmFound, LeaveUnresolved, Reconciling, Visit
<1>5. CASE PollNew \/ HarvestAgain
  BY <1>5 DEF PollNew, HarvestAgain, BeginHarvest, OpenPositions, Unharvested, MarketOK
<1>6. ASSUME NEW d \in Decision, HarvestOne(d) PROVE MemoryOK'
  <2>1. added' \in BOOLEAN
    BY <1>6, Zenon DEF HarvestOne, Recordable
  <2>2. QED BY <1>6, <2>1 DEF HarvestOne, Visit
<1>7. CASE HarvestNothingNew
  BY <1>7, <1>r DEF HarvestNothingNew
<1>8. CASE Decide
  <2>1. CASE Return("idle")
    BY <1>8, <2>1, <1>r DEF Decide
  <2>2. ASSUME NEW p \in Plans, p # << >> => at \in 1..MaxTick,
               queue' = [i \in 1..Len(p) |-> [id |-> <<at, i>>, intent |-> p[i]]],
               pc' = "exec", UNCHANGED <<at, snap, todo, added, after, expect>>
        PROVE MemoryOK'
    BY <1>8, <2>2, QueueType DEF Decide
  <2>3. QED BY <1>8, <2>1, <2>2 DEF Decide
<1>9. CASE Create \/ ReplyDone
  BY <1>9 DEF Create, ReplyDone
<1>10. CASE Submit
  BY <1>10, <1>d DEF Submit
<1>11. CASE Preflight \/ ReplyRejected \/ Uncertain \/ Confirm
  BY <1>11 DEF Preflight, ReplyRejected, Uncertain, Confirm, Settle, AfterUncertain
<1>12. CASE OrderSend
  <2>1. expect' \in 0..Lot
    <3>1. Current.intent \in Intent
      BY <1>12, CurrentType DEF OrderSend, QueueInv, Writing
    <3>2. CASE IsExit(Current.intent)
      BY <1>12, <1>e, <3>1, <3>2, VolumeType, BoundsAssumption DEF OrderSend, IsExit
    <3>3. QED BY <1>12, <1>e, <3>2 DEF OrderSend
  <2>2. QED BY <1>12, <2>1 DEF OrderSend
<1>13. CASE Latch
  BY <1>13, <1>d, <1>r DEF Latch
<1>14. CASE Refresh
  BY <1>14, CurrentType DEF Refresh, QueueInv, OpenPositions, MarketOK
<1>15. CASE Quote
  BY <1>15 DEF Quote
<1>16. QED
  BY <1>1, <1>2, <1>3, <1>4, <1>5, <1>6, <1>7, <1>8, <1>9, <1>10, <1>11, <1>12, <1>13,
     <1>14, <1>15
     DEF Next, Process, Reconcile, Resolve, vars, Fill, RefuseOrder, StopOut, Age

LEMMA MarketStep == TypeOK /\ QueueInv /\ [Next]_vars => MarketOK'
<1> SUFFICES ASSUME TypeOK, QueueInv, [Next]_vars PROVE MarketOK'
  OBVIOUS
<1>l. 0 \in 0..Lot /\ Lot \in Nat
  BY BoundsAssumption
<1> USE DEF TypeOK, MarketOK
<1>1. CASE UNCHANGED <<tick, fate, sends, req, vol, stop, aged>>
  BY <1>1
<1>2. CASE OrderSend
  <2>1. Cur \in Decision
    BY <1>2, CurrentType DEF OrderSend, QueueInv, Writing
  <2>2. req' \in [Decision -> Level] /\ sends' \in [Decision -> Nat]
    BY <1>2, <2>1 DEF OrderSend
  <2>3. QED BY <1>2, <2>1, <2>2 DEF OrderSend
<1>3. CASE Quote
  BY <1>3 DEF Quote
<1>4. ASSUME NEW d \in Decision, Fill(d) PROVE MarketOK'
  <2>1. intent[d] \in Intent
    BY DEF StoreOK
  <2>2. fate' \in [Decision -> {"none", "inflight", "done", "refused"}]
    BY <1>4 DEF Fill
  <2>3. CASE intent[d].kind = "OPEN" /\ UNCHANGED stop
             /\ \E v \in 1..Lot : vol' = [vol EXCEPT ![d] = v]
    <3>1. PICK v \in 1..Lot : vol' = [vol EXCEPT ![d] = v]
      BY <2>3
    <3>2. v \in 0..Lot
      BY <1>l
    <3>3. QED BY <1>4, <2>2, <2>3, <3>1, <3>2 DEF Fill
  <2>4. CASE IsExit(intent[d]) /\ UNCHANGED stop /\ intent[d].position_id \in OpenPositions
             /\ \E v \in 1..Volume(intent[d]) :
                  vol' = [vol EXCEPT ![intent[d].position_id] = @ - v]
    <3>1. /\ vol[intent[d].position_id] \in 0..Lot
          /\ Volume(intent[d]) \in 0..vol[intent[d].position_id]
      BY <2>1, <2>4, VolumeType
    <3>2. PICK v \in 1..Volume(intent[d]) : vol' = [vol EXCEPT ![intent[d].position_id] = @ - v]
      BY <2>4
    <3>3. vol[intent[d].position_id] - v \in 0..Lot
      BY <1>l, <3>1
    <3>4. vol' \in [Decision -> 0..Lot]
      BY <3>2, <3>3
    <3>5. QED BY <1>4, <2>2, <2>4, <3>4 DEF Fill
  <2>5. CASE UNCHANGED vol /\ intent[d].position_id \in OpenPositions
             /\ stop' = [stop EXCEPT ![intent[d].position_id] = req[d]]
    BY <1>4, <2>2, <2>5 DEF Fill
  <2>6. QED
    <3> HIDE DEF TypeOK, MarketOK
    <3>1. QED BY <1>4, <2>3, <2>4, <2>5 DEF Fill
<1>5. ASSUME NEW d \in Decision, RefuseOrder(d) PROVE MarketOK'
  BY <1>5 DEF RefuseOrder
<1>6. ASSUME NEW d \in Decision, StopOut(d) \/ Age(d) PROVE MarketOK'
  BY <1>6, <1>l DEF StopOut, Age
<1>7. QED
  BY <1>1, <1>2, <1>3, <1>4, <1>5, <1>6
     DEF Next, Process, Reconcile, Resolve, vars, market, Start, RejectUnsent, ConfirmFound,
         LeaveUnresolved, Reconciling, FinishReconcile, PollDuplicate, PollNew, HarvestOne,
         HarvestNothingNew, EvaluateForward, Decide, Create, Submit, Preflight, ReplyDone,
         ReplyRejected, Uncertain, Confirm, Latch, Refresh, HarvestAgain, Crash

LEMMA StepType == TypeOK /\ QueueInv /\ [Next]_vars => TypeOK'
<1> SUFFICES ASSUME TypeOK, QueueInv, [Next]_vars PROVE TypeOK'
  OBVIOUS
<1>1. StoreOK' /\ MemoryOK' /\ MarketOK'
  BY StoreStep, MemoryStep, MarketStep
<1>2. crashes' \in Nat
  <2>1. CASE Crash
    BY <2>1 DEF Crash, TypeOK
  <2>2. CASE UNCHANGED crashes
    BY <2>2 DEF TypeOK
  <2>3. QED
    BY <2>1, <2>2
     DEF Next, Process, Reconcile, Resolve, vars, Start, RejectUnsent, ConfirmFound,
         LeaveUnresolved, Reconciling, FinishReconcile, PollDuplicate, PollNew, HarvestOne,
         HarvestNothingNew, EvaluateForward, Decide, Create, Submit, Preflight, OrderSend,
         ReplyDone, ReplyRejected, Uncertain, Confirm, Latch, Refresh, HarvestAgain, Quote,
         Fill, RefuseOrder, StopOut, Age
<1>3. QED
  BY <1>1, <1>2 DEF TypeOK

-----------------------------------------------------------------------------
(* Every action keeps the strengthening.                                   *)

LEMMA QueueStep == TypeOK /\ QueueInv /\ [Next]_vars => QueueInv'
<1> SUFFICES ASSUME TypeOK, QueueInv, [Next]_vars PROVE QueueInv'
  OBVIOUS
<1> USE DEF QueueInv, Writing, Executing
<1>1. CASE UNCHANGED <<pc, queue, halted>>
  BY <1>1
<1>r. ASSUME NEW next \in {"down", "idle"}, Return(next) PROVE QueueInv'
  BY <1>r DEF Return
<1>2. CASE Crash \/ EvaluateForward \/ Latch
  BY <1>2, <1>r DEF Crash, EvaluateForward, Latch, Die
<1>3. CASE Start \/ FinishReconcile \/ PollNew \/ HarvestAgain
  BY <1>3 DEF Start, FinishReconcile, PollNew, HarvestAgain, BeginHarvest
<1>4. CASE HarvestNothingNew
  BY <1>4, <1>r DEF HarvestNothingNew, store
<1>5. CASE Decide
  BY <1>5, <1>r DEF Decide, store
<1>6. CASE UNCHANGED <<queue, halted>> /\ pc \in Executing /\ queue # << >> /\ pc' \in Executing
  BY <1>6
<1>7. CASE Submit
  BY <1>7, <1>r DEF Submit, Die
<1>8. CASE Refresh
  BY <1>8 DEF Refresh, store
<1>9. QED
  BY <1>1, <1>2, <1>3, <1>4, <1>5, <1>6, <1>7, <1>8
     DEF Next, Process, Reconcile, Resolve, vars, memory, store, RejectUnsent, ConfirmFound,
         LeaveUnresolved, Reconciling, PollDuplicate, HarvestOne, Create, Preflight, OrderSend,
         ReplyDone, ReplyRejected, Uncertain, Confirm, Settle, AfterUncertain, Quote, Fill,
         RefuseOrder, StopOut, Age

\* The journal row of the decision being executed follows the control point.
LEMMA CurrentStep == TypeOK /\ QueueInv /\ CurrentInv /\ FateInv /\ [Next]_vars => CurrentInv'
<1> SUFFICES ASSUME TypeOK, QueueInv, CurrentInv, FateInv, [Next]_vars PROVE CurrentInv'
  OBVIOUS
<1>q. pc \in Writing => Cur \in Decision
  BY CurrentType DEF QueueInv
<1>c. UNCHANGED queue => UNCHANGED <<Cur, Current>>
  BY DEF Cur, Current
<1> USE DEF CurrentInv, Writing
<1>1. CASE UNCHANGED <<pc, queue, journal, intent, fate>>
  BY <1>1, <1>c
<1>2. CASE pc' \notin Writing
  BY <1>2
<1>3. CASE Create
  <2>1. Cur \in Decision
    BY <1>3, CurrentType DEF Create
  <2>2. QED BY <1>3, <1>c, <2>1 DEF Create, TypeOK, StoreOK
<1>4. CASE Submit
  BY <1>4, <1>c, <1>q DEF Submit, market, Die, Return, TypeOK, StoreOK, FateInv
<1>5. CASE OrderSend
  BY <1>5, <1>c, <1>q DEF OrderSend, store
<1>6. CASE ReplyDone
  BY <1>6, <1>c DEF ReplyDone, store, market
<1>7. CASE Uncertain
  BY <1>7, <1>c, <1>q DEF Uncertain, Settle, AfterUncertain, market, TypeOK, StoreOK
<1>8. ASSUME NEW d \in Decision, RejectUnsent(d) \/ ConfirmFound(d) PROVE CurrentInv'
  BY <1>8 DEF RejectUnsent, ConfirmFound, Reconciling
<1>9. ASSUME NEW d \in Decision, Fill(d) \/ RefuseOrder(d) PROVE CurrentInv'
  BY <1>9, <1>c, <1>q DEF Fill, RefuseOrder, store, memory, TypeOK, MarketOK
<1>10. QED
  BY <1>1, <1>2, <1>3, <1>4, <1>5, <1>6, <1>7, <1>8, <1>9
     DEF Next, Process, Reconcile, Resolve, vars, memory, store, market, Start, LeaveUnresolved,
         Reconciling, FinishReconcile, PollDuplicate, PollNew, BeginHarvest, HarvestOne,
         HarvestNothingNew, EvaluateForward, Decide, Preflight, ReplyRejected, Confirm, Settle,
         Latch, Refresh, HarvestAgain, Crash, Die, Return, Quote, StopOut, Age

\* At most one row is unsettled, and it is halted on or being worked on.
LEMMA HaltStep == TypeOK /\ QueueInv /\ CurrentInv /\ HaltInv /\ [Next]_vars => HaltInv'
<1> SUFFICES ASSUME TypeOK, QueueInv, CurrentInv, HaltInv, [Next]_vars PROVE HaltInv'
  OBVIOUS
<1>q. queue # << >> => Cur \in Decision
  BY CurrentType
<1>c. UNCHANGED queue => Cur' = Cur
  BY DEF Cur, Current
<1> USE DEF HaltInv, Writing, Unsettled
<1>n. pc \in {"exec", "refresh", "decide", "harvest", "idle"} => \A d \in Decision : Unsettled(d) => halted
  OBVIOUS
<1>1. CASE UNCHANGED <<journal, pc, queue, halted>>
  BY <1>1, <1>c
<1>2. CASE UNCHANGED journal /\ pc' \in {"down", "recon"}
  BY <1>2
<1>3. ASSUME NEW d \in Decision, RejectUnsent(d) \/ ConfirmFound(d) PROVE HaltInv'
  BY <1>3 DEF RejectUnsent, ConfirmFound, Reconciling, TypeOK, StoreOK
<1>4. CASE FinishReconcile
  BY <1>4 DEF FinishReconcile, AnyUnsettled
<1>5. CASE UNCHANGED <<journal, halted>> /\ pc \in {"exec", "refresh", "decide", "harvest", "idle"}
  BY <1>5, <1>n
<1>6. CASE Create
  <2>1. Cur \in Decision /\ ~halted
    BY <1>6, <1>q DEF Create, QueueInv, Executing
  <2>2. \A d \in Decision : ~Unsettled(d)
    BY <1>6, <2>1, <1>n DEF Create
  <2>3. \A d \in Decision : Unsettled(d)' => d = Cur
    BY <1>6, <2>1, <2>2 DEF Create, TypeOK, StoreOK
  <2>4. QED BY <1>6, <1>c, <2>3 DEF Create
<1>7. CASE pc \in Writing /\ UNCHANGED <<queue, halted>>
           /\ \/ UNCHANGED journal /\ pc' \in Writing
              \/ \E s \in {"submitted", "unknown"} :
                   journal' = [journal EXCEPT ![Cur] = s] /\ pc' \in Writing
              \/ \E s \in {"rejected", "confirmed"} : journal' = [journal EXCEPT ![Cur] = s]
  <2>1. Cur \in Decision /\ ~halted /\ Unsettled(Cur)
    BY <1>7, <1>q DEF QueueInv, Executing, CurrentInv
  <2>2. \A d \in Decision : Unsettled(d) => d = Cur
    BY <1>7, <2>1
  <2>3. \A d \in Decision : Unsettled(d)' => d = Cur
    BY <1>7, <2>1, <2>2 DEF TypeOK, StoreOK
  <2>4. CASE pc' \in Writing
    BY <1>7, <1>c, <2>3, <2>4
  <2>5. CASE \E s \in {"rejected", "confirmed"} : journal' = [journal EXCEPT ![Cur] = s]
    <3>1. \A d \in Decision : d = Cur => ~Unsettled(d)'
      BY <2>1, <2>5 DEF TypeOK, StoreOK
    <3>2. QED BY <2>3, <3>1
  <2>6. QED BY <1>7, <2>4, <2>5
<1>8. CASE Submit /\ Die
  BY <1>8, <1>q DEF Submit, Die, Return, QueueInv, CurrentInv, TypeOK, StoreOK
<1>9. CASE Latch
  BY <1>9 DEF Latch, HaltLatch, Die, Return
<1>10. QED
  BY <1>1, <1>2, <1>3, <1>4, <1>5, <1>6, <1>7, <1>8, <1>9
     DEF Next, Process, Reconcile, Resolve, vars, memory, store, market, Start, LeaveUnresolved,
         Reconciling, PollDuplicate, PollNew, BeginHarvest, HarvestOne,
         HarvestNothingNew, EvaluateForward, Decide, Submit, Preflight, OrderSend, ReplyDone,
         ReplyRejected, Uncertain, AfterUncertain, Confirm, Settle,
         Refresh, HarvestAgain, Crash, Die, Return, Quote, Fill, RefuseOrder, StopOut, Age

\* What the journal says of an order against what became of it.  An order
\* answered without a ticket must have been refused.
LEMMA FateStep ==
  ASSUME ~AmbiguousZeroTicket, TypeOK, QueueInv, CurrentInv, FateInv, StopInv, [Next]_vars
  PROVE  FateInv'
<1>q. pc \in Writing => Cur \in Decision
  BY CurrentType DEF QueueInv
<1> USE DEF FateInv, Writing
<1>1. CASE UNCHANGED <<journal, fate, sends, vol>>
  BY <1>1
<1>2. ASSUME NEW d \in Decision, RejectUnsent(d) PROVE FateInv'
  BY <1>2 DEF RejectUnsent, Reconciling, market, NeverSent, TypeOK, StoreOK
<1>3. ASSUME NEW d \in Decision, ConfirmFound(d) PROVE FateInv'
  <2>1. fate[d] = "done"
    <3>1. CASE intent[d].kind = "PROTECT"
      <4>1. /\ Unsettled(d) /\ intent[d].position_id \in Decision
            /\ stop[intent[d].position_id] = intent[d].stop
        BY <1>3, <3>1 DEF ConfirmFound, Evident, ProtectionMatches, OpenPositions, Unsettled
      <4>2. stop[intent[d].position_id] \in Nat
        BY <4>1, BoundsAssumption DEF TypeOK, MarketOK, Level
      <4>3. fate[d] # "done" => Ahead(intent[d])
        BY <4>1 DEF StopInv
      <4>4. QED BY <3>1, <4>1, <4>2, <4>3 DEF Ahead
    <3>2. CASE intent[d].kind # "PROTECT"
      BY <1>3, <3>2 DEF ConfirmFound, Evident, DealFound
    <3>3. QED BY <3>1, <3>2
  <2>2. QED BY <1>3, <2>1 DEF ConfirmFound, Reconciling, market, TypeOK, StoreOK
<1>4. CASE Create
  <2>1. Cur \in Decision
    BY <1>4, CurrentType DEF Create
  <2>2. QED BY <1>4, <2>1 DEF Create, market, TypeOK, StoreOK
<1>5. CASE Submit \/ Uncertain
  BY <1>5, <1>q DEF Submit, Uncertain, Settle, CurrentInv, market, TypeOK, StoreOK
<1>6. CASE Preflight
  BY <1>6, <1>q DEF Preflight, Settle, CurrentInv, market, TypeOK, StoreOK
<1>7. CASE OrderSend
  BY <1>7, <1>q DEF OrderSend, CurrentInv, store, TypeOK, MarketOK
<1>8. CASE ReplyRejected
  BY <1>8, <1>q DEF ReplyRejected, TicketlessReply, Settle, CurrentInv, market, TypeOK, StoreOK
<1>9. CASE Confirm
  BY <1>9, <1>q DEF Confirm, Settle, CurrentInv, market, TypeOK, StoreOK
<1>10. ASSUME NEW d \in Decision, Fill(d) PROVE FateInv'
  <2>1. UNCHANGED <<journal, sends>> /\ fate[d] = "inflight" /\ fate' = [fate EXCEPT ![d] = "done"]
    BY <1>10 DEF Fill, store
  <2>2. journal[d] \in {"submitted", "unknown"}
    BY <2>1 DEF TypeOK, StoreOK
  <2>3. \A e \in Decision : vol'[e] > 0 => vol[e] > 0 \/ e = d
    <3>1. \A e \in Decision : vol'[e] = vol[e] \/ e = d \/ vol[e] > 0
      BY <1>10 DEF Fill, OpenPositions, TypeOK, MarketOK
    <3>2. QED BY <3>1
  <2>4. QED BY <2>1, <2>2, <2>3 DEF TypeOK, MarketOK
<1>11. ASSUME NEW d \in Decision, RefuseOrder(d) PROVE FateInv'
  BY <1>11 DEF RefuseOrder, store, TypeOK, StoreOK, MarketOK
<1>12. ASSUME NEW d \in Decision, StopOut(d) PROVE FateInv'
  BY <1>12 DEF StopOut, store, TypeOK, MarketOK
<1>13. QED
  BY <1>1, <1>2, <1>3, <1>4, <1>5, <1>6, <1>7, <1>8, <1>9, <1>10, <1>11, <1>12
     DEF Next, Process, Reconcile, Resolve, vars, memory, store, market, Start, LeaveUnresolved,
         Reconciling, FinishReconcile, PollDuplicate, PollNew, BeginHarvest, HarvestOne,
         HarvestNothingNew, EvaluateForward, Decide, ReplyDone, Latch,
         Refresh, HarvestAgain, Crash, Die, Return, Quote, Age

\* The harvest loop visits confirmed entries and records only flat ones.
LEMMA HarvestStep ==
  TypeOK /\ QueueInv /\ CurrentInv /\ FateInv /\ HarvestInv /\ [Next]_vars => HarvestInv'
<1> SUFFICES ASSUME TypeOK, QueueInv, CurrentInv, FateInv, HarvestInv, [Next]_vars
             PROVE HarvestInv'
  OBVIOUS
<1>q. pc \in Writing => Cur \in Decision
  BY CurrentType DEF QueueInv
<1> USE DEF HarvestInv
<1>1. CASE UNCHANGED <<journal, intent, risk, outcomes, vol>> /\ (UNCHANGED <<pc, todo>> \/ pc' # "harvest")
  BY <1>1
<1>2. CASE PollNew \/ HarvestAgain
  BY <1>2 DEF PollNew, HarvestAgain, BeginHarvest, Unharvested, store, market
<1>3. ASSUME NEW d \in Decision, HarvestOne(d) PROVE HarvestInv'
  BY <1>3 DEF HarvestOne, Visit, Recordable, ClosedOutcome, market
<1>4. ASSUME NEW d \in Decision, RejectUnsent(d) \/ ConfirmFound(d) PROVE HarvestInv'
  BY <1>4 DEF RejectUnsent, ConfirmFound, Reconciling, NeverSent, market, TypeOK, StoreOK
<1>5. CASE Create
  <2>1. Cur \in Decision
    BY <1>5, CurrentType DEF Create
  <2>2. QED BY <1>5, <2>1 DEF Create, market, TypeOK, StoreOK
<1>6. CASE pc \in Writing /\ pc' # "harvest" /\ UNCHANGED <<intent, outcomes, vol>>
           /\ (\E s : journal' = [journal EXCEPT ![Cur] = s])
           /\ (UNCHANGED risk \/ \E b : risk' = [risk EXCEPT ![Cur] = b])
  <2>1. Cur \in Decision /\ Cur \notin outcomes
    BY <1>6, <1>q DEF CurrentInv, Writing
  <2>2. \A d \in outcomes : journal'[d] = journal[d] /\ risk'[d] = risk[d]
    BY <1>6, <2>1 DEF TypeOK, StoreOK
  <2>3. QED BY <1>6, <2>2
<1>7. ASSUME NEW d \in Decision, Fill(d) PROVE HarvestInv'
  <2>1. UNCHANGED <<journal, intent, risk, outcomes, pc, todo>> /\ d \notin outcomes
    BY <1>7 DEF Fill, store, memory, FateInv
  <2>2. \A e \in Decision : e # d /\ vol[e] = 0 => vol'[e] = 0
    BY <1>7 DEF Fill, OpenPositions, TypeOK, MarketOK
  <2>3. QED BY <2>1, <2>2 DEF TypeOK, StoreOK
<1>8. ASSUME NEW d \in Decision, StopOut(d) PROVE HarvestInv'
  BY <1>8 DEF StopOut, store, memory, TypeOK, StoreOK, MarketOK
<1>9. QED
  BY <1>1, <1>2, <1>3, <1>4, <1>5, <1>6, <1>7, <1>8
     DEF Next, Process, Reconcile, Resolve, vars, memory, store, market, Start, LeaveUnresolved,
         Reconciling, FinishReconcile, PollDuplicate, HarvestNothingNew, EvaluateForward,
         Decide, Submit, Preflight, OrderSend, ReplyDone, ReplyRejected, Uncertain,
         AfterUncertain, Confirm, Settle, Latch, Refresh, Crash, Die, Return, Quote,
         RefuseOrder, Age, Writing

\* An order may still execute only while its row is unsettled.
LEMMA InflightUnsettled ==
  ASSUME TypeOK, HaltInv, FateInv, NEW d \in Decision, fate[d] = "inflight"
  PROVE  /\ Unsettled(d)
         /\ \A e \in Decision : Unsettled(e) => e = d
BY DEF TypeOK, StoreOK, FateInv, HaltInv, Unsettled

\* Of the stop levels still wanted, none has been reached by another order.
LEMMA StopStep ==
  TypeOK /\ QueueInv /\ CurrentInv /\ HaltInv /\ FateInv /\ StopInv /\ [Next]_vars => StopInv'
<1> SUFFICES ASSUME TypeOK, QueueInv, CurrentInv, HaltInv, FateInv, StopInv, [Next]_vars
             PROVE StopInv'
  OBVIOUS
<1>q. pc \in Writing => Cur \in Decision /\ Len(queue) \in Nat \ {0} /\ Current = queue[1]
  BY CurrentType DEF QueueInv
<1>w. UNCHANGED stop => \A d \in Decision : Ahead(intent[d])' <=> Ahead(intent'[d])
  BY DEF Ahead
<1> USE DEF StopInv
<1>1. CASE UNCHANGED <<pc, queue, intent, journal, fate, stop, req>>
  BY <1>1 DEF Unsettled, Ahead
<1>2. CASE UNCHANGED <<intent, fate, stop, req>>
           /\ (\A d \in Decision : Unsettled(d)' => Unsettled(d))
           /\ \/ queue' = << >>
              \/ UNCHANGED queue /\ (UNCHANGED pc \/ pc' \notin {"exec", "created", "preflight"})
              \/ UNCHANGED queue /\ pc = "created" /\ pc' = "preflight"
  BY <1>2, EmptySeq DEF Ahead
<1>3. CASE Decide /\ ~Return("idle")
  <2>1. PICK p \in Plans :
          /\ p # << >> => at \in 1..MaxTick
          /\ queue' = [i \in 1..Len(p) |-> [id |-> <<at, i>>, intent |-> p[i]]]
    BY <1>3 DEF Decide
  <2>2. UNCHANGED <<intent, journal, fate, stop, req>>
    BY <1>3 DEF Decide, store, market
  <2>3. Len(queue') = Len(p) /\ \A i \in 1..Len(p) : queue'[i].intent = p[i]
    BY <2>1, QueueType
  <2>4. /\ \A i, j \in 1..Len(p) : i # j => p[i].position_id # p[j].position_id
        /\ \A i \in 1..Len(p) : Ahead(p[i])
    BY <2>1, PlansType DEF Ahead
  <2>5. \A i \in 1..Len(queue') : Ahead(queue[i].intent)'
    <3>1. SUFFICES ASSUME NEW i \in 1..Len(queue') PROVE Ahead(queue[i].intent)'
      OBVIOUS
    <3>2. queue'[i].intent = p[i] /\ Ahead(p[i])
      BY <2>3, <2>4
    <3>3. QED BY <2>2, <3>2 DEF Ahead
  <2>6. \A i, j \in 1..Len(queue') :
          i # j => queue'[i].intent.position_id # queue'[j].intent.position_id
    BY <2>3, <2>4
  <2>7. /\ \A d \in Decision : Unsettled(d)' /\ fate'[d] # "done" => Ahead(intent[d])'
        /\ \A d \in Decision : intent'[d].kind = "PROTECT" /\ fate'[d] = "inflight" =>
             stop'[intent'[d].position_id] < req'[d] /\ req'[d] <= intent'[d].stop
    BY <2>2 DEF Unsettled, Ahead
  <2>8. QED BY <2>5, <2>6, <2>7
<1>4. CASE Create
  <2>1. Cur \in Decision /\ Len(queue) \in Nat \ {0} /\ Current = queue[1] /\ pc = "exec"
    BY <1>4, CurrentType DEF Create
  <2>2. Ahead(Current.intent) /\ fate[Cur] = "none"
    BY <1>4, <2>1 DEF Create, FateInv
  <2>3. UNCHANGED <<queue, fate, stop, req>> /\ pc' = "created"
    BY <1>4 DEF Create, market
  <2>4. \A d \in Decision : d # Cur => intent'[d] = intent[d] /\ (Unsettled(d)' => Unsettled(d))
    BY <1>4, <2>1 DEF Create, Unsettled, TypeOK, StoreOK
  <2>5. intent'[Cur] = Current.intent
    BY <1>4, <2>1 DEF Create, TypeOK, StoreOK
  <2>6. \A d \in Decision : Unsettled(d)' /\ fate'[d] # "done" => Ahead(intent[d])'
    BY <2>2, <2>3, <2>4, <2>5 DEF Ahead
  <2>7. \A d \in Decision : intent'[d].kind = "PROTECT" /\ fate'[d] = "inflight" =>
          stop'[intent'[d].position_id] < req'[d] /\ req'[d] <= intent'[d].stop
    BY <2>2, <2>3, <2>4
  <2>8. QED BY <2>1, <2>3, <2>6, <2>7 DEF Ahead
<1>5. CASE OrderSend
  <2>1. /\ Cur \in Decision /\ fate[Cur] = "none" /\ intent[Cur] = Current.intent
        /\ pc = "preflight" /\ pc' = "sent"
        /\ fate' = [fate EXCEPT ![Cur] = "inflight"] /\ UNCHANGED <<journal, intent, stop, queue>>
    BY <1>5, <1>q DEF OrderSend, CurrentInv, Writing, store
  <2>2. \A d \in Decision : d # Cur => fate'[d] = fate[d] /\ req'[d] = req[d]
    BY <1>5, <2>1 DEF OrderSend, TypeOK, MarketOK
  <2>3. intent[Cur].kind = "PROTECT" =>
          stop[intent[Cur].position_id] < req'[Cur] /\ req'[Cur] <= intent[Cur].stop
    <3>1. CASE Current.intent.kind = "PROTECT"
      <4>1. PICK s \in Level : /\ s > stop[Current.intent.position_id] /\ s <= Current.intent.stop
                               /\ req' = [req EXCEPT ![Cur] = s]
        BY <1>5, <3>1 DEF OrderSend, IsExit
      <4>2. req'[Cur] = s
        BY <2>1, <4>1 DEF TypeOK, MarketOK
      <4>3. Current.intent.position_id \in OpenPositions
        BY <1>5, <3>1 DEF OrderSend
      <4>4. stop[Current.intent.position_id] \in Nat /\ s \in Nat
        BY <4>1, <4>3, BoundsAssumption DEF OpenPositions, TypeOK, MarketOK, Level
      <4>5. QED BY <2>1, <4>1, <4>2, <4>4
    <3>2. QED BY <2>1, <3>1
  <2>4. \A d \in Decision : Unsettled(d)' /\ fate'[d] # "done" => Ahead(intent[d])'
    BY <2>1, <2>2 DEF Unsettled, Ahead
  <2>5. \A d \in Decision : intent'[d].kind = "PROTECT" /\ fate'[d] = "inflight" =>
          stop'[intent'[d].position_id] < req'[d] /\ req'[d] <= intent'[d].stop
    BY <2>1, <2>2, <2>3
  <2>6. QED BY <2>1, <2>4, <2>5 DEF Ahead
<1>6. CASE Refresh
  <2>1. UNCHANGED <<journal, intent, fate, stop, req>> /\ queue' = Tail(queue) /\ queue # << >>
    BY <1>6 DEF Refresh, store, market, QueueInv
  <2>2. /\ Len(queue) \in Nat \ {0} /\ Len(queue') = Len(queue) - 1
        /\ \A i \in 1..Len(queue') : queue'[i] = queue[i + 1]
    BY <2>1, CurrentType
  <2>3. \A i \in 1..Len(queue') : i + 1 \in 1..Len(queue) /\ i + 1 > 1
    BY <2>2
  <2>4. \A i \in 1..Len(queue') : Ahead(queue'[i].intent)
    BY <2>2, <2>3
  <2>5. \A i, j \in 1..Len(queue') : i # j => i + 1 # j + 1
    BY <2>2
  <2>6. \A i, j \in 1..Len(queue') :
          i # j => queue'[i].intent.position_id # queue'[j].intent.position_id
    BY <2>2, <2>3, <2>5
  <2>7. QED BY <2>1, <2>4, <2>6 DEF Unsettled, Ahead
<1>7. ASSUME NEW d \in Decision, Fill(d) PROVE StopInv'
  <2>1. /\ fate[d] = "inflight" /\ fate' = [fate EXCEPT ![d] = "done"]
        /\ UNCHANGED <<pc, queue, halted, journal, intent, req>>
    BY <1>7 DEF Fill, store, memory
  <2>2. Unsettled(d) /\ \A e \in Decision : Unsettled(e) => e = d
    BY <2>1, InflightUnsettled
  <2>3. fate'[d] = "done" /\ \A e \in Decision : e # d => fate'[e] = fate[e]
    BY <2>1 DEF TypeOK, MarketOK
  <2>4. \A e \in Decision : e # d => fate'[e] # "inflight"
    BY <2>2, <2>3, InflightUnsettled
  <2>5. /\ \A e \in Decision : Unsettled(e)' /\ fate'[e] # "done" => Ahead(intent[e])'
        /\ \A e \in Decision : intent'[e].kind = "PROTECT" /\ fate'[e] = "inflight" =>
             stop'[intent'[e].position_id] < req'[e] /\ req'[e] <= intent'[e].stop
    BY <2>1, <2>2, <2>3, <2>4 DEF Unsettled
  <2>6. CASE UNCHANGED stop
    BY <2>1, <2>5, <2>6 DEF Ahead
  <2>7. CASE queue = << >>
    BY <2>1, <2>5, <2>7, EmptySeq
  <2>8. CASE queue # << >> /\ stop' # stop
    <3>1. d = Cur /\ pc \in Writing
      BY <2>2, <2>8 DEF HaltInv, QueueInv, Writing, Executing
    <3>2. pc \notin {"exec", "created", "preflight"}
      BY <2>1, <3>1 DEF CurrentInv, FateInv, Writing
    <3>3. stop' = [stop EXCEPT ![queue[1].intent.position_id] = req[d]]
      BY <1>7, <1>q, <2>8, <3>1 DEF Fill, CurrentInv
    <3>4. \A i \in 1..Len(queue) :
            i > 1 => queue[i].intent.position_id # queue[1].intent.position_id
      BY <1>q, <3>1
    <3>5. \A i \in 1..Len(queue) : i > 1 => Ahead(queue[i].intent)'
      <4>1. SUFFICES ASSUME NEW i \in 1..Len(queue), i > 1 PROVE Ahead(queue[i].intent)'
        OBVIOUS
      <4>2. Ahead(queue[i].intent)
        BY <4>1
      <4>3. QED
        BY <2>1, <3>3, <3>4, <4>1, <4>2 DEF Ahead, TypeOK, MarketOK
    <3>6. QED BY <2>1, <2>5, <3>2, <3>5
  <2>9. QED BY <2>6, <2>7, <2>8
<1>8. ASSUME NEW d \in Decision, RefuseOrder(d) PROVE StopInv'
  BY <1>8 DEF RefuseOrder, store, memory, Unsettled, Ahead, TypeOK, MarketOK
<1>9. ASSUME NEW d \in Decision, RejectUnsent(d) \/ ConfirmFound(d) PROVE StopInv'
  BY <1>2, <1>9 DEF RejectUnsent, ConfirmFound, Reconciling, NeverSent, market, Unsettled, TypeOK, StoreOK
<1>10. CASE Submit \/ Preflight \/ ReplyRejected \/ Uncertain \/ Confirm
  <2>1. Cur \in Decision /\ Unsettled(Cur) /\ pc \in Writing
    BY <1>10, <1>q
       DEF Submit, Preflight, ReplyRejected, Uncertain, Confirm, CurrentInv, Unsettled, Writing
  <2>2. \A d \in Decision : Unsettled(d)' => Unsettled(d)
    <3>1. \E v : journal' = [journal EXCEPT ![Cur] = v]
      BY <1>10 DEF Submit, Preflight, ReplyRejected, Uncertain, Confirm, Settle
    <3>2. QED BY <2>1, <3>1 DEF Unsettled, TypeOK, StoreOK
  <2>3. QED
    BY <1>2, <1>10, <2>2 DEF Submit, Preflight, ReplyRejected, Uncertain, Confirm, Settle,
       AfterUncertain, Die, Return, market
<1>11. CASE \/ Start \/ FinishReconcile \/ PollDuplicate \/ PollNew \/ HarvestNothingNew
            \/ EvaluateForward \/ ReplyDone \/ Latch \/ HarvestAgain \/ Crash \/ Quote
            \/ (Decide /\ Return("idle"))
            \/ \E d \in Decision : LeaveUnresolved(d) \/ HarvestOne(d) \/ StopOut(d) \/ Age(d)
  <2>1. UNCHANGED <<intent, journal, fate, stop, req>>
    BY <1>11 DEF Start, FinishReconcile, PollDuplicate, PollNew, HarvestNothingNew,
       EvaluateForward, ReplyDone, Latch, HarvestAgain, Crash, Quote, Decide, LeaveUnresolved,
       Reconciling, HarvestOne, StopOut, Age, store, market
  <2>2. \/ queue' = << >>
        \/ UNCHANGED queue /\ (UNCHANGED pc \/ pc' \notin {"exec", "created", "preflight"})
    BY <1>11 DEF Start, FinishReconcile, PollDuplicate, PollNew, BeginHarvest,
       HarvestNothingNew, EvaluateForward, ReplyDone, Latch, HarvestAgain, Crash, Quote, Decide,
       LeaveUnresolved, Reconciling, HarvestOne, StopOut, Age, Die, Return, memory
  <2>3. QED BY <1>2, <2>1, <2>2 DEF Unsettled
<1>12. QED
  BY <1>1, <1>3, <1>4, <1>5, <1>6, <1>7, <1>8, <1>9, <1>10, <1>11
     DEF Next, Process, Reconcile, Resolve, vars, memory, store, market

\* A tick begins once: what it planned has rows only of its own queue.
LEMMA FreshStep == TypeOK /\ QueueInv /\ FreshInv /\ [Next]_vars => FreshInv'
<1> SUFFICES ASSUME TypeOK, QueueInv, FreshInv, [Next]_vars PROVE FreshInv'
  OBVIOUS
<1>t. tick \in Nat /\ MaxTick \in Nat /\ at \in Nat /\ \A t \in 1..MaxTick : t \in Nat
  BY BoundsAssumption DEF TypeOK, MarketOK, MemoryOK
<1>d. DOMAIN queue = 1..Len(queue) /\ Len(queue) \in Nat
  BY LenProperties DEF TypeOK, MemoryOK
\* Time only goes on.
<1>b. \A t \in 1..MaxTick : Begun(t) => Begun(t)'
  <2>1. CASE Quote
    <3> SUFFICES ASSUME NEW t \in 1..MaxTick, Begun(t) PROVE Begun(t)'
      OBVIOUS
    <3>1. t <= tick /\ tick' = IF tick <= MaxTick THEN tick + 1 ELSE tick
      BY <2>1, <1>t DEF Quote, Begun
    <3>2. t < tick'
      BY <1>t, <3>1
    <3>3. QED
      BY <3>2 DEF Begun
  <2>2. CASE PollNew
    BY <2>2 DEF PollNew, market, Begun
  <2>3. CASE UNCHANGED <<tick, seen>>
    BY <2>3 DEF Begun
  <2>4. QED
    BY <2>1, <2>2, <2>3
     DEF Next, Process, Reconcile, Resolve, vars, market, store, Start, RejectUnsent,
         ConfirmFound, LeaveUnresolved, Reconciling, FinishReconcile, PollDuplicate, HarvestOne,
         HarvestNothingNew, EvaluateForward, Decide, Create, Submit, Preflight, OrderSend,
         ReplyDone, ReplyRejected, Uncertain, Confirm, Settle, Latch, Refresh, HarvestAgain,
         Crash, Fill, RefuseOrder, StopOut, Age
\* Nothing is planned any more.
<1>q. ASSUME queue' = << >>, at' \in {at, 0},
             \A d \in Decision : d[1] \in 1..MaxTick /\ journal'[d] # "absent" =>
                                   journal[d] # "absent" \/ Begun(d[1]),
             pc' = "decide" \/ (pc' = "harvest" /\ after' = "decide") =>
               /\ pc = "decide" \/ (pc = "harvest" /\ after = "decide")
               /\ UNCHANGED <<at, journal>>
      PROVE  FreshInv'
  <2>1. DOMAIN queue' = {}
    BY <1>q
  <2>2. at' \in 1..MaxTick => Begun(at)'
    BY <1>b, <1>q DEF FreshInv, Begun
  <2>3. \A d \in Decision : d[1] \in 1..MaxTick /\ journal'[d] # "absent" => Begun(d[1])'
    BY <1>b, <1>q DEF FreshInv
  <2>4. pc' = "decide" \/ (pc' = "harvest" /\ after' = "decide") =>
          \A d \in Decision : OnTick(d, at') => journal'[d] = "absent"
    BY <1>q DEF FreshInv
  <2>5. QED
    BY <2>1, <2>2, <2>3, <2>4 DEF FreshInv, OnTick
\* What is left of the queue, and the row of the decision in work.
<1>w. ASSUME pc \in Writing \cup {"exec"}, queue # << >>, UNCHANGED <<queue, at>>,
             pc' \in Writing \cup {"refresh"},
             \/ UNCHANGED journal
             \/ \E s \in {"created", "submitted", "confirmed", "rejected", "unknown"} :
                  journal' = [journal EXCEPT ![Cur] = s]
      PROVE  FreshInv'
  <2>1. Len(queue) \in Nat \ {0} /\ Cur = queue[1].id /\ Cur \in Decision /\ 1 \in DOMAIN queue
    BY <1>d, <1>w, CurrentType DEF Cur
  <2>2. OnTick(Cur, at) /\ Begun(at)
    BY <2>1 DEF FreshInv, OnTick
  <2>3. \A d \in Decision : d # Cur => journal'[d] = journal[d]
    BY <1>w, <2>1 DEF TypeOK, StoreOK
  <2>4. \A d \in Decision : d[1] \in 1..MaxTick /\ journal'[d] # "absent" => Begun(d[1])'
    BY <1>b, <2>2, <2>3 DEF FreshInv, OnTick
  <2>5. ASSUME NEW i \in DOMAIN queue, i > 1 PROVE journal'[queue[i].id] = "absent"
    <3>1. queue[i] \in Planned
      BY <1>d, ElementOfSeq DEF TypeOK, MemoryOK
    <3>2. queue[i].id \in Decision
      BY <3>1 DEF Planned
    <3>3. i # 1 /\ journal[queue[i].id] = "absent"
      BY <1>d, <2>5 DEF FreshInv
    <3>4. queue[i].id # Cur
      BY <2>1, <3>3 DEF FreshInv
    <3>5. QED
      BY <2>3, <3>2, <3>3, <3>4
  <2>6. at' \in 1..MaxTick => Begun(at)'
    BY <1>b, <1>w DEF FreshInv, Begun
  <2>7. pc' \notin {"decide", "harvest", "exec"}
    BY <1>w DEF Writing
  <2>8. QED
    BY <1>w, <2>4, <2>5, <2>6, <2>7 DEF FreshInv, OnTick
<1>1. CASE UNCHANGED <<pc, at, after, queue, journal>>
  <2>1. at' \in 1..MaxTick => Begun(at)'
    BY <1>1, <1>b DEF FreshInv, Begun
  <2>2. \A d \in Decision : d[1] \in 1..MaxTick /\ journal'[d] # "absent" => Begun(d[1])'
    BY <1>1, <1>b DEF FreshInv
  <2>3. QED
    BY <1>1, <2>1, <2>2 DEF FreshInv, OnTick
<1>2. CASE Crash \/ EvaluateForward \/ Latch
  BY <1>2, <1>q DEF Crash, EvaluateForward, Latch, Die, Return, store
<1>3. CASE Start \/ FinishReconcile \/ HarvestAgain
  <2>1. queue = << >>
    BY <1>3 DEF Start, FinishReconcile, HarvestAgain, QueueInv, Executing, Writing
  <2>2. QED
    BY <1>3, <1>q, <2>1 DEF Start, FinishReconcile, HarvestAgain, BeginHarvest, store
<1>4. ASSUME NEW d \in Decision, RejectUnsent(d) \/ ConfirmFound(d) \/ LeaveUnresolved(d)
      PROVE  FreshInv'
  <2>1. queue = << >> /\ journal[d] # "absent" /\ pc = "recon"
    BY <1>4 DEF RejectUnsent, ConfirmFound, LeaveUnresolved, Reconciling, NeverSent, QueueInv,
                Executing, Writing
  <2>2. \A e \in Decision : journal'[e] # "absent" => journal[e] # "absent"
    BY <1>4, <2>1 DEF RejectUnsent, ConfirmFound, LeaveUnresolved, TypeOK, StoreOK
  <2>3. UNCHANGED <<pc, at, queue>>
    BY <1>4 DEF RejectUnsent, ConfirmFound, LeaveUnresolved, Reconciling
  <2>4. QED
    BY <1>q, <2>1, <2>2, <2>3
<1>5. CASE PollNew
  <2>1. /\ ~seen /\ tick' = tick /\ seen' /\ at' = tick /\ pc = "idle"
        /\ UNCHANGED <<journal, queue>>
    BY <1>5 DEF PollNew, NewTick, market
  <2>2. queue' = << >> /\ DOMAIN queue' = {}
    BY <2>1 DEF QueueInv, Executing, Writing
  <2>3. Begun(at)'
    BY <2>1 DEF Begun
  <2>4. \A d \in Decision : d[1] \in 1..MaxTick /\ journal'[d] # "absent" => Begun(d[1])'
    BY <1>b, <2>1 DEF FreshInv
  <2>5. \A d \in Decision : OnTick(d, at') => journal'[d] = "absent"
    BY <1>t, <2>1 DEF FreshInv, Begun, OnTick
  <2>6. QED
    BY <2>2, <2>3, <2>4, <2>5 DEF FreshInv, OnTick
<1>6. ASSUME NEW d \in Decision, HarvestOne(d) PROVE FreshInv'
  BY <1>1, <1>6 DEF HarvestOne
<1>7. CASE HarvestNothingNew
  <2>1. queue = << >>
    BY <1>7 DEF HarvestNothingNew, QueueInv, Executing, Writing
  <2>2. QED
    BY <1>7, <1>q, <2>1 DEF HarvestNothingNew, Return, store
<1>8. CASE Decide
  <2>1. CASE Return("idle")
    BY <1>8, <1>q, <2>1 DEF Decide, Return, store
  <2>2. ASSUME NEW p \in Plans, p # << >> => at \in 1..MaxTick,
               queue' = [i \in 1..Len(p) |-> [id |-> <<at, i>>, intent |-> p[i]]],
               pc' = "exec", UNCHANGED <<at, after, journal>>
        PROVE  FreshInv'
    <3>1. queue' \in Seq(Planned) /\ Len(p) \in Nat /\ DOMAIN queue' = 1..Len(p)
      BY <2>2, QueueType
    <3>2. \A i \in DOMAIN queue' : queue'[i].id = <<at, i>> /\ queue'[i] \in Planned
      BY <2>2, <3>1, ElementOfSeq
    <3>3. \A i \in DOMAIN queue' : OnTick(queue'[i].id, at)
      <4>1. \A i \in DOMAIN queue' : p # << >>
        BY <3>1, EmptySeq
      <4>2. QED
        BY <2>2, <3>2, <4>1 DEF OnTick
    <3>4. \A i \in DOMAIN queue' : queue'[i].id \in Decision
      BY <3>2 DEF Planned
    <3>5. \A i \in DOMAIN queue' : journal'[queue'[i].id] = "absent"
      BY <1>8, <2>2, <3>3, <3>4 DEF Decide, FreshInv
    <3>6. \A i, j \in DOMAIN queue' : queue'[i].id = queue'[j].id => i = j
      BY <3>2
    <3>7. at' \in 1..MaxTick => Begun(at)'
      BY <1>b, <2>2 DEF FreshInv, Begun
    <3>8. \A d \in Decision : d[1] \in 1..MaxTick /\ journal'[d] # "absent" => Begun(d[1])'
      BY <1>b, <2>2 DEF FreshInv
    <3>9. QED
      BY <2>2, <3>3, <3>5, <3>6, <3>7, <3>8 DEF FreshInv, OnTick
  <2>3. QED
    BY <1>8, <2>1, <2>2 DEF Decide, store
<1>9. CASE Create
  BY <1>9, <1>w DEF Create, Writing
<1>10. CASE Submit
  <2>1. queue # << >> /\ Cur \in Decision
    BY <1>10, CurrentType DEF Submit, QueueInv, Writing
  <2>2. CASE Die
    <3>1. OnTick(Cur, at) /\ Begun(at)
      BY <1>d, <2>1, CurrentType DEF FreshInv, OnTick, Cur
    <3>2. \A d \in Decision : d[1] \in 1..MaxTick /\ journal'[d] # "absent" =>
            journal[d] # "absent" \/ Begun(d[1])
      BY <1>10, <2>1, <3>1 DEF Submit, TypeOK, StoreOK, OnTick
    <3>3. QED
      BY <1>q, <2>2, <3>2 DEF Die, Return
  <2>3. CASE pc' = "preflight" /\ UNCHANGED <<at, queue>>
    BY <1>10, <1>w, <2>1, <2>3 DEF Submit, Writing
  <2>4. QED
    BY <1>10, <2>2, <2>3 DEF Submit
<1>11. CASE Preflight \/ ReplyRejected \/ Uncertain \/ Confirm \/ OrderSend \/ ReplyDone
  <2>1. pc \in Writing /\ queue # << >>
    BY <1>11 DEF Preflight, ReplyRejected, Uncertain, Confirm, OrderSend, ReplyDone, QueueInv,
                 Writing
  <2>2. QED
    BY <1>11, <1>w, <2>1 DEF Preflight, ReplyRejected, Uncertain, Confirm, OrderSend, ReplyDone,
                             Settle, AfterUncertain, Writing, store
<1>12. CASE Refresh
  <2>1. queue # << >> /\ queue' = Tail(queue) /\ pc' = "exec" /\ UNCHANGED <<at, journal>>
    BY <1>12 DEF Refresh, QueueInv, store
  <2>2. /\ queue' \in Seq(Planned) /\ Len(queue') = Len(queue) - 1
        /\ \A i \in 1..Len(queue') : queue'[i] = queue[i + 1]
    BY <2>1, CurrentType
  <2>3. \A i \in DOMAIN queue' :
          i \in Nat /\ i + 1 > 1 /\ i + 1 \in DOMAIN queue /\ queue'[i] = queue[i + 1]
    BY <1>d, <2>2, LenProperties
  <2>4. \A i, j \in DOMAIN queue' : queue'[i].id = queue'[j].id => i = j
    <3>1. \A i, j \in DOMAIN queue' : queue'[i].id = queue'[j].id => i + 1 = j + 1
      BY <2>3 DEF FreshInv
    <3>2. QED
      BY <2>3, <3>1
  <2>5. \A i \in DOMAIN queue' : /\ OnTick(queue'[i].id, at)
                                 /\ journal[queue'[i].id] = "absent"
    BY <2>3 DEF FreshInv
  <2>6. at' \in 1..MaxTick => Begun(at)'
    BY <1>b, <2>1 DEF FreshInv, Begun
  <2>7. \A d \in Decision : d[1] \in 1..MaxTick /\ journal'[d] # "absent" => Begun(d[1])'
    BY <1>b, <2>1 DEF FreshInv
  <2>8. QED
    BY <2>1, <2>4, <2>5, <2>6, <2>7 DEF FreshInv, OnTick
<1>13. QED
  BY <1>1, <1>2, <1>3, <1>4, <1>5, <1>6, <1>7, <1>8, <1>9, <1>10, <1>11, <1>12
     DEF Next, Process, Reconcile, Resolve, vars, memory, store, PollDuplicate, Quote, Fill,
         RefuseOrder, StopOut, Age

-----------------------------------------------------------------------------
(* The theorems.                                                           *)

LEMMA InitInv == Init => JournalTellsTheTruth
<1> SUFFICES ASSUME Init PROVE JournalTellsTheTruth
  OBVIOUS
<1>1. TypeOK
  BY InitType
<1>2. QueueInv /\ CurrentInv
  BY DEF Init, QueueInv, CurrentInv, Writing, Executing
<1>3. HaltInv
  BY DEF Init, HaltInv, Unsettled
<1>4. FateInv
  BY DEF Init, FateInv
<1>5. StopInv
  <2>1. Len(queue) = 0
    BY EmptySeq DEF Init
  <2>2. QED BY <2>1 DEF Init, StopInv, Unsettled, NoIntent
<1>6. HarvestInv
  BY DEF Init, HarvestInv
<1>7. FreshInv
  <2>1. DOMAIN queue = {} /\ at = 0
    BY DEF Init
  <2>2. \A d \in Carried : d[1] = 0
    BY CarriedAssumption
  <2>3. \A d \in Decision : d[1] \in 1..MaxTick => journal[d] = "absent"
    BY <2>2, BoundsAssumption DEF Init
  <2>4. at \notin 1..MaxTick
    BY <2>1
  <2>5. QED
    BY <2>1, <2>3, <2>4 DEF Init, FreshInv
<1>8. QED
  BY <1>1, <1>2, <1>3, <1>4, <1>5, <1>6, <1>7 DEF JournalTellsTheTruth

LEMMA StepInv ==
  ASSUME ~AmbiguousZeroTicket
  PROVE  JournalTellsTheTruth /\ [Next]_vars => JournalTellsTheTruth'
BY StepType, QueueStep, CurrentStep, HaltStep, FateStep, StopStep, HarvestStep,
   FreshStep DEF JournalTellsTheTruth

\* Every variable keeps its type, whatever the broker answers.
THEOREM TypeCorrect == Spec => []TypeOK
<1>1. Init => TypeOK /\ QueueInv
  BY InitInv DEF JournalTellsTheTruth
<1>2. TypeOK /\ QueueInv /\ [Next]_vars => (TypeOK /\ QueueInv)'
  BY StepType, QueueStep
<1>3. QED
  BY <1>1, <1>2, PTL DEF Spec

\* Neither a crash nor a tick delivered again leads back to a decision that is
\* journaled: the branch of _execute for such a decision is never taken.
THEOREM DecisionsAreNew == Spec => []NeverReprocessed
<1>1. Init => TypeOK /\ QueueInv /\ FreshInv
  BY InitInv DEF JournalTellsTheTruth
<1>2. TypeOK /\ QueueInv /\ FreshInv /\ [Next]_vars => (TypeOK /\ QueueInv /\ FreshInv)'
  BY StepType, QueueStep, FreshStep
<1>3. FreshInv => NeverReprocessed
  BY DEF FreshInv, NeverReprocessed
<1>4. QED
  BY <1>1, <1>2, <1>3, PTL DEF Spec

\* The journal, the halt flag, the queue and the broker never disagree about
\* which order is outstanding, provided that an order answered without a
\* ticket was refused (the assumption of DemoMT5Execution._send_once).
THEOREM Agreement ==
  ASSUME ~AmbiguousZeroTicket
  PROVE  Spec => []JournalTellsTheTruth
<1>1. Init => JournalTellsTheTruth
  BY InitInv
<1>2. JournalTellsTheTruth /\ [Next]_vars => JournalTellsTheTruth'
  BY StepInv
<1>3. QED
  BY <1>1, <1>2, PTL DEF Spec

\* order_send is called at most once for a decision, over all the sessions
\* and crashes of the runtime.
THEOREM OneSend == ASSUME ~AmbiguousZeroTicket PROVE Spec => []SentAtMostOnce
<1>1. JournalTellsTheTruth => SentAtMostOnce
  BY DEF JournalTellsTheTruth, FateInv, SentAtMostOnce
<1>2. QED
  BY <1>1, Agreement, PTL

\* Nothing is written to the broker while an earlier write is unresolved.
THEOREM OneWriteAtATime == ASSUME ~AmbiguousZeroTicket PROVE Spec => []NoOverlappingWrites
<1>1. JournalTellsTheTruth => NoOverlappingWrites
  BY InflightUnsettled DEF JournalTellsTheTruth, HaltInv, NoOverlappingWrites
<1>2. QED
  BY <1>1, Agreement, PTL

\* "confirmed" and "rejected" are true of the broker.
THEOREM VerdictsAreTrue ==
  ASSUME ~AmbiguousZeroTicket
  PROVE  Spec => [](ConfirmedExecuted /\ RejectedNeverExecutes)
<1>1. JournalTellsTheTruth => ConfirmedExecuted /\ RejectedNeverExecutes
  BY DEF JournalTellsTheTruth, FateInv, ConfirmedExecuted, RejectedNeverExecutes
<1>2. QED
  BY <1>1, Agreement, PTL

\* While the loop is free to trade it has a confirmed row for every open
\* position.
THEOREM NoUnknownPosition == ASSUME ~AmbiguousZeroTicket PROVE Spec => []PositionsAccountedFor
<1>1. JournalTellsTheTruth => PositionsAccountedFor
  <2>1. SUFFICES ASSUME JournalTellsTheTruth, NEW e \in OpenPositions,
                        journal[e] # "confirmed", ~halted, pc \notin {"down", "recon"}
                 PROVE  queue # << >> /\ Cur = e
    BY DEF PositionsAccountedFor
  <2>2. e \in Decision /\ fate[e] = "done"
    BY <2>1 DEF OpenPositions, JournalTellsTheTruth, FateInv
  <2>3. Unsettled(e)
    BY <2>1, <2>2 DEF JournalTellsTheTruth, FateInv, TypeOK, StoreOK, Unsettled
  <2>4. pc \in Writing /\ e = Cur
    BY <2>1, <2>2, <2>3 DEF JournalTellsTheTruth, HaltInv
  <2>5. QED BY <2>1, <2>4 DEF JournalTellsTheTruth, QueueInv
<1>2. QED
  BY <1>1, Agreement, PTL

\* An outcome is recorded only of a confirmed entry that is flat at the
\* broker and whose risk is known.
THEOREM OnlyFlatHarvested == ASSUME ~AmbiguousZeroTicket PROVE Spec => []HarvestedWhenFlat
<1>1. JournalTellsTheTruth => HarvestedWhenFlat
  BY DEF JournalTellsTheTruth, HarvestInv, HarvestedWhenFlat
<1>2. QED
  BY <1>1, Agreement, PTL

\* No late protection order ever loosens a broker-side stop.
THEOREM StopsTighten == ASSUME ~AmbiguousZeroTicket PROVE Spec => StopsOnlyTighten
<1>1. JournalTellsTheTruth /\ [Next]_vars => [\A e \in Decision : stop'[e] >= stop[e]]_vars
  <2>1. SUFFICES ASSUME JournalTellsTheTruth, [Next]_vars, NEW e \in Decision
                 PROVE  stop'[e] >= stop[e]
    OBVIOUS
  <2>2. stop[e] \in Nat /\ \A d \in Decision : req[d] \in Nat
    BY <2>1, BoundsAssumption DEF JournalTellsTheTruth, TypeOK, MarketOK, Level
  <2>3. CASE UNCHANGED stop
    BY <2>2, <2>3
  <2>4. ASSUME NEW d \in Decision, Fill(d) PROVE stop'[e] >= stop[e]
    <3>1. CASE /\ fate[d] = "inflight" /\ intent[d].kind = "PROTECT"
               /\ stop' = [stop EXCEPT ![intent[d].position_id] = req[d]]
      <4>1. stop[intent[d].position_id] < req[d]
        BY <2>1, <3>1 DEF JournalTellsTheTruth, StopInv
      <4>2. QED BY <2>1, <2>2, <3>1, <4>1 DEF JournalTellsTheTruth, TypeOK, MarketOK
    <3>2. QED BY <2>3, <2>4, <3>1 DEF Fill
  <2>5. QED
    BY <2>1, <2>3, <2>4
     DEF Next, Process, Reconcile, Resolve, vars, market, Start, RejectUnsent, ConfirmFound,
         LeaveUnresolved, Reconciling, FinishReconcile, PollDuplicate, PollNew, HarvestOne,
         HarvestNothingNew, EvaluateForward, Decide, Create, Submit, Preflight, OrderSend,
         ReplyDone, ReplyRejected, Uncertain, Confirm, Latch, Refresh, HarvestAgain, Crash,
         Quote, RefuseOrder, StopOut, Age
<1>2. QED
  BY <1>1, Agreement, PTL DEF Spec, StopsOnlyTighten

\* What the actions do to the verdict and the effect of an order.
LEMMA InitVerdict == Init => OneShot!Init
<1> SUFFICES ASSUME Init PROVE OneShot!Init
  OBVIOUS
<1>1. Verdict \in [Decision -> {"none", "done"}]
  BY DEF Init, Verdict
<1>2. \A d \in Decision : (fate[d] = "done") <=> (Verdict[d] = "done")
  BY DEF Init, Verdict
<1>3. Effect = [d \in Decision |-> Verdict[d] = "done"]
  BY <1>2, Zenon DEF Effect
<1>4. QED
  BY <1>1, <1>3 DEF OneShot!Init

LEMMA SameVerdict ==
  /\ UNCHANGED journal => UNCHANGED Verdict
  /\ UNCHANGED fate => UNCHANGED Effect
BY DEF Verdict, Effect

\* A journal write moves the verdict of one decision.
LEMMA VerdictWrite ==
  ASSUME TypeOK, NEW d \in Decision,
         NEW s \in {"created", "submitted", "confirmed", "rejected", "unknown"},
         journal' = [journal EXCEPT ![d] = s]
  PROVE  Verdict' = [Verdict EXCEPT ![d] = CASE s = "confirmed" -> "done"
                                             [] s = "rejected"  -> "void"
                                             [] OTHER           -> "pending"]
BY DEF Verdict, TypeOK, StoreOK

\* An execution at the broker moves the effect of one decision.
LEMMA EffectWrite ==
  ASSUME TypeOK, NEW d \in Decision, NEW s \in {"inflight", "done", "refused"},
         fate[d] # "done", fate' = [fate EXCEPT ![d] = s]
  PROVE  IF s = "done" THEN Effect' = [Effect EXCEPT ![d] = TRUE] ELSE UNCHANGED Effect
<1>1. \A e \in Decision : (fate'[e] = "done") <=> (fate[e] = "done" \/ (e = d /\ s = "done"))
  BY DEF TypeOK, MarketOK
<1>2. CASE s = "done"
  <2>1. Effect' = [e \in Decision |-> fate[e] = "done" \/ e = d]
    BY <1>1, <1>2, Zenon DEF Effect
  <2>2. Effect' = [Effect EXCEPT ![d] = TRUE]
    BY <2>1, Zenon DEF Effect
  <2>3. QED BY <1>2, <2>2
<1>3. CASE s # "done"
  <2>1. \A e \in Decision : (fate'[e] = "done") <=> (fate[e] = "done")
    BY <1>1, <1>3
  <2>2. Effect' = Effect
    BY <2>1, Zenon DEF Effect
  <2>3. QED BY <1>3, <2>2
<1>4. QED
  BY <1>2, <1>3

\* What a verdict and an effect stand for.
LEMMA VerdictOf ==
  ASSUME TypeOK, NEW d \in Decision
  PROVE  /\ Verdict[d] = "none" <=> journal[d] = "absent"
         /\ Verdict[d] = "pending" <=> Unsettled(d)
         /\ Effect[d] <=> fate[d] = "done"
<1>1. /\ Verdict[d] = "none" <=> journal[d] = "absent"
      /\ Verdict[d] = "pending" <=> Unsettled(d)
  BY DEF Verdict, Unsettled, TypeOK, StoreOK
<1>2. Effect[d] <=> fate[d] = "done"
  BY Zenon DEF Effect
<1>3. QED
  BY <1>1, <1>2

LEMMA OneShotStep ==
  ASSUME ~AmbiguousZeroTicket, JournalTellsTheTruth, [Next]_vars
  PROVE  [OneShot!Next]_(OneShot!vars)
<1> USE DEF JournalTellsTheTruth
<1>q. pc \in Writing => Cur \in Decision
  BY CurrentType DEF QueueInv
<1>1. CASE UNCHANGED <<journal, fate>>
  BY <1>1, SameVerdict DEF OneShot!vars
\* The row of d moves within the pending verdict.
<1>p. ASSUME NEW d \in Decision, NEW s \in {"created", "submitted", "unknown"}, Unsettled(d),
             journal' = [journal EXCEPT ![d] = s]
      PROVE  UNCHANGED Verdict
  <2>1. Verdict' = [Verdict EXCEPT ![d] = "pending"]
    BY <1>p, VerdictWrite
  <2>2. Verdict[d] = "pending" /\ Verdict = [e \in Decision |-> Verdict[e]]
    BY <1>p, VerdictOf DEF Verdict
  <2>3. QED BY <2>1, <2>2
\* A pending row is settled as confirmed, or as rejected.
<1>a. ASSUME NEW d \in Decision, Unsettled(d), fate[d] = "done", UNCHANGED fate,
             journal' = [journal EXCEPT ![d] = "confirmed"]
      PROVE  OneShot!Next
  BY <1>a, VerdictWrite, VerdictOf, SameVerdict DEF OneShot!Next, OneShot!Acknowledge
<1>v. ASSUME NEW d \in Decision, Unsettled(d), fate[d] # "done", UNCHANGED fate,
             journal' = [journal EXCEPT ![d] = "rejected"]
      PROVE  OneShot!Next
  BY <1>v, VerdictWrite, VerdictOf, SameVerdict DEF OneShot!Next, OneShot!Abandon
<1>2. ASSUME NEW d \in Decision, RejectUnsent(d) PROVE OneShot!Next
  BY <1>2, <1>v DEF RejectUnsent, Reconciling, NeverSent, Unsettled, market, FateInv
<1>3. ASSUME NEW d \in Decision, ConfirmFound(d) PROVE OneShot!Next
  <2>1. UNCHANGED fate /\ journal' = [journal EXCEPT ![d] = "confirmed"] /\ Unsettled(d)
    BY <1>3 DEF ConfirmFound, Reconciling, Unsettled, market
  <2>2. FateInv'
    BY FateStep
  <2>3. fate[d] = "done"
    BY <2>1, <2>2 DEF FateInv, TypeOK, StoreOK
  <2>4. QED BY <2>1, <2>3, <1>a
<1>4. CASE Create
  <2>1. Cur \in Decision /\ pc = "exec"
    BY <1>4, CurrentType DEF Create
  <2>2. \A d \in Decision : Verdict[d] # "pending"
    BY <2>1, VerdictOf DEF HaltInv, QueueInv, Executing, Writing
  <2>3. /\ journal[Cur] = "absent" /\ journal' = [journal EXCEPT ![Cur] = "created"]
        /\ UNCHANGED fate
    BY <1>4 DEF Create, market
  <2>4. Verdict' = [Verdict EXCEPT ![Cur] = "pending"] /\ UNCHANGED Effect
    BY <2>1, <2>3, VerdictWrite, SameVerdict
  <2>5. QED BY <2>1, <2>2, <2>3, <2>4, VerdictOf DEF OneShot!Next, OneShot!Attempt
<1>5. CASE Submit \/ Uncertain
  <2>1. /\ Cur \in Decision /\ Unsettled(Cur) /\ UNCHANGED fate
        /\ \E s \in {"submitted", "unknown"} : journal' = [journal EXCEPT ![Cur] = s]
    BY <1>5, <1>q DEF Submit, Uncertain, Settle, CurrentInv, Writing, Unsettled, market
  <2>2. QED BY <2>1, <1>p, SameVerdict DEF OneShot!vars
<1>6. CASE Preflight \/ ReplyRejected
  <2>1. /\ Cur \in Decision /\ Unsettled(Cur) /\ UNCHANGED fate /\ fate[Cur] # "done"
        /\ journal' = [journal EXCEPT ![Cur] = "rejected"]
    BY <1>6, <1>q DEF Preflight, ReplyRejected, TicketlessReply, Settle, CurrentInv, Writing,
       Unsettled, market
  <2>2. QED BY <2>1, <1>v
<1>7. CASE Confirm
  <2>1. /\ Cur \in Decision /\ Unsettled(Cur) /\ UNCHANGED fate /\ fate[Cur] = "done"
        /\ journal' = [journal EXCEPT ![Cur] = "confirmed"]
    BY <1>7, <1>q DEF Confirm, Settle, CurrentInv, Writing, Unsettled, market
  <2>2. QED BY <2>1, <1>a
<1>8. CASE OrderSend
  <2>1. Cur \in Decision /\ fate[Cur] # "done" /\ fate' = [fate EXCEPT ![Cur] = "inflight"]
        /\ UNCHANGED journal
    BY <1>8, <1>q DEF OrderSend, CurrentInv, Writing, store
  <2>2. QED BY <2>1, EffectWrite, SameVerdict DEF OneShot!vars
<1>9. ASSUME NEW d \in Decision, Fill(d) PROVE OneShot!Next
  <2>1. fate[d] = "inflight" /\ fate' = [fate EXCEPT ![d] = "done"] /\ UNCHANGED journal
    BY <1>9 DEF Fill, store
  <2>2. Effect' = [Effect EXCEPT ![d] = TRUE] /\ UNCHANGED Verdict
    BY <2>1, EffectWrite, SameVerdict
  <2>3. Verdict[d] = "pending" /\ ~Effect[d]
    BY <2>1, VerdictOf, InflightUnsettled
  <2>4. QED BY <2>2, <2>3 DEF OneShot!Next, OneShot!TakeEffect
<1>10. ASSUME NEW d \in Decision, RefuseOrder(d) PROVE UNCHANGED OneShot!vars
  BY <1>10, EffectWrite, SameVerdict DEF RefuseOrder, store, OneShot!vars
<1>11. QED
  BY <1>1, <1>2, <1>3, <1>4, <1>5, <1>6, <1>7, <1>8, <1>9, <1>10
     DEF Next, Process, Reconcile, Resolve, vars, store, market, Start, LeaveUnresolved,
         Reconciling, FinishReconcile, PollDuplicate, PollNew, HarvestOne, HarvestNothingNew,
         EvaluateForward, Decide, ReplyDone, Latch, Refresh, HarvestAgain, Crash, Quote,
         StopOut, Age

\* The order path implements the one-shot order: crashes, lost answers, late
\* executions and restarts included.
THEOREM OrderPathIsOneShot ==
  ASSUME ~AmbiguousZeroTicket
  PROVE  Spec => ImplementsOneShotOrder
<1>1. Init => OneShot!Init
  BY InitVerdict
<1>2. JournalTellsTheTruth /\ [Next]_vars => [OneShot!Next]_(OneShot!vars)
  BY OneShotStep
<1>3. QED
  BY <1>1, <1>2, Agreement, PTL DEF Spec, ImplementsOneShotOrder, OneShot!Spec
=============================================================================
