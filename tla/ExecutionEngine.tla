--------------------------- MODULE ExecutionEngine ---------------------------
(***************************************************************************)
(* The execution engine behind the MT5 agent: ExecutionEngine              *)
(* (truetrade/execution/engine.py) over the durable journal                *)
(* (persistence/store.py), entered by POST /signals, POST /reconcile and   *)
(* the watchdog of execution/agent.py, with MT5Broker (brokers/mt5.py) and *)
(* the trade server behind it.                                             *)
(*                                                                         *)
(* Every entry point holds the engine's lock, so they never interleave     *)
(* with each other; they interleave with the market, and the agent may die *)
(* between any two durable writes.  A restart does nothing by itself.      *)
(*                                                                         *)
(* Simplifications.                                                        *)
(*  - A request that is answered without a write (duplicate, halted,       *)
(*    execution not allowed, reads of the status) is no step.              *)
(*  - Volumes are in minimum lots.  Of what verify compares, the volume    *)
(*    and the stops are modelled; as any read or any other comparison may  *)
(*    fail, each check may also fail on a sound position.                  *)
(*  - Entries are filled at once or not at all (fill or kill), or in part  *)
(*    with the rest cancelled (immediate or cancel): the policies _filling *)
(*    prefers.                                                             *)
(***************************************************************************)
EXTENDS Naturals

CONSTANTS
  Decision,     \* decision ids clients may use
  Flat,         \* those whose signal sets require_flat
  Lot,          \* volume of an entry
  MaxCrashes,   \* bound: deaths of the agent
  NoDecision

ASSUME EngineAssumption ==
  /\ Flat \subseteq Decision /\ NoDecision \notin Decision
  /\ Lot \in Nat \ {0} /\ MaxCrashes \in Nat

VARIABLES
  \* journal.sqlite
  row,        \* intents.state, "none" while there is no row
  pid,        \* has the row a position_id?
  halt,       \* execution_meta execution_halt
  \* the entry point that holds the lock
  job,        \* which one
  at,         \* its next step
  on,         \* the decision it is about
  todo,       \* rows its loop has still to visit
  answer,     \* what broker.open came back with
  \* MT5
  order,      \* what became of the entry order of a decision
  vol,        \* open volume of its position
  guarded,    \* are its stop and target where the plan wants them?
  \* history
  sends,      \* how often order_send was called with the entry
  distrusted, \* rows that lost the engine's trust and were not reconciled
  crashes

journal == <<row, pid, halt>>
call == <<job, at, on, todo, answer>>
broker == <<order, vol, guarded, sends>>
history == <<distrusted, crashes>>
vars == <<journal, call, broker, history>>

\* Mutant of Unsettled: a row whose position is known counts as settled.
UnsettledNoPosition == {d \in Decision : row[d] \in {"intent", "unknown"}}

Unsettled == {d \in Decision : row[d] \in {"intent", "submitted", "unknown"}}
Protected == {d \in Decision : row[d] = "protected"}
Open == {d \in Decision : vol[d] > 0}

\* Mutant of ConfirmClosed: no position in the terminal is taken for a close.
Absent(d) == vol[d] = 0

\* confirm_closed: the row names a position, it is gone, and its deals
\* balance.  The check may still answer no, or fail, on a closed position.
ConfirmClosed(d) == pid[d] /\ order[d] = "done" /\ vol[d] = 0

Init ==
  /\ row = [d \in Decision |-> "none"] /\ pid = [d \in Decision |-> FALSE] /\ halt = FALSE
  /\ job = "none" /\ at = "idle" /\ on = NoDecision /\ todo = {} /\ answer = "none"
  /\ order = [d \in Decision |-> "none"] /\ vol = [d \in Decision |-> 0]
  /\ guarded = [d \in Decision |-> FALSE] /\ sends = [d \in Decision |-> 0]
  /\ distrusted = {} /\ crashes = 0

Enter(j, step, d, rows) ==
  job' = j /\ at' = step /\ on' = d /\ todo' = rows /\ answer' = "none"
Return == Enter("none", "idle", NoDecision, {})
Goto(step) == at' = step /\ UNCHANGED <<job, on, todo, answer>>

Write(d, state) == row' = [row EXCEPT ![d] = state]

\* A row becomes unknown: the halt latch is the next durable write.
Distrust(d) == Write(d, "unknown") /\ distrusted' = distrusted \cup {d}

-----------------------------------------------------------------------------
(* The three entry points take the lock.                                   *)

\* _execute looks the decision up first.
Fresh(d) == row[d] = "none"

\* _execute up to the audit; anything else is answered without a write.
Submit(d) ==
  /\ at = "idle" /\ Fresh(d) /\ ~halt /\ Unsettled = {}
  /\ Enter("submit", "audit", d, Protected)
  /\ UNCHANGED <<journal, broker, history>>

\* monitor, every five seconds.
Monitor ==
  /\ at = "idle"
  /\ Enter("monitor", "audit", NoDecision, Protected)
  /\ UNCHANGED <<journal, broker, history>>

\* POST /reconcile by the operator.
Reconcile ==
  /\ at = "idle"
  /\ Enter("reconcile", "settle", NoDecision, Unsettled)
  /\ UNCHANGED <<journal, broker, history>>

-----------------------------------------------------------------------------
(* _audit_protected, shared by all three.                                  *)

AuditClosed(d) ==
  /\ at = "audit" /\ d \in todo /\ ConfirmClosed(d)
  /\ Write(d, "closed") /\ todo' = todo \ {d}
  /\ UNCHANGED <<pid, halt, job, at, on, answer, broker, history>>

\* Mutant of Verified: the position is there.
Observed(d) == vol[d] > 0

\* broker.verify.
Verified(d) == vol[d] = Lot /\ guarded[d]

AuditVerified(d) ==
  /\ at = "audit" /\ d \in todo /\ Verified(d)
  /\ todo' = todo \ {d}
  /\ UNCHANGED <<journal, job, at, on, answer, broker, history>>

\* The check failed or could not be made.
AuditFails(d) ==
  /\ at = "audit" /\ d \in todo
  /\ Distrust(d)
  /\ at' = "halt" /\ on' = d /\ todo' = {}
  /\ UNCHANGED <<pid, halt, job, answer, broker, crashes>>

\* The audit found nothing: the watchdog sleeps; prepare refuses the signal.
AuditEnds ==
  /\ at = "audit" /\ todo = {} /\ job \in {"submit", "monitor"}
  /\ Return
  /\ UNCHANGED <<journal, broker, history>>

-----------------------------------------------------------------------------
(* _halt and _emergency_close.                                             *)

\* Mutant of Latch: the reason is not stored.
NoLatch == halt

\* _halt.
Latch == TRUE

Halt ==
  /\ at = "halt"
  /\ halt' = Latch
  /\ IF pid[on] THEN Goto("close") ELSE Return
  /\ UNCHANGED <<row, pid, broker, history>>

\* What a close for the size of the position may leave open.
Remaining(d) == 0..vol[d]

\* broker.close: refused before the send, or sent and closing any part of
\* the position; what goes wrong in it is swallowed.
EmergencyClose ==
  /\ at = "close"
  /\ \E left \in Remaining(on) :
       /\ vol' = [vol EXCEPT ![on] = left]
       /\ IF left = 0 THEN Goto("confirm") \/ Return ELSE Return
  /\ UNCHANGED <<journal, order, guarded, sends, history>>

CloseRow ==
  /\ at = "confirm" /\ ConfirmClosed(on)
  /\ Write(on, "closed")
  /\ Return
  /\ UNCHANGED <<pid, halt, broker, history>>

-----------------------------------------------------------------------------
(* _execute after the audit.                                               *)

\* Mutant of AccountAllows: open positions are not looked at.
AnyAccount(d) == TRUE

\* require_flat, asked of the terminal.
AccountAllows(d) == d \in Flat => Open = {}

\* prepare succeeds and create_intent stores the row.
Prepare ==
  /\ at = "audit" /\ todo = {} /\ job = "submit"
  /\ AccountAllows(on)
  /\ Write(on, "intent")
  /\ Goto("open")
  /\ UNCHANGED <<pid, halt, broker, history>>

Answer(a) == answer' = a /\ at' = "answered" /\ UNCHANGED <<job, on, todo>>

\* _prepare_open or order_check refuses: OrderNotSubmitted.
NotSubmitted ==
  /\ at = "open"
  /\ Answer("rejected")
  /\ UNCHANGED <<journal, broker, history>>

Fill(d, v, g) ==
  /\ order' = [order EXCEPT ![d] = "done"]
  /\ vol' = [vol EXCEPT ![d] = v]
  /\ guarded' = [guarded EXCEPT ![d] = g]

\* The order is out but not filled yet, or refused.
Leave(d, fate) == order' = [order EXCEPT ![d] = fate] /\ UNCHANGED <<vol, guarded>>

\* The one order_send.  An allowlisted rejection without tickets is definite;
\* an answer may be lost whatever happened; a fill whose position is found
\* may still differ from the plan (a position_id with OrderUncertain).
Send ==
  /\ at = "open"
  /\ sends' = [sends EXCEPT ![on] = @ + 1]
  /\ \/ Answer("rejected") /\ Leave(on, "refused")
     \/ Answer("lost") /\ \E fate \in {"working", "refused"} : Leave(on, fate)
     \/ \E a \in {"lost", "doubt"}, v \in 1..Lot, g \in BOOLEAN : Answer(a) /\ Fill(on, v, g)
     \/ \E g \in BOOLEAN : Answer("filled") /\ Fill(on, Lot, g)
  /\ UNCHANGED <<journal, history>>

OnRejected ==
  /\ at = "answered" /\ answer = "rejected"
  /\ Write(on, "rejected")
  /\ Return
  /\ UNCHANGED <<pid, halt, broker, history>>

\* Mutant of Uncertain: an answer that names no position is a rejection.
Doubtful == {"doubt"}

\* Answers that leave the outcome open.
Uncertain == {"lost", "doubt"}

OnUncertain ==
  /\ at = "answered" /\ answer \in {"lost", "doubt"}
  /\ IF answer \in Uncertain
     THEN Distrust(on) /\ pid' = [pid EXCEPT ![on] = answer = "doubt"] /\ Goto("halt")
     ELSE Write(on, "rejected") /\ Return /\ UNCHANGED <<pid, distrusted>>
  /\ UNCHANGED <<halt, broker, crashes>>

OnFilled ==
  /\ at = "answered" /\ answer = "filled"
  /\ Write(on, "submitted") /\ pid' = [pid EXCEPT ![on] = TRUE]
  /\ Goto("verify")
  /\ UNCHANGED <<halt, broker, history>>

\* set_protection moves the stops where the plan wants them, if they are not
\* there, and the readback verifies.
Verify ==
  /\ at = "verify" /\ vol[on] = Lot
  /\ guarded' = [guarded EXCEPT ![on] = TRUE]
  /\ Goto("protect")
  /\ UNCHANGED <<journal, order, vol, sends, history>>

VerifyFails ==
  /\ at = "verify"
  /\ \E g \in BOOLEAN : guarded' = [guarded EXCEPT ![on] = @ \/ g]
  /\ Distrust(on)
  /\ Goto("halt")
  /\ UNCHANGED <<pid, halt, order, vol, sends, crashes>>

Protect ==
  /\ at = "protect"
  /\ Write(on, "protected")
  /\ Return
  /\ UNCHANGED <<pid, halt, broker, history>>

-----------------------------------------------------------------------------
(* reconcile.                                                              *)

\* The next unsettled row; a row that is not unknown yet becomes so first.
Settle(d) ==
  /\ at = "settle" /\ on = NoDecision /\ d \in todo
  /\ Distrust(d)
  /\ on' = d
  /\ UNCHANGED <<pid, halt, job, at, todo, answer, broker, crashes>>

SettleClosed ==
  /\ at = "settle" /\ on # NoDecision /\ ConfirmClosed(on)
  /\ Write(on, "closed") /\ distrusted' = distrusted \ {on}
  /\ on' = NoDecision /\ todo' = todo \ {on}
  /\ UNCHANGED <<pid, halt, job, at, answer, broker, crashes>>

\* No position id, or no proof of the close: halt.  A read that fails ends
\* the request without reaching the halt.
SettleFails ==
  /\ at = "settle" /\ on # NoDecision
  /\ \E h \in BOOLEAN : (~pid[on] => h) /\ halt' = (halt \/ h)
  /\ Return
  /\ UNCHANGED <<row, pid, broker, history>>

SettleEnds ==
  /\ at = "settle" /\ on = NoDecision /\ todo = {}
  /\ at' = "audit" /\ todo' = Protected
  /\ UNCHANGED <<journal, job, on, answer, broker, history>>

\* Every unsettled row is closed and every protected one verified.
Unlatch ==
  /\ at = "audit" /\ todo = {} /\ job = "reconcile"
  /\ halt' = FALSE /\ distrusted' = {}
  /\ Return
  /\ UNCHANGED <<row, pid, broker, crashes>>

-----------------------------------------------------------------------------
(* The trade server, the market and the agent's death.                     *)

\* An order whose answer was lost executes, or is refused, late.
Execute(d) ==
  /\ order[d] = "working"
  /\ \/ \E v \in 1..Lot : Fill(d, v, TRUE)
     \/ Leave(d, "refused")
  /\ UNCHANGED <<journal, call, sends, history>>

\* Stop, target, a close by hand or an emergency close that arrives late.
Exit(d) ==
  /\ vol[d] > 0
  /\ \E left \in 0..(vol[d] - 1) : vol' = [vol EXCEPT ![d] = left]
  /\ UNCHANGED <<journal, call, order, guarded, sends, history>>

\* Stops are edited or removed.
Disturb(d) ==
  /\ vol[d] > 0 /\ guarded[d]
  /\ guarded' = [guarded EXCEPT ![d] = FALSE]
  /\ UNCHANGED <<journal, call, order, vol, sends, history>>

Crash ==
  /\ at # "idle" /\ crashes < MaxCrashes
  /\ crashes' = crashes + 1 /\ distrusted' = distrusted \cup Unsettled
  /\ Return
  /\ UNCHANGED <<journal, broker>>

-----------------------------------------------------------------------------
Audit == AuditEnds \/ \E d \in Decision : AuditClosed(d) \/ AuditVerified(d) \/ AuditFails(d)
Emergency == Halt \/ EmergencyClose \/ CloseRow
Entry == Prepare \/ NotSubmitted \/ Send \/ OnRejected \/ OnUncertain \/ OnFilled
           \/ Verify \/ VerifyFails \/ Protect
Settling == SettleClosed \/ SettleFails \/ SettleEnds \/ Unlatch \/ \E d \in Decision : Settle(d)
Handler == Audit \/ Emergency \/ Entry \/ Settling

Next ==
  \/ \E d \in Decision : Submit(d) \/ Execute(d) \/ Exit(d) \/ Disturb(d)
  \/ Monitor \/ Reconcile \/ Handler \/ Crash

Spec == Init /\ [][Next]_vars

\* An entry point that holds the lock runs to its end: nothing in it waits.
\* asyncio.Lock serves its waiters in order, so the watchdog is not kept out
\* by requests.  Nothing is assumed of clients, the operator or the market.
FairSpec == Spec /\ WF_vars(Handler) /\ SF_vars(Monitor)
-----------------------------------------------------------------------------
(* Properties.                                                             *)

TypeOK ==
  /\ row \in [Decision -> {"none", "intent", "submitted", "protected", "unknown", "closed", "rejected"}]
  /\ pid \in [Decision -> BOOLEAN] /\ halt \in BOOLEAN
  /\ job \in {"none", "submit", "monitor", "reconcile"}
  /\ at \in {"idle", "audit", "settle", "halt", "close", "confirm", "open", "answered", "verify", "protect"}
  /\ on \in Decision \cup {NoDecision} /\ todo \in SUBSET Decision
  /\ answer \in {"none", "rejected", "lost", "doubt", "filled"}
  /\ order \in [Decision -> {"none", "working", "done", "refused"}]
  /\ vol \in [Decision -> 0..Lot] /\ guarded \in [Decision -> BOOLEAN]
  /\ sends \in [Decision -> Nat] /\ distrusted \in SUBSET Decision /\ crashes \in Nat

\* docs/MT5_EXECUTION_DIAGNOSTICS.md:52 "never resubmit an unknown decision":
\* one order_send per decision, however often clients submit it and however
\* often the agent dies.
SentAtMostOnce == \A d \in Decision : sends[d] <= 1

\* The two final states of a row are the truth for good: a rejected decision
\* never executes, a closed one has executed and its position is gone.
FinalIsTrue ==
  \A d \in Decision :
    /\ row[d] = "rejected" => order[d] \in {"none", "refused"}
    /\ row[d] = "closed" => order[d] = "done" /\ vol[d] = 0

\* When an entry is about to be sent, every position that is open or may
\* still come to be is one the journal calls protected.
EntersWithEyesOpen ==
  at = "open" =>
    \A d \in Decision : vol[d] > 0 \/ order[d] = "working" => row[d] = "protected"

\* engine.py:126 "Even confirmed emergency close never clears the persistent
\* halt": no entry is under way while a row that lost the engine's trust has
\* not been reconciled, also when the agent dies between marking the row and
\* storing the halt.
NoEntryWhileDistrusted ==
  at \in {"open", "answered", "verify", "protect"} => distrusted = {}

\* require_flat holds at the moment of the send, not only when it was asked.
FlatSentAlone ==
  [][\A d \in Flat : sends'[d] # sends[d] =>
       \A e \in Decision \ {d} : vol[e] = 0 /\ order[e] # "working"]_vars

\* The watchdog notices every protected position that is gone, reduced or no
\* longer what was verified.
DisturbanceNoticed ==
  \A d \in Decision : (row[d] = "protected" /\ (vol[d] # Lot \/ ~guarded[d])) ~> row[d] # "protected"

\* An entry is an order of OneShotOrder: pending until the journal knows its
\* position or calls it rejected.
Verdict ==
  [d \in Decision |-> CASE row[d] = "none"     -> "none"
                        [] row[d] = "rejected" -> "void"
                        [] pid[d]              -> "done"
                        [] OTHER               -> "pending"]
Effect == [d \in Decision |-> order[d] = "done"]
OneShot == INSTANCE OneShotOrder WITH Order <- Decision, verdict <- Verdict, effect <- Effect
ImplementsOneShotOrder == OneShot!Spec
-----------------------------------------------------------------------------
(* The strengthening that makes the safety properties inductive.           *)

\* An entry is under way; the engine is getting rid of a position.
Entering == {"open", "answered", "verify", "protect"}
Closing == {"close", "confirm"}

\* What the entry point that holds the lock may rely on.
CallInv ==
  /\ at \in Entering \cup Closing \cup {"halt"} => on \in Decision
  /\ at \in Entering => ~halt /\ Unsettled = {on} /\ distrusted = {}
  /\ at \in {"open", "answered"} => row[on] = "intent" /\ ~pid[on]
  /\ at \in {"verify", "protect"} => row[on] = "submitted"
  /\ at \in Closing \cup {"halt"} => row[on] = "unknown"
  /\ at \in Closing => halt /\ pid[on]

\* A submission reaches the audit only with nothing unsettled, a
\* reconciliation only once everything is settled.
LoopInv ==
  /\ at = "audit" =>
       /\ \A d \in todo : row[d] = "protected"
       /\ job \in {"submit", "reconcile", "monitor"}
       /\ job \in {"submit", "reconcile"} => Unsettled = {}
       /\ job = "submit" => on \in Decision /\ row[on] = "none" /\ ~halt /\ distrusted = {}
  /\ at = "settle" =>
       /\ job = "reconcile" /\ Unsettled \subseteq todo
       /\ \A d \in todo : row[d] \in {"intent", "submitted", "unknown"}
       /\ on # NoDecision => on \in todo /\ row[on] = "unknown"

\* The row of a decision against its order and position at the broker.
RowInv ==
  \A d \in Decision :
    /\ row[d] = "none" => order[d] = "none" /\ ~pid[d]
    /\ row[d] = "rejected" => order[d] \in {"none", "refused"} /\ ~pid[d]
    /\ row[d] \in {"submitted", "protected", "closed"} => pid[d]
    /\ row[d] = "closed" => vol[d] = 0
    /\ pid[d] => order[d] = "done"
    /\ vol[d] > 0 => order[d] = "done"
    /\ sends[d] = IF order[d] = "none" THEN 0 ELSE 1

\* The order of the entry under way.
OrderInv ==
  /\ at = "open" => order[on] = "none" /\ (on \in Flat => Open = {})
  /\ at = "answered" => answer \in {"rejected", "lost", "doubt", "filled"}
  /\ at = "answered" /\ answer = "rejected" => order[on] \in {"none", "refused"}
  /\ at = "answered" /\ answer \in {"doubt", "filled"} => order[on] = "done"

\* What keeps a distrusted row from being forgotten.
DistrustInv == halt \/ distrusted \subseteq Unsettled

\* The inductive invariant: journal, latch, entry point and broker agree on
\* what is outstanding.
EngineInv == TypeOK /\ CallInv /\ LoopInv /\ RowInv /\ OrderInv /\ DistrustInv
=============================================================================
