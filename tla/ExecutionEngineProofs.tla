------------------------ MODULE ExecutionEngineProofs ------------------------
(***************************************************************************)
(* Machine-checked facts about ExecutionEngine, for every set of           *)
(* decisions, every lot size and any number of deaths of the agent.        *)
(***************************************************************************)
EXTENDS ExecutionEngine, TLAPS

\* The states of a row the journal calls unsettled.
LEMMA UnsettledDef ==
  \A d \in Decision : d \in Unsettled <=> row[d] \in {"intent", "submitted", "unknown"}
BY DEF Unsettled

\* A write changes one row, and with it the membership of one decision.
LEMMA WriteRow ==
  ASSUME TypeOK, NEW d \in Decision, NEW s, Write(d, s)
  PROVE  /\ \A e \in Decision : row'[e] = IF e = d THEN s ELSE row[e]
         /\ Unsettled' = IF s \in {"intent", "submitted", "unknown"}
                         THEN Unsettled \cup {d} ELSE Unsettled \ {d}
<1>1. \A e \in Decision : row'[e] = IF e = d THEN s ELSE row[e]
  BY DEF TypeOK, Write
<1>2. QED BY <1>1 DEF Unsettled

\* One row of a Boolean column is set.
LEMMA SetFlag ==
  ASSUME NEW f \in [Decision -> BOOLEAN], NEW d \in Decision, NEW b \in BOOLEAN
  PROVE  [f EXCEPT ![d] = b] \in [Decision -> BOOLEAN]
BY Zenon

-----------------------------------------------------------------------------
(* Every action keeps the types.                                           *)

LEMMA InitType == Init => TypeOK
<1> SUFFICES ASSUME Init PROVE TypeOK
  OBVIOUS
<1>1. 0 \in 0..Lot
  BY EngineAssumption
<1>2. QED BY <1>1 DEF Init, TypeOK

JournalType ==
  /\ row \in [Decision -> {"none", "intent", "submitted", "protected", "unknown", "closed", "rejected"}]
  /\ pid \in [Decision -> BOOLEAN] /\ halt \in BOOLEAN

LEMMA JournalStep == TypeOK /\ CallInv /\ LoopInv /\ [Next]_vars => JournalType'
<1> SUFFICES ASSUME TypeOK, CallInv, LoopInv, [Next]_vars PROVE JournalType'
  OBVIOUS
<1> USE DEF TypeOK, JournalType
<1>w. ASSUME NEW d \in Decision, Write(d, "intent") \/ Write(d, "submitted") \/ Write(d, "protected")
                  \/ Write(d, "unknown") \/ Write(d, "closed") \/ Write(d, "rejected")
      PROVE  row' \in [Decision -> {"none", "intent", "submitted", "protected", "unknown", "closed", "rejected"}]
  BY <1>w DEF Write
<1>1. CASE UNCHANGED journal
  BY <1>1 DEF journal
<1>2. ASSUME NEW d \in Decision, AuditClosed(d) \/ AuditFails(d) \/ Settle(d) PROVE JournalType'
  BY <1>2, <1>w DEF AuditClosed, AuditFails, Settle, Distrust
<1>3. CASE Halt
  BY <1>3 DEF Halt, Latch
<1>4. CASE CloseRow \/ OnRejected \/ VerifyFails \/ Protect
  BY <1>4, <1>w DEF CloseRow, OnRejected, VerifyFails, Protect, Distrust, CallInv, Entering, Closing
<1>5. CASE Prepare
  BY <1>5, <1>w DEF Prepare, LoopInv
<1>6. CASE OnUncertain
  <2>1. on \in Decision /\ (answer = "doubt") \in BOOLEAN
    BY <1>6 DEF OnUncertain, CallInv, Entering
  <2>2. pid' \in [Decision -> BOOLEAN]
    BY <1>6, <2>1, SetFlag DEF OnUncertain
  <2>3. QED BY <1>6, <2>1, <2>2, <1>w DEF OnUncertain, Distrust
<1>7. CASE OnFilled
  BY <1>7, <1>w DEF OnFilled, CallInv, Entering
<1>8. CASE SettleClosed
  BY <1>8, <1>w DEF SettleClosed, LoopInv
<1>9. CASE SettleFails
  <2>1. halt' \in BOOLEAN
    BY <1>9, Zenon DEF SettleFails
  <2>2. QED BY <1>9, <2>1 DEF SettleFails
<1>10. CASE Unlatch
  BY <1>10 DEF Unlatch
<1>11. QED
  BY <1>1, <1>2, <1>3, <1>4, <1>5, <1>6, <1>7, <1>8, <1>9, <1>10
     DEF Next, Handler, Audit, Emergency, Entry, Settling, vars, Submit, Monitor, Reconcile, Execute,
         Exit, Disturb, Crash, AuditVerified, AuditEnds, EmergencyClose, NotSubmitted, Send, Verify,
         SettleEnds, journal

CallType ==
  /\ job \in {"none", "submit", "monitor", "reconcile"}
  /\ at \in {"idle", "audit", "settle", "halt", "close", "confirm", "open", "answered", "verify", "protect"}
  /\ on \in Decision \cup {NoDecision} /\ todo \in SUBSET Decision
  /\ answer \in {"none", "rejected", "lost", "doubt", "filled"}
  /\ distrusted \in SUBSET Decision /\ crashes \in Nat

LEMMA CallStep == TypeOK /\ CallInv /\ LoopInv /\ [Next]_vars => CallType'
<1> SUFFICES ASSUME TypeOK, CallInv, LoopInv, [Next]_vars PROVE CallType'
  OBVIOUS
<1>u. Unsettled \subseteq Decision /\ Protected \subseteq Decision
  BY DEF Unsettled, Protected
<1> USE DEF TypeOK, CallType, Enter, Return, Goto, Answer
<1>1. CASE UNCHANGED <<call, history>>
  BY <1>1 DEF call, history
<1>2. ASSUME NEW d \in Decision,
             Submit(d) \/ AuditClosed(d) \/ AuditVerified(d) \/ AuditFails(d) \/ Settle(d)
      PROVE CallType'
  BY <1>2, <1>u DEF Submit, AuditClosed, AuditVerified, AuditFails, Settle, Distrust, history
<1>3. CASE Monitor \/ Reconcile \/ AuditEnds \/ Halt \/ EmergencyClose \/ CloseRow
  BY <1>3, <1>u DEF Monitor, Reconcile, AuditEnds, Halt, EmergencyClose, CloseRow, history
<1>4. CASE Prepare \/ NotSubmitted \/ Send \/ OnRejected \/ OnFilled \/ Verify \/ Protect
  BY <1>4 DEF Prepare, NotSubmitted, Send, OnRejected, OnFilled, Verify, Protect, history
<1>5. CASE OnUncertain \/ VerifyFails
  BY <1>5 DEF OnUncertain, VerifyFails, Distrust, CallInv, Entering
<1>6. CASE SettleClosed \/ SettleFails \/ SettleEnds \/ Unlatch
  BY <1>6, <1>u DEF SettleClosed, SettleFails, SettleEnds, Unlatch, history
<1>7. CASE Crash
  BY <1>7, <1>u DEF Crash
<1>8. QED
  BY <1>1, <1>2, <1>3, <1>4, <1>5, <1>6, <1>7
     DEF Next, Handler, Audit, Emergency, Entry, Settling, vars, Execute, Exit, Disturb, call, history

BrokerType ==
  /\ order \in [Decision -> {"none", "working", "done", "refused"}]
  /\ vol \in [Decision -> 0..Lot] /\ guarded \in [Decision -> BOOLEAN]
  /\ sends \in [Decision -> Nat]

LEMMA BrokerStep == TypeOK /\ CallInv /\ [Next]_vars => BrokerType'
<1> SUFFICES ASSUME TypeOK, CallInv, [Next]_vars PROVE BrokerType'
  OBVIOUS
<1>v. \A d \in Decision : vol[d] \in Nat /\ 0..vol[d] \subseteq 0..Lot /\ 0..(vol[d] - 1) \subseteq 0..Lot
  BY EngineAssumption DEF TypeOK
<1>l. Lot \in 0..Lot /\ 1..Lot \subseteq 0..Lot
  BY EngineAssumption
<1> USE DEF TypeOK, BrokerType
<1>f. ASSUME NEW d \in Decision, NEW v \in 0..Lot, NEW g \in BOOLEAN, Fill(d, v, g)
      PROVE  /\ order' \in [Decision -> {"none", "working", "done", "refused"}]
             /\ vol' \in [Decision -> 0..Lot] /\ guarded' \in [Decision -> BOOLEAN]
  <2>1. guarded' \in [Decision -> BOOLEAN]
    BY <1>f, SetFlag DEF Fill
  <2>2. QED BY <1>f, <2>1 DEF Fill
<1>g. ASSUME NEW d \in Decision, NEW fate \in {"working", "refused"}, Leave(d, fate)
      PROVE  /\ order' \in [Decision -> {"none", "working", "done", "refused"}]
             /\ vol' \in [Decision -> 0..Lot] /\ guarded' \in [Decision -> BOOLEAN]
  BY <1>g DEF Leave
<1>1. CASE UNCHANGED broker
  BY <1>1 DEF broker
<1>2. CASE EmergencyClose
  <2>1. on \in Decision
    BY <1>2 DEF EmergencyClose, CallInv, Closing
  <2>2. QED BY <1>2, <2>1, <1>v DEF EmergencyClose, Remaining
<1>3. CASE Send
  <2>1. on \in Decision
    BY <1>3 DEF Send, CallInv, Entering
  <2>2. sends' \in [Decision -> Nat]
    BY <1>3, <2>1 DEF Send
  <2>3. /\ order' \in [Decision -> {"none", "working", "done", "refused"}]
        /\ vol' \in [Decision -> 0..Lot] /\ guarded' \in [Decision -> BOOLEAN]
    BY <1>3, <2>1, <1>f, <1>g, <1>l DEF Send
  <2>4. QED BY <2>2, <2>3
<1>4. CASE Verify
  BY <1>4, SetFlag DEF Verify, CallInv, Entering
<1>5. CASE VerifyFails
  <2>1. on \in Decision
    BY <1>5 DEF VerifyFails, CallInv, Entering
  <2>2. guarded' \in [Decision -> BOOLEAN]
    <3>1. PICK g \in BOOLEAN : guarded' = [guarded EXCEPT ![on] = guarded[on] \/ g]
      BY <1>5, Zenon DEF VerifyFails
    <3>2. (guarded[on] \/ g) \in BOOLEAN
      OBVIOUS
    <3>3. QED BY <2>1, <3>1, <3>2, SetFlag
  <2>3. QED BY <1>5, <2>2 DEF VerifyFails
<1>6. ASSUME NEW d \in Decision, Execute(d) PROVE BrokerType'
  <2>1. sends' = sends
    BY <1>6 DEF Execute
  <2>2. QED BY <1>6, <2>1, <1>f, <1>g, <1>l DEF Execute
<1>7. ASSUME NEW d \in Decision, Exit(d) PROVE BrokerType'
  BY <1>7, <1>v DEF Exit
<1>8. ASSUME NEW d \in Decision, Disturb(d) PROVE BrokerType'
  BY <1>8, SetFlag DEF Disturb
<1>9. QED
  BY <1>1, <1>2, <1>3, <1>4, <1>5, <1>6, <1>7, <1>8
     DEF Next, Handler, Audit, Emergency, Entry, Settling, vars, Submit, Monitor, Reconcile, Crash,
         AuditClosed, AuditVerified, AuditFails, AuditEnds, Halt, CloseRow, Prepare, NotSubmitted,
         OnRejected, OnUncertain, OnFilled, Protect, Settle, SettleClosed, SettleFails, SettleEnds, Unlatch

LEMMA StepType == TypeOK /\ CallInv /\ LoopInv /\ [Next]_vars => TypeOK'
BY JournalStep, CallStep, BrokerStep DEF TypeOK, JournalType, CallType, BrokerType

-----------------------------------------------------------------------------
(* Every action keeps what the entry points rely on.                       *)

LEMMA CallInvStep == TypeOK /\ CallInv /\ LoopInv /\ RowInv /\ [Next]_vars => CallInv'
<1> SUFFICES ASSUME TypeOK, CallInv, LoopInv, RowInv, [Next]_vars PROVE CallInv'
  OBVIOUS
<1>u. UNCHANGED row => UNCHANGED Unsettled
  BY DEF Unsettled
<1>r. ASSUME at' \in {"idle", "audit", "settle"} PROVE CallInv'
  BY <1>r DEF CallInv, Entering, Closing
<1>h. ASSUME NEW d \in Decision, Distrust(d), at' = "halt", on' = d PROVE CallInv'
  <2>1. row'[d] = "unknown"
    BY <1>h, WriteRow DEF Distrust
  <2>2. QED BY <1>h, <2>1 DEF CallInv, Entering, Closing
<1>1. CASE UNCHANGED <<row, pid, halt, at, on, distrusted>>
  BY <1>1, <1>u DEF CallInv, Entering, Closing
<1>2. ASSUME NEW d \in Decision,
             Submit(d) \/ AuditClosed(d) \/ AuditVerified(d) \/ Settle(d)
      PROVE CallInv'
  BY <1>2, <1>r DEF Submit, Enter, AuditClosed, AuditVerified, Settle
<1>3. CASE Monitor \/ Reconcile \/ AuditEnds \/ CloseRow \/ OnRejected \/ Protect
             \/ SettleClosed \/ SettleFails \/ SettleEnds \/ Unlatch \/ Crash
  BY <1>3, <1>r DEF Monitor, Reconcile, Enter, AuditEnds, CloseRow, OnRejected, Protect,
     SettleClosed, SettleFails, SettleEnds, Unlatch, Crash, Return
<1>4. ASSUME NEW d \in Decision, AuditFails(d) PROVE CallInv'
  BY <1>4, <1>h DEF AuditFails
<1>5. CASE Halt
  <2>1. CASE pid[on]
    BY <1>5, <2>1 DEF Halt, Latch, Goto, CallInv, Entering, Closing
  <2>2. CASE ~pid[on]
    BY <1>5, <2>2, <1>r DEF Halt, Return, Enter
  <2>3. QED BY <2>1, <2>2
<1>6. CASE EmergencyClose
  <2>1. CASE Return
    BY <2>1, <1>r DEF Return, Enter
  <2>2. CASE Goto("confirm")
    BY <1>6, <2>2 DEF EmergencyClose, Goto, journal, CallInv, Entering, Closing
  <2>3. QED BY <1>6, <2>1, <2>2 DEF EmergencyClose
<1>7. CASE Prepare
  <2>1. /\ on \in Decision /\ row[on] = "none" /\ ~halt /\ distrusted = {} /\ Unsettled = {}
        /\ ~pid[on] /\ UNCHANGED pid
    BY <1>7 DEF Prepare, LoopInv, RowInv
  <2>2. row'[on] = "intent" /\ Unsettled' = {on}
    BY <1>7, <2>1, WriteRow DEF Prepare
  <2>3. QED
    BY <1>7, <2>1, <2>2 DEF Prepare, Goto, history, CallInv, Entering, Closing
<1>8. CASE NotSubmitted \/ Send
  BY <1>8, <1>u DEF NotSubmitted, Send, Answer, journal, history, CallInv, Entering, Closing
<1>9. CASE OnUncertain
  <2>1. on \in Decision
    BY <1>9 DEF OnUncertain, CallInv, Entering
  <2>2. QED BY <1>9, <2>1, <1>h, <1>r DEF OnUncertain, Uncertain, Goto
<1>10. CASE OnFilled
  <2>1. on \in Decision /\ ~halt /\ Unsettled = {on} /\ distrusted = {}
    BY <1>10 DEF OnFilled, CallInv, Entering
  <2>2. row'[on] = "submitted" /\ Unsettled' = {on}
    BY <1>10, <2>1, WriteRow DEF OnFilled
  <2>3. QED BY <1>10, <2>1, <2>2 DEF OnFilled, Goto, history, CallInv, Entering, Closing
<1>11. CASE Verify
  BY <1>11, <1>u DEF Verify, Goto, journal, history, CallInv, Entering, Closing
<1>12. CASE VerifyFails
  BY <1>12, <1>h DEF VerifyFails, Goto, CallInv, Entering
<1>13. QED
  BY <1>1, <1>2, <1>3, <1>4, <1>5, <1>6, <1>7, <1>8, <1>9, <1>10, <1>11, <1>12
     DEF Next, Handler, Audit, Emergency, Entry, Settling, vars, Execute, Exit, Disturb,
         journal, call, history

LEMMA LoopStep == TypeOK /\ CallInv /\ LoopInv /\ DistrustInv /\ [Next]_vars => LoopInv'
<1> SUFFICES ASSUME TypeOK, CallInv, LoopInv, DistrustInv, [Next]_vars PROVE LoopInv'
  OBVIOUS
<1>u. UNCHANGED row => UNCHANGED Unsettled
  BY DEF Unsettled
<1>n. NoDecision \notin Decision
  BY EngineAssumption
<1>r. ASSUME at' \notin {"audit", "settle"} PROVE LoopInv'
  BY <1>r DEF LoopInv
<1>1. CASE UNCHANGED <<row, halt, job, at, on, todo, distrusted>>
  BY <1>1, <1>u DEF LoopInv
<1>2. ASSUME NEW d \in Decision, Submit(d) PROVE LoopInv'
  BY <1>2, <1>u DEF Submit, Enter, journal, history, Protected, Fresh, LoopInv, DistrustInv
<1>3. CASE Monitor
  BY <1>3 DEF Monitor, Enter, journal, Protected, LoopInv
<1>4. CASE Reconcile
  BY <1>4, <1>u DEF Reconcile, Enter, journal, Unsettled, LoopInv
<1>5. ASSUME NEW d \in Decision, AuditClosed(d) PROVE LoopInv'
  <2>1. /\ at = "audit" /\ d \in todo /\ Write(d, "closed") /\ todo' = todo \ {d}
        /\ UNCHANGED <<halt, job, at, on, distrusted>>
    BY <1>5 DEF AuditClosed, history
  <2>2. /\ \A e \in Decision : row'[e] = IF e = d THEN "closed" ELSE row[e]
        /\ Unsettled' = Unsettled \ {d}
    BY <2>1, WriteRow
  <2>3. row[d] = "protected" /\ todo \subseteq Decision
    BY <2>1 DEF LoopInv, TypeOK
  <2>4. job = "submit" => on \in Decision /\ on # d
    BY <2>1, <2>3 DEF LoopInv
  <2>5. QED BY <2>1, <2>2, <2>3, <2>4 DEF LoopInv
<1>6. ASSUME NEW d \in Decision, AuditVerified(d) PROVE LoopInv'
  BY <1>6, <1>u DEF AuditVerified, journal, history, LoopInv
<1>7. ASSUME NEW d \in Decision, AuditFails(d) PROVE LoopInv'
  BY <1>7, <1>r DEF AuditFails
<1>8. CASE AuditEnds \/ Halt \/ EmergencyClose \/ CloseRow \/ Unlatch \/ Crash \/ SettleFails
  BY <1>8, <1>r DEF AuditEnds, Halt, EmergencyClose, CloseRow, Unlatch, Crash, SettleFails,
     Return, Enter, Goto
<1>9. CASE Prepare \/ NotSubmitted \/ Send \/ OnRejected \/ OnUncertain \/ OnFilled
             \/ Verify \/ VerifyFails \/ Protect
  BY <1>9, <1>r DEF Prepare, NotSubmitted, Send, OnRejected, OnUncertain, OnFilled, Verify,
     VerifyFails, Protect, Return, Enter, Goto, Answer
<1>10. ASSUME NEW d \in Decision, Settle(d) PROVE LoopInv'
  <2>1. /\ at = "settle" /\ d \in todo /\ Write(d, "unknown") /\ on' = d
        /\ UNCHANGED <<job, at, todo>>
    BY <1>10 DEF Settle, Distrust
  <2>2. /\ \A e \in Decision : row'[e] = IF e = d THEN "unknown" ELSE row[e]
        /\ Unsettled' = Unsettled \cup {d}
    BY <2>1, WriteRow
  <2>3. QED BY <2>1, <2>2 DEF LoopInv, TypeOK
<1>11. CASE SettleClosed
  <2>1. /\ at = "settle" /\ on \in todo /\ on \in Decision
        /\ Write(on, "closed") /\ on' = NoDecision /\ todo' = todo \ {on}
        /\ UNCHANGED <<job, at>>
    BY <1>11 DEF SettleClosed, LoopInv, TypeOK
  <2>2. /\ \A e \in Decision : row'[e] = IF e = on THEN "closed" ELSE row[e]
        /\ Unsettled' = Unsettled \ {on}
    BY <2>1, WriteRow
  <2>3. QED BY <2>1, <2>2 DEF LoopInv, TypeOK
<1>12. CASE SettleEnds
  <2>1. /\ at' = "audit" /\ todo' = Protected /\ job' = "reconcile" /\ Unsettled = {}
        /\ UNCHANGED row
    BY <1>12 DEF SettleEnds, journal, LoopInv
  <2>2. QED BY <2>1, <1>u DEF Protected, LoopInv
<1>13. QED
  BY <1>1, <1>2, <1>3, <1>4, <1>5, <1>6, <1>7, <1>8, <1>9, <1>10, <1>11, <1>12
     DEF Next, Handler, Audit, Emergency, Entry, Settling, vars, Execute, Exit, Disturb,
         journal, call, history

LEMMA DistrustStep == TypeOK /\ CallInv /\ LoopInv /\ DistrustInv /\ [Next]_vars => DistrustInv'
<1> SUFFICES ASSUME TypeOK, CallInv, LoopInv, DistrustInv, [Next]_vars PROVE DistrustInv'
  OBVIOUS
<1>u. UNCHANGED row => UNCHANGED Unsettled
  BY DEF Unsettled
<1>d. ASSUME NEW d \in Decision, Distrust(d), UNCHANGED halt PROVE DistrustInv'
  <2>1. Unsettled' = Unsettled \cup {d} /\ distrusted' = distrusted \cup {d}
    BY <1>d, WriteRow DEF Distrust
  <2>2. QED BY <1>d, <2>1 DEF DistrustInv
<1>1. CASE UNCHANGED <<row, halt, distrusted>>
  BY <1>1, <1>u DEF DistrustInv
<1>2. ASSUME NEW d \in Decision, AuditClosed(d) PROVE DistrustInv'
  <2>1. /\ row[d] = "protected" /\ UNCHANGED <<halt, distrusted>>
    BY <1>2 DEF AuditClosed, LoopInv, history
  <2>2. Unsettled' = Unsettled \ {d} /\ d \notin Unsettled
    BY <1>2, <2>1, WriteRow, UnsettledDef DEF AuditClosed
  <2>3. QED BY <2>1, <2>2 DEF DistrustInv
<1>3. ASSUME NEW d \in Decision, AuditFails(d) \/ Settle(d) PROVE DistrustInv'
  BY <1>3, <1>d DEF AuditFails, Settle
<1>4. CASE Halt
  BY <1>4 DEF Halt, Latch, DistrustInv
<1>5. CASE CloseRow
  BY <1>5 DEF CloseRow, CallInv, Closing, DistrustInv
<1>6. CASE OnRejected \/ OnFilled \/ Protect \/ Prepare
  <2>1. distrusted = {}
    BY <1>6 DEF OnRejected, OnFilled, Protect, Prepare, CallInv, Entering, LoopInv
  <2>2. distrusted' = {}
    BY <1>6, <2>1 DEF OnRejected, OnFilled, Protect, Prepare, history
  <2>3. QED BY <2>2 DEF DistrustInv
<1>7. CASE OnUncertain \/ VerifyFails
  BY <1>7, <1>d DEF OnUncertain, VerifyFails, Uncertain, CallInv, Entering
<1>8. CASE SettleClosed
  <2>1. on \in Decision /\ Write(on, "closed") /\ distrusted' = distrusted \ {on} /\ UNCHANGED halt
    BY <1>8 DEF SettleClosed, TypeOK
  <2>2. Unsettled' = Unsettled \ {on}
    BY <2>1, WriteRow
  <2>3. QED BY <2>1, <2>2 DEF DistrustInv
<1>9. CASE SettleFails
  <2>1. (halt => halt') /\ UNCHANGED <<row, distrusted>>
    BY <1>9, Zenon DEF SettleFails, history
  <2>2. QED BY <2>1, <1>u DEF DistrustInv
<1>10. CASE Unlatch
  BY <1>10 DEF Unlatch, DistrustInv
<1>11. CASE Crash
  BY <1>11, <1>u DEF Crash, journal, DistrustInv
<1>12. QED
  BY <1>1, <1>2, <1>3, <1>4, <1>5, <1>6, <1>7, <1>8, <1>9, <1>10, <1>11
     DEF Next, Handler, Audit, Emergency, Entry, Settling, vars, Execute, Exit, Disturb, Submit,
         Monitor, Reconcile, AuditVerified, AuditEnds, EmergencyClose, NotSubmitted, Send, Verify,
         SettleEnds, journal, call, history

\* An order that may still execute belongs to an unsettled row.
LEMMA WorkingUnsettled ==
  ASSUME TypeOK, RowInv, NEW d \in Decision, order[d] = "working"
  PROVE  d \in Unsettled /\ ~pid[d] /\ vol[d] = 0
<1>1. ~pid[d] /\ row[d] \notin {"none", "rejected", "submitted", "protected", "closed"}
  BY DEF RowInv
<1>2. vol[d] \in 0..Lot /\ ~(vol[d] > 0)
  BY DEF RowInv, TypeOK
<1>3. QED BY <1>1, <1>2, EngineAssumption DEF Unsettled, TypeOK

LEMMA RowStep == TypeOK /\ CallInv /\ LoopInv /\ RowInv /\ OrderInv /\ [Next]_vars => RowInv'
<1> SUFFICES ASSUME TypeOK, CallInv, LoopInv, RowInv, OrderInv, [Next]_vars PROVE RowInv'
  OBVIOUS
<1>v. \A d \in Decision : vol[d] \in Nat
  BY EngineAssumption DEF TypeOK
<1>u. ASSUME NEW d \in Decision, Write(d, "unknown"), UNCHANGED <<pid, order, vol, sends>>
      PROVE  RowInv'
  BY <1>u, WriteRow DEF RowInv
<1>c. ASSUME NEW d \in Decision, Write(d, "closed"), ConfirmClosed(d),
             UNCHANGED <<pid, order, vol, sends>>
      PROVE  RowInv'
  BY <1>c, WriteRow DEF RowInv, ConfirmClosed
<1>1. CASE UNCHANGED <<row, pid, order, vol, sends>>
  BY <1>1 DEF RowInv
<1>2. ASSUME NEW d \in Decision, AuditClosed(d) PROVE RowInv'
  BY <1>2, <1>c DEF AuditClosed, broker
<1>3. ASSUME NEW d \in Decision, AuditFails(d) \/ Settle(d) PROVE RowInv'
  BY <1>3, <1>u DEF AuditFails, Settle, Distrust, broker
<1>4. CASE EmergencyClose
  <2>1. on \in Decision /\ row[on] = "unknown"
    BY <1>4 DEF EmergencyClose, CallInv, Closing
  <2>2. PICK left \in 0..vol[on] : vol' = [vol EXCEPT ![on] = left]
    BY <1>4 DEF EmergencyClose, Remaining
  <2>3. \A e \in Decision : vol'[e] > 0 => vol[e] > 0
    BY <1>v, <2>1, <2>2 DEF TypeOK
  <2>4. \A e \in Decision : e # on => vol'[e] = vol[e]
    BY <2>2 DEF TypeOK
  <2>5. QED BY <1>4, <2>1, <2>3, <2>4 DEF EmergencyClose, journal, RowInv
<1>5. CASE CloseRow
  BY <1>5, <1>c DEF CloseRow, broker, CallInv, Closing
<1>6. CASE Prepare
  <2>1. on \in Decision /\ Write(on, "intent") /\ row[on] = "none"
    BY <1>6 DEF Prepare, LoopInv
  <2>2. QED BY <1>6, <2>1, WriteRow DEF Prepare, broker, RowInv
<1>7. CASE Send
  <2>1. on \in Decision /\ row[on] = "intent" /\ ~pid[on] /\ order[on] = "none" /\ sends[on] = 0
    BY <1>7 DEF Send, CallInv, Entering, OrderInv, RowInv
  <2>2. sends'[on] = 1 /\ \A e \in Decision : e # on => sends'[e] = sends[e]
    BY <1>7, <2>1 DEF Send, TypeOK
  <2>3. /\ \A e \in Decision : e # on => order'[e] = order[e] /\ vol'[e] = vol[e]
        /\ order'[on] \in {"working", "refused", "done"}
        /\ vol'[on] > 0 => order'[on] = "done"
    <3>1. \/ \E fate \in {"working", "refused"} : Leave(on, fate)
          \/ \E v \in 1..Lot, g \in BOOLEAN : Fill(on, v, g)
      BY <1>7, EngineAssumption DEF Send
    <3>2. ASSUME NEW fate \in {"working", "refused"}, Leave(on, fate)
          PROVE  <2>3!1 /\ <2>3!2 /\ <2>3!3
      BY <3>2, <2>1 DEF Leave, TypeOK, RowInv
    <3>3. ASSUME NEW v \in 1..Lot, NEW g \in BOOLEAN, Fill(on, v, g)
          PROVE  <2>3!1 /\ <2>3!2 /\ <2>3!3
      BY <3>3, <2>1 DEF Fill, TypeOK
    <3>4. QED BY <3>1, <3>2, <3>3
  <2>4. QED BY <1>7, <2>1, <2>2, <2>3 DEF Send, journal, RowInv
<1>8. CASE OnRejected
  <2>1. on \in Decision /\ Write(on, "rejected") /\ ~pid[on] /\ order[on] \in {"none", "refused"}
    BY <1>8 DEF OnRejected, CallInv, Entering, OrderInv
  <2>2. QED BY <1>8, <2>1, WriteRow DEF OnRejected, broker, RowInv
<1>9. CASE OnUncertain
  <2>1. /\ on \in Decision /\ Write(on, "unknown") /\ pid' = [pid EXCEPT ![on] = answer = "doubt"]
        /\ answer = "doubt" => order[on] = "done"
    BY <1>9 DEF OnUncertain, Uncertain, Distrust, CallInv, Entering, OrderInv
  <2>2. /\ \A e \in Decision : e # on => pid'[e] = pid[e]
        /\ pid'[on] => order[on] = "done"
    BY <2>1, Zenon DEF TypeOK
  <2>3. QED BY <1>9, <2>1, <2>2, WriteRow DEF OnUncertain, broker, RowInv
<1>10. CASE OnFilled
  <2>1. on \in Decision /\ Write(on, "submitted") /\ order[on] = "done"
    BY <1>10 DEF OnFilled, CallInv, Entering, OrderInv
  <2>2. /\ \A e \in Decision : e # on => pid'[e] = pid[e]
        /\ pid'[on]
    BY <1>10, <2>1, Zenon DEF OnFilled, TypeOK
  <2>3. QED BY <1>10, <2>1, <2>2, WriteRow DEF OnFilled, broker, RowInv
<1>11. CASE VerifyFails
  BY <1>11, <1>u DEF VerifyFails, Distrust, CallInv, Entering
<1>12. CASE Protect
  <2>1. on \in Decision /\ Write(on, "protected") /\ row[on] = "submitted"
    BY <1>12 DEF Protect, CallInv, Entering
  <2>2. QED BY <1>12, <2>1, WriteRow DEF Protect, broker, RowInv
<1>13. CASE SettleClosed
  BY <1>13, <1>c DEF SettleClosed, broker, TypeOK
<1>14. ASSUME NEW d \in Decision, Execute(d) PROVE RowInv'
  <2>1. d \in Unsettled /\ ~pid[d] /\ vol[d] = 0
    BY <1>14, WorkingUnsettled DEF Execute
  <2>2. row[d] \in {"intent", "submitted", "unknown"}
    BY <2>1, UnsettledDef
  <2>3. /\ \A e \in Decision : e # d => order'[e] = order[e] /\ vol'[e] = vol[e]
        /\ order'[d] \in {"refused", "done"}
        /\ vol'[d] > 0 => order'[d] = "done"
    BY <1>14, <2>1 DEF Execute, Fill, Leave, TypeOK
  <2>4. QED BY <1>14, <2>1, <2>2, <2>3 DEF Execute, journal, RowInv
<1>15. ASSUME NEW d \in Decision, Exit(d) PROVE RowInv'
  <2>1. PICK left \in 0..(vol[d] - 1) : vol' = [vol EXCEPT ![d] = left]
    BY <1>15 DEF Exit
  <2>2. \A e \in Decision : (vol'[e] > 0 => vol[e] > 0) /\ (vol[e] = 0 => vol'[e] = 0)
    BY <1>15, <1>v, <2>1 DEF Exit, TypeOK
  <2>3. QED BY <1>15, <2>2 DEF Exit, journal, RowInv
<1>16. QED
  BY <1>1, <1>2, <1>3, <1>4, <1>5, <1>6, <1>7, <1>8, <1>9, <1>10, <1>11, <1>12, <1>13, <1>14, <1>15
     DEF Next, Handler, Audit, Emergency, Entry, Settling, vars, Disturb, Submit, Monitor, Reconcile,
         AuditVerified, AuditEnds, Halt, NotSubmitted, Verify, SettleFails, SettleEnds, Unlatch,
         Crash, journal, broker

LEMMA OrderStep == TypeOK /\ CallInv /\ LoopInv /\ RowInv /\ OrderInv /\ [Next]_vars => OrderInv'
<1> SUFFICES ASSUME TypeOK, CallInv, LoopInv, RowInv, OrderInv, [Next]_vars PROVE OrderInv'
  OBVIOUS
<1>r. ASSUME at' \notin {"open", "answered"} PROVE OrderInv'
  BY <1>r DEF OrderInv
<1>1. CASE UNCHANGED <<at, on, answer, order, vol>>
  BY <1>1 DEF OrderInv, Open
<1>2. ASSUME NEW d \in Decision,
             Submit(d) \/ AuditClosed(d) \/ AuditVerified(d) \/ AuditFails(d) \/ Settle(d)
      PROVE OrderInv'
  BY <1>2, <1>r DEF Submit, AuditClosed, AuditVerified, AuditFails, Settle, Enter
<1>3. CASE Monitor \/ Reconcile \/ AuditEnds \/ Halt \/ EmergencyClose \/ CloseRow
             \/ SettleClosed \/ SettleFails \/ SettleEnds \/ Unlatch \/ Crash
  BY <1>3, <1>r DEF Monitor, Reconcile, AuditEnds, Halt, EmergencyClose, CloseRow, SettleClosed,
     SettleFails, SettleEnds, Unlatch, Crash, Return, Enter, Goto
<1>4. CASE OnRejected \/ OnUncertain \/ OnFilled \/ Verify \/ VerifyFails \/ Protect
  BY <1>4, <1>r DEF OnRejected, OnUncertain, OnFilled, Verify, VerifyFails, Protect,
     Return, Enter, Goto
<1>5. CASE Prepare
  <2>1. on \in Decision /\ row[on] = "none" /\ UNCHANGED <<on, order, vol>> /\ at' = "open"
    BY <1>5 DEF Prepare, LoopInv, Goto, broker
  <2>2. order[on] = "none" /\ (on \in Flat => Open = {})
    BY <1>5, <2>1 DEF Prepare, AccountAllows, RowInv
  <2>3. QED BY <2>1, <2>2 DEF OrderInv, Open
<1>6. CASE NotSubmitted
  BY <1>6 DEF NotSubmitted, Answer, broker, OrderInv
<1>7. CASE Send
  <2>1. on \in Decision /\ at' = "answered" /\ on' = on
    BY <1>7 DEF Send, Answer, CallInv, Entering
  <2>2. /\ answer' \in {"rejected", "lost", "doubt", "filled"}
        /\ answer' = "rejected" => Leave(on, "refused")
        /\ answer' \in {"doubt", "filled"} => \E v \in 0..Lot, g \in BOOLEAN : Fill(on, v, g)
    BY <1>7, EngineAssumption DEF Send, Answer
  <2>3. /\ answer' = "rejected" => order'[on] = "refused"
        /\ answer' \in {"doubt", "filled"} => order'[on] = "done"
    BY <2>1, <2>2 DEF Leave, Fill, TypeOK
  <2>4. QED BY <2>1, <2>2, <2>3 DEF OrderInv
<1>8. ASSUME NEW d \in Decision, Execute(d) PROVE OrderInv'
  <2>1. order[d] = "working" /\ d \in Unsettled /\ UNCHANGED <<at, on, answer>>
    BY <1>8, WorkingUnsettled DEF Execute, call
  <2>2. \A e \in Decision : e # d => order'[e] = order[e]
    BY <1>8 DEF Execute, Fill, Leave, TypeOK
  <2>3. CASE at = "open"
    BY <2>1, <2>3 DEF CallInv, Entering, OrderInv
  <2>4. CASE at = "answered"
    <3>1. on \in Decision
      BY <2>4 DEF CallInv, Entering
    <3>2. QED BY <2>1, <2>2, <2>4, <3>1 DEF OrderInv
  <2>5. QED BY <2>1, <2>3, <2>4, <1>r
<1>9. ASSUME NEW d \in Decision, Exit(d) PROVE OrderInv'
  <2>1. d \in Open /\ UNCHANGED <<at, on, answer, order>>
    BY <1>9 DEF Exit, Open, call
  <2>2. at = "open" => on \notin Flat
    BY <2>1 DEF OrderInv
  <2>3. QED BY <2>1, <2>2 DEF OrderInv
<1>10. QED
  BY <1>1, <1>2, <1>3, <1>4, <1>5, <1>6, <1>7, <1>8, <1>9
     DEF Next, Handler, Audit, Emergency, Entry, Settling, vars, Disturb, call, broker

-----------------------------------------------------------------------------
LEMMA InitInv == Init => EngineInv
<1> SUFFICES ASSUME Init PROVE EngineInv
  OBVIOUS
<1>1. TypeOK
  BY InitType
<1>2. CallInv /\ LoopInv /\ OrderInv /\ DistrustInv
  BY DEF Init, CallInv, LoopInv, OrderInv, DistrustInv, Entering, Closing
<1>3. ASSUME NEW d \in Decision
      PROVE  /\ row[d] = "none" /\ ~pid[d] /\ order[d] = "none"
             /\ vol[d] = 0 /\ ~(vol[d] > 0) /\ sends[d] = 0
  BY DEF Init
<1>4. RowInv
  BY <1>3 DEF RowInv
<1>5. QED BY <1>1, <1>2, <1>4 DEF EngineInv

LEMMA StepInv == EngineInv /\ [Next]_vars => EngineInv'
BY StepType, CallInvStep, LoopStep, RowStep, OrderStep, DistrustStep DEF EngineInv

\* The inductive invariant: journal, halt latch, the entry point that holds
\* the lock and the broker agree on what is outstanding, through every crash,
\* lost answer and late execution.
THEOREM EngineAgreement == Spec => []EngineInv
<1>1. Init => EngineInv
  BY InitInv
<1>2. EngineInv /\ [Next]_vars => EngineInv'
  BY StepInv
<1>3. QED BY <1>1, <1>2, PTL DEF Spec

\* Every variable keeps its type.
THEOREM EngineTypes == Spec => []TypeOK
<1>1. EngineInv => TypeOK
  BY DEF EngineInv
<1>2. QED BY <1>1, EngineAgreement, PTL

\* No decision is sent twice, whoever submits it again and whenever the agent
\* dies.
THEOREM EngineSendsOnce == Spec => []SentAtMostOnce
<1>1. EngineInv => SentAtMostOnce
  <2>1. ASSUME RowInv, NEW d \in Decision PROVE sends[d] <= 1
    <3>1. sends[d] = 0 \/ sends[d] = 1
      BY <2>1 DEF RowInv
    <3>2. QED BY <3>1
  <2>2. QED BY <2>1 DEF EngineInv, SentAtMostOnce
<1>2. QED BY <1>1, EngineAgreement, PTL

\* Rejected decisions never execute, closed ones have executed and are gone.
THEOREM EngineFinalIsTrue == Spec => []FinalIsTrue
<1>1. EngineInv => FinalIsTrue
  BY DEF EngineInv, RowInv, FinalIsTrue
<1>2. QED BY <1>1, EngineAgreement, PTL

\* When an entry is sent, every other position that is open or may come to be
\* is protected in the journal.
THEOREM EngineSeesAll == Spec => []EntersWithEyesOpen
<1>1. ASSUME EngineInv, at = "open", NEW d \in Decision, vol[d] > 0 \/ order[d] = "working"
      PROVE  row[d] = "protected"
  <2>1. Unsettled = {on} /\ order[on] = "none"
    BY <1>1 DEF EngineInv, CallInv, Entering, OrderInv
  <2>2. order[d] \in {"working", "done"}
    BY <1>1 DEF EngineInv, RowInv
  <2>3. d \notin Unsettled
    BY <2>1, <2>2
  <2>4. row[d] \notin {"intent", "submitted", "unknown"}
    BY <2>3, UnsettledDef
  <2>5. row[d] \notin {"none", "rejected"}
    BY <1>1, <2>2 DEF EngineInv, RowInv
  <2>6. row[d] # "closed"
    <3>1. row[d] = "closed" => pid[d] /\ order[d] = "done" /\ vol[d] = 0
      BY <1>1 DEF EngineInv, RowInv
    <3>2. QED BY <1>1, <3>1
  <2>7. QED BY <1>1, <2>4, <2>5, <2>6 DEF EngineInv, TypeOK
<1>2. EngineInv => EntersWithEyesOpen
  BY <1>1 DEF EntersWithEyesOpen
<1>3. QED BY <1>2, EngineAgreement, PTL

\* No entry is under way while a row that lost the engine's trust is not
\* reconciled.
THEOREM EngineStaysLatched == Spec => []NoEntryWhileDistrusted
<1>1. EngineInv => NoEntryWhileDistrusted
  BY DEF EngineInv, CallInv, Entering, NoEntryWhileDistrusted
<1>2. QED BY <1>1, EngineAgreement, PTL

\* A signal that requires a flat account is sent on a flat account.
THEOREM EngineFlatAlone == Spec => FlatSentAlone
<1>1. ASSUME EngineInv, [Next]_vars, NEW d \in Flat, sends'[d] # sends[d],
             NEW e \in Decision \ {d}
      PROVE  vol[e] = 0 /\ order[e] # "working"
  <2>1. d \in Decision
    BY EngineAssumption
  <2>2. Send
    BY <1>1 DEF Next, Handler, Audit, Emergency, Entry, Settling, vars, Submit, Execute, Exit,
       Disturb, Monitor, Reconcile, Crash, AuditClosed, AuditVerified, AuditFails, AuditEnds, Halt,
       EmergencyClose, CloseRow, Prepare, NotSubmitted, OnRejected, OnUncertain, OnFilled, Verify,
       VerifyFails, Protect, Settle, SettleClosed, SettleFails, SettleEnds, Unlatch, broker
  <2>3. at = "open" /\ d = on
    BY <1>1, <2>1, <2>2 DEF Send, EngineInv, TypeOK
  <2>4. Open = {} /\ Unsettled = {on}
    BY <1>1, <2>3 DEF EngineInv, OrderInv, CallInv, Entering
  <2>5. vol[e] = 0
    <3>1. vol[e] \in 0..Lot /\ ~(vol[e] > 0)
      BY <1>1, <2>4 DEF Open, EngineInv, TypeOK
    <3>2. QED BY <3>1, EngineAssumption
  <2>6. order[e] # "working"
    BY <1>1, <2>3, <2>4, WorkingUnsettled DEF EngineInv
  <2>7. QED BY <2>5, <2>6
<1>2. EngineInv /\ [Next]_vars =>
        [\A d \in Flat : sends'[d] # sends[d] =>
           \A e \in Decision \ {d} : vol[e] = 0 /\ order[e] # "working"]_vars
  BY <1>1
<1>3. QED BY <1>2, EngineAgreement, PTL DEF Spec, FlatSentAlone

-----------------------------------------------------------------------------
(* The engine implements the one-shot order.                               *)

LEMMA InitVerdict == Init => OneShot!Init
<1> SUFFICES ASSUME Init PROVE OneShot!Init
  OBVIOUS
<1>1. \A d \in Decision : Verdict[d] = "none" /\ ~Effect[d]
  BY DEF Init, Verdict, Effect
<1>2. Verdict \in [Decision -> {"none", "done"}]
  BY <1>1 DEF Verdict
<1>3. Effect = [d \in Decision |-> Verdict[d] = "done"]
  BY <1>1, Zenon DEF Effect
<1>4. QED BY <1>2, <1>3 DEF OneShot!Init

\* What a verdict and an effect stand for.
LEMMA VerdictOf ==
  ASSUME TypeOK, RowInv, NEW d \in Decision
  PROVE  /\ Verdict[d] = "none" <=> row[d] = "none"
         /\ Verdict[d] = "pending" => d \in Unsettled
         /\ row[d] = "intent" /\ ~pid[d] => Verdict[d] = "pending"
         /\ Effect[d] <=> order[d] = "done"
<1>1. /\ Verdict[d] = "none" <=> row[d] = "none"
      /\ Verdict[d] = "pending" => d \in Unsettled
      /\ row[d] = "intent" /\ ~pid[d] => Verdict[d] = "pending"
  BY DEF Verdict, TypeOK, RowInv, Unsettled
<1>2. Effect[d] <=> order[d] = "done"
  BY Zenon DEF Effect
<1>3. QED BY <1>1, <1>2

\* Writes that leave every verdict alone.
LEMMA SameVerdict ==
  /\ UNCHANGED <<row, pid>> => UNCHANGED Verdict
  /\ UNCHANGED order => UNCHANGED Effect
BY DEF Verdict, Effect

\* A row whose decision is neither fresh nor rejected moves within its verdict.
LEMMA VerdictKept ==
  ASSUME TypeOK, NEW d \in Decision, row[d] \notin {"none", "rejected"},
         NEW s \in {"submitted", "protected", "unknown", "closed"}, Write(d, s), UNCHANGED pid
  PROVE  UNCHANGED Verdict
<1>1. \A e \in Decision : e # d => row'[e] = row[e]
  BY DEF Write, TypeOK
<1>2. row'[d] = s
  BY DEF Write, TypeOK
<1>3. QED BY <1>1, <1>2 DEF Verdict

\* The row of an entry moves its verdict.
LEMMA VerdictMoved ==
  ASSUME TypeOK, NEW d \in Decision, NEW s \in {"intent", "rejected", "submitted", "unknown"},
         Write(d, s), NEW p \in BOOLEAN, s = "rejected" => ~p, pid' = [pid EXCEPT ![d] = p]
  PROVE  Verdict' = [Verdict EXCEPT ![d] = IF s = "rejected" THEN "void"
                                           ELSE IF p THEN "done" ELSE "pending"]
<1>1. \A e \in Decision : e # d => row'[e] = row[e] /\ pid'[e] = pid[e]
  BY DEF Write, TypeOK
<1>2. row'[d] = s /\ pid'[d] = p
  BY DEF Write, TypeOK
<1> DEFINE v == IF s = "rejected" THEN "void" ELSE IF p THEN "done" ELSE "pending"
<1>3. Verdict'[d] = v
  <2>1. CASE s = "rejected"
    <3>1. row'[d] = "rejected" /\ ~pid'[d]
      BY <1>2, <2>1
    <3>2. Verdict'[d] = "void"
      BY <3>1 DEF Verdict
    <3>3. QED BY <2>1, <3>2
  <2>2. CASE s # "rejected" /\ p
    <3>1. s # "rejected" /\ row'[d] = s /\ s # "none"
      BY <1>2, <2>2
    <3>2. pid'[d]
      BY <1>2, <2>2, Zenon
    <3>3. Verdict'[d] = "done"
      BY <3>1, <3>2 DEF Verdict
    <3>4. QED BY <2>2, <3>3
  <2>3. CASE s # "rejected" /\ ~p
    BY <1>2, <2>3 DEF Verdict
  <2>4. QED BY <2>1, <2>2, <2>3
<1>4. \A e \in Decision : e # d => Verdict'[e] = Verdict[e]
  BY <1>1 DEF Verdict
<1>5. Verdict' = [e \in Decision |-> Verdict'[e]] /\ Verdict = [e \in Decision |-> Verdict[e]]
  BY DEF Verdict
<1> HIDE DEF v
<1>6. Verdict' = [Verdict EXCEPT ![d] = v]
  BY <1>3, <1>4, <1>5
<1>7. QED BY <1>6 DEF v

\* What an order becomes moves its effect.
LEMMA EffectMoved ==
  ASSUME TypeOK, NEW d \in Decision, NEW s \in {"working", "refused", "done"},
         order[d] # "done", order' = [order EXCEPT ![d] = s]
  PROVE  IF s = "done" THEN Effect' = [Effect EXCEPT ![d] = TRUE] ELSE UNCHANGED Effect
<1>1. \A e \in Decision : (order'[e] = "done") <=> (order[e] = "done" \/ (e = d /\ s = "done"))
  BY DEF TypeOK
<1>2. CASE s = "done"
  <2>1. Effect' = [e \in Decision |-> order[e] = "done" \/ e = d]
    BY <1>1, <1>2, Zenon DEF Effect
  <2>2. Effect' = [Effect EXCEPT ![d] = TRUE]
    BY <2>1, Zenon DEF Effect
  <2>3. QED BY <1>2, <2>2
<1>3. CASE s # "done"
  <2>1. \A e \in Decision : (order'[e] = "done") <=> (order[e] = "done")
    BY <1>1, <1>3
  <2>2. Effect' = Effect
    BY <2>1, Zenon DEF Effect
  <2>3. QED BY <1>3, <2>2
<1>4. QED BY <1>2, <1>3

LEMMA OneShotStep == ASSUME EngineInv, [Next]_vars PROVE [OneShot!Next]_(OneShot!vars)
<1> USE DEF EngineInv
<1>1. CASE UNCHANGED <<row, pid, order>>
  BY <1>1, SameVerdict DEF OneShot!vars
\* A row that is neither fresh nor rejected is written without settling it.
<1>k. ASSUME NEW d \in Decision, row[d] \notin {"none", "rejected"},
             NEW s \in {"submitted", "protected", "unknown", "closed"}, Write(d, s),
             UNCHANGED <<pid, order>>
      PROVE  UNCHANGED OneShot!vars
  BY <1>k, VerdictKept, SameVerdict DEF OneShot!vars
<1>2. ASSUME NEW d \in Decision, AuditClosed(d) \/ AuditFails(d) \/ Settle(d)
      PROVE  UNCHANGED OneShot!vars
  BY <1>2, <1>k DEF AuditClosed, AuditFails, Settle, Distrust, LoopInv, broker
<1>3. CASE CloseRow \/ SettleClosed \/ VerifyFails \/ Protect
  BY <1>3, <1>k DEF CloseRow, SettleClosed, VerifyFails, Protect, Distrust, Closing, Entering,
     CallInv, LoopInv, TypeOK, broker
<1>4. CASE Prepare
  <2>1. on \in Decision /\ row[on] = "none" /\ Unsettled = {} /\ pid' = pid /\ ~pid[on]
    BY <1>4 DEF Prepare, LoopInv, RowInv
  <2>2. pid' = [pid EXCEPT ![on] = FALSE] /\ Write(on, "intent") /\ UNCHANGED order
    BY <1>4, <2>1 DEF Prepare, TypeOK, broker
  <2>3. Verdict' = [Verdict EXCEPT ![on] = "pending"] /\ UNCHANGED Effect
    BY <2>1, <2>2, VerdictMoved, SameVerdict
  <2>4. \A d \in Decision : Verdict[d] # "pending"
    BY <2>1, VerdictOf
  <2>5. Verdict[on] = "none"
    BY <2>1, VerdictOf
  <2>6. QED BY <2>1, <2>3, <2>4, <2>5 DEF OneShot!Next, OneShot!Attempt
<1>e. ASSUME at \in {"open", "answered"} PROVE on \in Decision /\ row[on] = "intent" /\ ~pid[on]
  BY <1>e DEF CallInv, Entering
<1>5. CASE Send
  <2>1. /\ on \in Decision /\ order[on] = "none" /\ row[on] = "intent" /\ ~pid[on]
        /\ UNCHANGED <<row, pid>>
    BY <1>5, <1>e DEF Send, OrderInv, journal
  <2>2. \E s \in {"working", "refused", "done"} : order' = [order EXCEPT ![on] = s]
    BY <1>5 DEF Send, Leave, Fill
  <2>3. QED BY <2>1, <2>2, EffectMoved, SameVerdict, VerdictOf
            DEF OneShot!vars, OneShot!Next, OneShot!TakeEffect
<1>6. ASSUME NEW d \in Decision, Execute(d) PROVE [OneShot!Next]_(OneShot!vars)
  <2>1. order[d] = "working" /\ UNCHANGED <<row, pid>>
    BY <1>6 DEF Execute, journal
  <2>2. d \in Unsettled /\ ~pid[d] /\ Verdict[d] = "pending"
    <3>1. d \in Unsettled /\ ~pid[d]
      BY <2>1, WorkingUnsettled DEF RowInv
    <3>2. QED BY <3>1 DEF Verdict, Unsettled
  <2>3. \E s \in {"refused", "done"} : order' = [order EXCEPT ![d] = s]
    BY <1>6 DEF Execute, Leave, Fill
  <2>4. QED BY <2>1, <2>2, <2>3, EffectMoved, SameVerdict, VerdictOf
            DEF OneShot!vars, OneShot!Next, OneShot!TakeEffect
\* The answer settles a decision that is pending.
<1>7. CASE OnRejected
  <2>1. /\ on \in Decision /\ row[on] = "intent" /\ ~pid[on] /\ order[on] # "done"
        /\ Write(on, "rejected") /\ pid' = pid /\ UNCHANGED order
    BY <1>7, <1>e DEF OnRejected, OrderInv, broker
  <2>2. pid' = [pid EXCEPT ![on] = FALSE]
    BY <2>1 DEF TypeOK
  <2>3. Verdict' = [Verdict EXCEPT ![on] = "void"] /\ UNCHANGED Effect
    BY <2>1, <2>2, VerdictMoved, SameVerdict
  <2>4. QED BY <2>1, <2>3, VerdictOf DEF OneShot!Next, OneShot!Abandon
<1>8. CASE OnUncertain
  <2>1. /\ on \in Decision /\ row[on] = "intent" /\ ~pid[on]
        /\ Write(on, "unknown") /\ pid' = [pid EXCEPT ![on] = answer = "doubt"] /\ UNCHANGED order
        /\ answer = "doubt" => order[on] = "done"
    BY <1>8, <1>e DEF OnUncertain, Uncertain, Distrust, OrderInv, broker
  <2>2. Verdict' = [Verdict EXCEPT ![on] = IF answer = "doubt" THEN "done" ELSE "pending"]
    <3>1. (answer = "doubt") \in BOOLEAN
      OBVIOUS
    <3>2. QED BY <2>1, <3>1, VerdictMoved
  <2>3. Verdict[on] = "pending" /\ UNCHANGED Effect
    BY <2>1, VerdictOf, SameVerdict
  <2>4. CASE answer = "doubt"
    BY <2>1, <2>2, <2>3, <2>4, VerdictOf DEF OneShot!Next, OneShot!Acknowledge
  <2>5. CASE answer # "doubt"
    <3>1. Verdict' = Verdict
      BY <2>2, <2>3, <2>5 DEF Verdict
    <3>2. QED BY <2>3, <3>1 DEF OneShot!vars
  <2>6. QED BY <2>4, <2>5
<1>9. CASE OnFilled
  <2>1. /\ on \in Decision /\ row[on] = "intent" /\ ~pid[on] /\ order[on] = "done"
        /\ Write(on, "submitted") /\ pid' = [pid EXCEPT ![on] = TRUE] /\ UNCHANGED order
    BY <1>9, <1>e DEF OnFilled, OrderInv, broker
  <2>2. Verdict' = [Verdict EXCEPT ![on] = "done"] /\ UNCHANGED Effect
    BY <2>1, VerdictMoved, SameVerdict
  <2>3. QED BY <2>1, <2>2, VerdictOf DEF OneShot!Next, OneShot!Acknowledge
<1>10. QED
  BY <1>1, <1>2, <1>3, <1>4, <1>5, <1>6, <1>7, <1>8, <1>9
     DEF Next, Handler, Audit, Emergency, Entry, Settling, vars, journal, broker, Submit, Monitor,
         Reconcile, AuditVerified, AuditEnds, Halt, EmergencyClose, NotSubmitted, Verify,
         SettleFails, SettleEnds, Unlatch, Exit, Disturb, Crash

\* The engine implements the one-shot order: repeated submissions, crashes,
\* lost answers and late executions included.
THEOREM EngineIsOneShot == Spec => ImplementsOneShotOrder
<1>1. Init => OneShot!Init
  BY InitVerdict
<1>2. EngineInv /\ [Next]_vars => [OneShot!Next]_(OneShot!vars)
  BY OneShotStep
<1>3. QED
  BY <1>1, <1>2, EngineAgreement, PTL DEF Spec, ImplementsOneShotOrder, OneShot!Spec
=============================================================================
