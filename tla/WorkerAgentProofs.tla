-------------------------- MODULE WorkerAgentProofs --------------------------
(***************************************************************************)
(* Proofs about WorkerAgent: the composition keeps every promise of the    *)
(* engine, and what the worker believes, posts and holds open is right.    *)
(***************************************************************************)
EXTENDS WorkerAgent, ExecutionEngineProofs

-----------------------------------------------------------------------------
(* The composition is the engine with a particular client.                 *)

LEMMA InitEngine == WInit => Init
BY DEF WInit

LEMMA StepEngine == [WNext]_wvars => [Next]_vars
<1> SUFFICES ASSUME [WNext]_wvars PROVE [Next]_vars
  OBVIOUS
<1>1. CASE UNCHANGED vars
  BY <1>1
<1>2. CASE Agent
  BY <1>2 DEF Agent, Next
<1>3. ASSUME NEW d \in Decision, Deliver(d) PROVE [Next]_vars
  BY <1>3 DEF Deliver, Next
<1>4. QED
  BY <1>1, <1>2, <1>3 DEF WNext, wvars, Tick, Snapshot, Recover, ReadCandles, Abort, Pass, Record,
     Post, Rejected, GiveUp, Accepted, Confirm, WorkerCrash, Lose, Refuse

\* Whatever the worker, the network and the crashes do, the agent behaves as
\* its own specification says: each of the engine's theorems holds here.
THEOREM WorkerKeepsEngine == WSpec => Spec
<1>1. QED BY InitEngine, StepEngine, PTL DEF WSpec, Spec

-----------------------------------------------------------------------------
(* What a step of the engine does to a row and to the entry point.         *)

\* The rows move forward.
LEMMA RowMoves ==
  ASSUME EngineInv, [Next]_vars, NEW d \in Decision
  PROVE  /\ row[d] \in {"rejected", "closed"} => row'[d] = row[d]
         /\ row[d] = "none" /\ row'[d] # "none" => at = "audit" /\ job = "submit" /\ on = d
         /\ row[d] \in {"protected", "unknown"} => row'[d] \in {"protected", "unknown", "closed"}
         /\ row[d] # "rejected" /\ row'[d] = "rejected" => at' = "idle"
<1> DEFINE Moves(e, s) ==
      /\ row[e] \notin {"rejected", "closed"}
      /\ row[e] = "none" => at = "audit" /\ job = "submit" /\ on = e
      /\ row[e] \in {"protected", "unknown"} => s \in {"protected", "unknown", "closed"}
      /\ s = "rejected" => at' = "idle"
<1>w. ASSUME NEW e \in Decision, NEW s, Write(e, s), Moves(e, s)
      PROVE  /\ row[d] \in {"rejected", "closed"} => row'[d] = row[d]
             /\ row[d] = "none" /\ row'[d] # "none" => at = "audit" /\ job = "submit" /\ on = d
             /\ row[d] \in {"protected", "unknown"} => row'[d] \in {"protected", "unknown", "closed"}
             /\ row[d] # "rejected" /\ row'[d] = "rejected" => at' = "idle"
  <2>1. row'[d] = IF e = d THEN s ELSE row[d]
    BY <1>w DEF Write, EngineInv, TypeOK
  <2>2. QED BY <1>w, <2>1
<1> USE DEF EngineInv
<1>1. CASE UNCHANGED row
  BY <1>1
<1>2. ASSUME NEW e \in Decision, AuditClosed(e) \/ AuditFails(e)
      PROVE  \E s : Write(e, s) /\ Moves(e, s)
  BY <1>2 DEF AuditClosed, AuditFails, Distrust, LoopInv
<1>3. ASSUME NEW e \in Decision, Settle(e)
      PROVE  \E s : Write(e, s) /\ Moves(e, s)
  BY <1>3 DEF Settle, Distrust, LoopInv
<1>4. CASE SettleClosed \/ CloseRow
  <2>1. on \in Decision /\ row[on] = "unknown" /\ Write(on, "closed")
    BY <1>4 DEF SettleClosed, CloseRow, LoopInv, CallInv, Closing, TypeOK
  <2>2. QED BY <2>1, <1>w
<1>5. CASE Prepare
  <2>1. on \in Decision /\ row[on] = "none" /\ Write(on, "intent") /\ at = "audit" /\ job = "submit"
    BY <1>5 DEF Prepare, LoopInv
  <2>2. QED BY <2>1, <1>w
<1>6. CASE OnRejected \/ OnUncertain \/ OnFilled
  <2>1. /\ on \in Decision /\ row[on] = "intent"
        /\ \E s : Write(on, s) /\ (s = "rejected" => at' = "idle")
    BY <1>6 DEF OnRejected, OnUncertain, OnFilled, Distrust, CallInv, Entering, Return, Enter
  <2>2. QED BY <2>1, <1>w
<1>7. CASE VerifyFails \/ Protect
  <2>1. on \in Decision /\ row[on] = "submitted" /\ \E s : Write(on, s) /\ s # "rejected"
    BY <1>7 DEF VerifyFails, Protect, Distrust, CallInv, Entering
  <2>2. QED BY <2>1, <1>w
<1>8. QED
  BY <1>1, <1>2, <1>3, <1>4, <1>5, <1>6, <1>7, <1>w
     DEF Next, Handler, Audit, Emergency, Entry, Settling, vars, journal, Submit, Monitor,
         Reconcile, AuditVerified, AuditEnds, Halt, EmergencyClose, NotSubmitted, Send, Verify,
         SettleFails, SettleEnds, Unlatch, Execute, Exit, Disturb, Crash

\* A position id stays.
LEMMA PidKept ==
  ASSUME EngineInv, [Next]_vars, NEW d \in Decision, pid[d]
  PROVE  pid'[d]
<1>1. CASE UNCHANGED pid
  BY <1>1
<1>2. CASE OnUncertain \/ OnFilled
  <2>1. on # d
    BY <1>2 DEF OnUncertain, OnFilled, EngineInv, CallInv
  <2>2. pid'[d] = pid[d]
    BY <1>2, <2>1 DEF OnUncertain, OnFilled, EngineInv, TypeOK
  <2>3. QED BY <2>2
<1>3. QED
  BY <1>1, <1>2
     DEF Next, Handler, Audit, Emergency, Entry, Settling, vars, journal, Submit, Monitor,
         Reconcile, AuditClosed, AuditVerified, AuditFails, AuditEnds, Halt, EmergencyClose, CloseRow,
         Prepare, NotSubmitted, Send, OnRejected, Verify, VerifyFails, Protect, Settle, SettleClosed,
         SettleFails, SettleEnds, Unlatch, Execute, Exit, Disturb, Crash

\* An entry point other than a submission never becomes one, and a submission
\* stays with its decision until it gets rid of a position.
LEMMA JobMoves ==
  ASSUME EngineInv, Agent
  PROVE  /\ at' # "idle" /\ job' = "submit" => at # "idle" /\ job = "submit"
         /\ job' = "submit" /\ at' \in Entering \cup {"audit"} =>
              job = "submit" /\ at \in Entering \cup {"audit"} /\ on' = on
<1> USE DEF Enter, Return, Goto, Answer, Entering, call
<1>1. CASE Monitor \/ Reconcile \/ Crash
  BY <1>1 DEF Monitor, Reconcile, Crash
<1>2. ASSUME NEW d \in Decision, Execute(d) \/ Exit(d) \/ Disturb(d) PROVE UNCHANGED call
  BY <1>2 DEF Execute, Exit, Disturb
<1>3. CASE Audit
  BY <1>3 DEF Audit, AuditEnds, AuditClosed, AuditVerified, AuditFails
<1>4. CASE Emergency
  BY <1>4 DEF Emergency, Halt, EmergencyClose, CloseRow
<1>5. CASE Entry
  BY <1>5 DEF Entry, Prepare, NotSubmitted, Send, OnRejected, OnUncertain, OnFilled,
     Verify, VerifyFails, Protect
<1>6. CASE Settling
  BY <1>6 DEF Settling, Settle, SettleClosed, SettleFails, SettleEnds, Unlatch, EngineInv, LoopInv
<1>7. QED
  BY <1>1, <1>2, <1>3, <1>4, <1>5, <1>6 DEF Agent, Handler

-----------------------------------------------------------------------------
(* The worker's invariant.                                                 *)

\* The steps of the worker alone leave the agent alone.
LEMMA WorkerAlone ==
  Tick \/ WorkerCrash \/ (\E d \in Decision : Lose(d) \/ Refuse(d)) => UNCHANGED vars
BY DEF Tick, Snapshot, Recover, ReadCandles, Abort, Pass, Record, Post, Rejected, GiveUp,
   Accepted, Confirm, WorkerCrash, Lose, Refuse

\* What the worker may write about a decision.
LEMMA Outcomes ==
  \A state : Outcome(state) \in {"protected", "closed", "rejected", "unknown"}
             /\ (Outcome(state) # "unknown" => Outcome(state) = state)
BY DEF Outcome

LEMMA WInitInv == WInit => WorkerInv
<1> SUFFICES ASSUME WInit PROVE WorkerInv
  OBVIOUS
<1>1. NoDecision \notin Decision
  BY EngineAssumption
<1>2. \A d \in Decision : vol[d] = 0 /\ order[d] = "none"
  BY DEF WInit, Init
<1>3. PositionInv
  BY <1>2 DEF PositionInv
<1>4. WTypeOK /\ TickInv /\ RequestInv /\ ServingInv /\ KnownInv
  BY <1>1 DEF WInit, Init, WTypeOK, TickInv, RequestInv, ServingInv, KnownInv, Entering
<1>5. QED BY <1>3, <1>4 DEF WorkerInv

LEMMA WTypeStep == WTypeOK /\ TickInv /\ [WNext]_wvars => WTypeOK'
<1> SUFFICES ASSUME WTypeOK, TickInv, [WNext]_wvars PROVE WTypeOK'
  OBVIOUS
<1> USE DEF WTypeOK, TickInv, EndTick, network, worker, Respond
<1>1. CASE UNCHANGED wvars
  BY <1>1 DEF wvars
<1>2. CASE Snapshot
  <2>1. Pending \subseteq Decision /\ (Open # {}) \in BOOLEAN /\ (halt \/ Unsettled # {}) \in BOOLEAN
    BY DEF Pending
  <2>2. QED BY <1>2, <2>1 DEF Snapshot
<1>3. ASSUME NEW d \in Decision, NEW state \in Answers(d), Recover(d, state) PROVE WTypeOK'
  <2>1. Outcome(state) \in {"protected", "closed", "rejected", "unknown"}
    BY Outcomes
  <2>2. (blocked \/ Outcome(state) = "unknown") \in BOOLEAN
    OBVIOUS
  <2>3. rec' \in [Decision -> {"none", "skipped", "hold", "sending", "unknown",
                               "protected", "closed", "rejected"}]
    BY <1>3, <2>1 DEF Recover
  <2>4. left' \in SUBSET Decision /\ blocked' \in BOOLEAN
    BY <1>3, <2>2 DEF Recover
  <2>5. QED BY <1>3, <2>3, <2>4 DEF Recover
<1>4. CASE Abort \/ Pass \/ Record \/ Rejected \/ GiveUp \/ WorkerCrash \/ Accepted
  BY <1>4 DEF Abort, Pass, Record, Outbox, Rejected, GiveUp, WorkerCrash, Accepted
<1>5. ASSUME NEW b \in Decision, ReadCandles(b) PROVE WTypeOK'
  BY <1>5 DEF ReadCandles
<1>6. CASE Post
  <2>1. \A d \in Decision : posts[d] \in Nat /\ posts[d] + 1 \in Nat
    OBVIOUS
  <2>2. QED BY <1>6, <2>1 DEF Post
<1>7. CASE Confirm
  <2>1. \E s \in {"protected", "closed", "rejected", "unknown"} : rec' = [rec EXCEPT ![bar] = s]
    BY <1>7, Outcomes DEF Confirm
  <2>2. QED BY <1>7, <2>1 DEF Confirm
<1>8. ASSUME NEW d \in Decision, Lose(d) \/ Deliver(d) \/ Refuse(d) PROVE WTypeOK'
  BY <1>8 DEF Lose, Deliver, Refuse
<1>9. CASE Agent
  BY <1>9 DEF Agent, Codes
<1>10. QED
  BY <1>1, <1>2, <1>3, <1>4, <1>5, <1>6, <1>7, <1>8, <1>9 DEF WNext, Tick

LEMMA TickStep == WTypeOK /\ TickInv /\ KnownInv /\ [WNext]_wvars => TickInv'
<1> SUFFICES ASSUME WTypeOK, TickInv, KnownInv, [WNext]_wvars PROVE TickInv'
  OBVIOUS
<1> USE DEF WTypeOK, TickInv
<1>1. CASE UNCHANGED <<worker, posts>>
  BY <1>1 DEF worker, Pending
<1>2. CASE Snapshot
  BY <1>2 DEF Snapshot, Pending
<1>3. ASSUME NEW d \in Decision, NEW state \in Answers(d), Recover(d, state) PROVE TickInv'
  <2>1. /\ step = "recover" /\ UNCHANGED step /\ left' = left \ {d}
        /\ \A e \in Decision : rec'[e] = IF e = d THEN Outcome(state) ELSE rec[e]
        /\ blocked' <=> blocked \/ Outcome(state) = "unknown"
    BY <1>3 DEF Recover
  <2>2. Outcome(state) \in {"protected", "closed", "rejected", "unknown"}
    BY Outcomes
  <2>3. left' \subseteq Pending'
    BY <2>1 DEF Pending
  <2>4. ~blocked' => \A e \in Decision : rec'[e] \in {"sending", "unknown"} => e \in left'
    BY <2>1, <2>2
  <2>5. QED BY <2>1, <2>3, <2>4
<1>4. CASE step' = "idle"
  BY <1>4
<1>5. ASSUME NEW b \in Decision, ReadCandles(b) PROVE TickInv'
  <2>1. \A d \in Decision : rec[d] \notin {"sending", "unknown"}
    BY <1>5 DEF ReadCandles, MayDecide
  <2>2. b <= b
    BY WorkerAssumption
  <2>3. rec[b] = "none"
    BY <1>5, <2>2 DEF ReadCandles, Seen
  <2>4. QED BY <1>5, <2>1, <2>3 DEF ReadCandles
<1>6. CASE Record
  <2>1. rec'[bar] = "sending" /\ posts[bar] = 0
    BY <1>6 DEF Record, Outbox, KnownInv
  <2>2. QED BY <1>6, <2>1 DEF Record, network
<1>7. CASE Post \/ Accepted
  BY <1>7 DEF Post, Accepted
<1>8. QED
  BY <1>1, <1>2, <1>3, <1>4, <1>5, <1>6, <1>7 DEF WNext, Tick, EndTick, wvars, network, Abort, Pass,
     Rejected, GiveUp, Confirm, WorkerCrash, Lose, Deliver, Refuse, Agent

LEMMA RequestStep ==
  EngineInv /\ WTypeOK /\ TickInv /\ RequestInv /\ ServingInv /\ KnownInv /\ [WNext]_wvars => RequestInv'
<1> SUFFICES ASSUME EngineInv, WTypeOK, TickInv, RequestInv, ServingInv, KnownInv, [WNext]_wvars
             PROVE  RequestInv'
  OBVIOUS
<1>n. NoDecision \notin Decision
  BY EngineAssumption
<1> USE DEF RequestInv
<1>1. CASE UNCHANGED <<vars, wire, serving, posts>>
  BY <1>1 DEF vars, journal
<1>2. ASSUME NEW d \in Decision, Lose(d) \/ Refuse(d) PROVE RequestInv'
  BY <1>2 DEF Lose, Refuse, vars, journal
<1>3. CASE Post
  <2>1. /\ bar \in Decision /\ posts[bar] = 0 /\ wire' = wire \cup {bar} /\ UNCHANGED <<serving, row>>
        /\ \A d \in Decision : posts'[d] = IF d = bar THEN 1 ELSE posts[d]
    BY <1>3 DEF Post, TickInv, WTypeOK, vars, journal
  <2>2. QED BY <2>1
<1>4. ASSUME NEW d \in Decision, Deliver(d) PROVE RequestInv'
  <2>1. d \in wire /\ wire' = wire \ {d} /\ serving' = d /\ UNCHANGED <<row, posts>>
    BY <1>4 DEF Deliver, Submit, journal
  <2>2. QED BY <2>1
<1>5. CASE Agent
  <2>1. UNCHANGED <<wire, posts>> /\ serving' \in {serving, NoDecision}
    BY <1>5 DEF Agent
  <2>2. ASSUME NEW d \in Decision, serving # d, row[d] = "none" PROVE row'[d] = "none"
    <3>1. [Next]_vars
      BY <1>5 DEF Agent, Next
    <3>2. ~(at = "audit" /\ job = "submit" /\ on = d)
      BY <2>2 DEF ServingInv
    <3>3. QED BY <2>2, <3>1, <3>2, RowMoves
  <2>3. QED BY <2>1, <2>2, <1>n
<1>6. QED
  BY <1>1, <1>2, <1>3, <1>4, <1>5, WorkerAlone DEF WNext, Tick, wvars, network, Snapshot, Recover,
     ReadCandles, Abort, Pass, Record, Rejected, GiveUp, Accepted, Confirm, WorkerCrash

LEMMA ServingStep == EngineInv /\ WTypeOK /\ ServingInv /\ [WNext]_wvars => ServingInv'
<1> SUFFICES ASSUME EngineInv, WTypeOK, ServingInv, [WNext]_wvars PROVE ServingInv'
  OBVIOUS
<1>n. NoDecision \notin Decision
  BY EngineAssumption
<1> USE DEF ServingInv
<1>1. CASE UNCHANGED <<vars, serving>>
  BY <1>1 DEF vars, call, journal
<1>2. ASSUME NEW d \in Decision, Deliver(d) PROVE ServingInv'
  <2>1. serving' = d /\ at' = "audit" /\ job' = "submit" /\ on' = d /\ row'[d] = "none"
    BY <1>2 DEF Deliver, Submit, Enter, Fresh, journal
  <2>2. QED BY <2>1
<1>3. CASE Agent
  <2>1. /\ at' # "idle" /\ job' = "submit" => at # "idle" /\ job = "submit"
        /\ job' = "submit" /\ at' \in Entering \cup {"audit"} =>
             job = "submit" /\ at \in Entering \cup {"audit"} /\ on' = on
    BY <1>3, JobMoves
  <2>2. /\ serving # NoDecision /\ at' = "idle" => serving' = NoDecision
        /\ ~(serving # NoDecision /\ at' = "idle") => serving' = serving
    BY <1>3 DEF Agent
  <2>3. at # "idle" /\ job = "submit" /\ at' # "idle" => job' = "submit"
    BY <1>3 DEF Agent, Handler, Audit, AuditEnds, AuditClosed, AuditVerified, AuditFails,
       Emergency, Halt, EmergencyClose, CloseRow, Entry, Prepare, NotSubmitted, Send, OnRejected,
       OnUncertain, OnFilled, Verify, VerifyFails, Protect, Settling, Settle, SettleClosed,
       SettleFails, SettleEnds, Unlatch, Monitor, Reconcile, Crash, Execute, Exit, Disturb,
       Enter, Return, Goto, Answer, call
  <2>4. "idle" \notin Entering \cup {"audit"}
    BY DEF Entering
  <2>5. serving \in Decision /\ row[serving] # "rejected" /\ at' # "idle" => row'[serving] # "rejected"
    <3>1. [Next]_vars
      BY <1>3 DEF Agent, Next
    <3>2. QED BY <3>1, RowMoves
  <2>6. QED BY <2>1, <2>2, <2>3, <2>4, <2>5, <1>n DEF WTypeOK
<1>4. QED
  BY <1>1, <1>2, <1>3, WorkerAlone DEF WNext, Tick, wvars, network, Snapshot, Recover,
     ReadCandles, Abort, Pass, Record, Post, Rejected, GiveUp, Accepted, Confirm, WorkerCrash, Lose, Refuse

LEMMA KnownStep ==
  EngineInv /\ WTypeOK /\ TickInv /\ RequestInv /\ ServingInv /\ KnownInv /\ [WNext]_wvars => KnownInv'
<1> SUFFICES ASSUME EngineInv, WTypeOK, TickInv, RequestInv, ServingInv, KnownInv, [WNext]_wvars
             PROVE  KnownInv'
  OBVIOUS
<1>n. NoDecision \notin Decision
  BY EngineAssumption
<1> USE DEF KnownInv, WTypeOK
\* What the journal may have answered is taken over only if it is final.
<1>a. ASSUME NEW d \in Decision, NEW state \in Answers(d), rec' = [rec EXCEPT ![d] = Outcome(state)],
             rec[d] \in {"sending", "unknown", "protected"}, UNCHANGED <<vars, network>>,
             d \notin wire \/ row[d] = "none", serving # d \/ row[d] # "rejected"
      PROVE  \A e \in Decision :
               /\ rec'[e] \in {"none", "skipped", "hold"} => posts'[e] = 0
               /\ rec'[e] = "rejected" => e \notin wire' /\ serving' # e /\ row'[e] \in {"none", "rejected"}
               /\ rec'[e] = "protected" => row'[e] \in {"protected", "unknown", "closed"} /\ pid'[e]
               /\ rec'[e] = "closed" => row'[e] = "closed"
  <2>1. \A e \in Decision : rec'[e] = IF e = d THEN Outcome(state) ELSE rec[e]
    BY <1>a
  <2>2. UNCHANGED <<row, pid, wire, serving, posts>>
    BY <1>a DEF vars, journal, network
  <2>3. \A s \in {"protected", "closed", "rejected"} : Outcome(state) = s => row[d] = s
    BY Outcomes DEF Answers
  <2>4. row[d] = "protected" => pid[d]
    BY DEF EngineInv, RowInv
  <2>5. Outcome(state) \in {"protected", "closed", "rejected", "unknown"}
    BY Outcomes
  <2>6. QED BY <2>1, <2>2, <2>3, <2>4, <2>5, <1>a
<1>1. CASE UNCHANGED <<vars, network>> /\ UNCHANGED rec /\ reply = "none"
  BY <1>1 DEF vars, journal, network
<1>2. CASE Accepted \/ WorkerCrash
  BY <1>2 DEF Accepted, WorkerCrash, vars, journal
<1>3. CASE Post
  <2>1. /\ rec[bar] = "sending" /\ step = "post" /\ reply = "none" /\ bar \in Decision
        /\ \A d \in Decision : d # bar => posts'[d] = posts[d]
        /\ wire' = wire \cup {bar} /\ UNCHANGED <<rec, row, pid, serving, reply>>
    BY <1>3 DEF Post, TickInv, vars, journal
  <2>2. QED BY <2>1
<1>4. CASE Pass \/ Record
  <2>1. /\ bar \in Decision /\ rec[bar] = "none" /\ posts[bar] = 0 /\ reply = "none"
        /\ \E v \in {"skipped", "hold", "sending"} : rec' = [rec EXCEPT ![bar] = v]
        /\ UNCHANGED <<row, pid, wire, serving, reply, posts>>
    BY <1>4 DEF Pass, Record, Outbox, TickInv, vars, journal, network
  <2>2. QED BY <2>1
<1>5. CASE Rejected \/ GiveUp
  <2>1. /\ bar \in Decision /\ rec[bar] = "sending" /\ reply' = "none"
        /\ UNCHANGED <<row, pid, wire, serving, posts>>
        /\ \/ rec' = [rec EXCEPT ![bar] = "unknown"]
           \/ rec' = [rec EXCEPT ![bar] = "rejected"] /\ reply = "refused"
    BY <1>5 DEF Rejected, GiveUp, Definite, TickInv, vars, journal
  <2>2. QED BY <2>1
<1>6. ASSUME NEW d \in Decision, NEW state \in Answers(d), Recover(d, state) PROVE KnownInv'
  <2>1. /\ rec' = [rec EXCEPT ![d] = Outcome(state)] /\ UNCHANGED <<vars, network>>
        /\ rec[d] \in {"sending", "unknown", "protected"} /\ reply = "none"
    BY <1>6 DEF Recover, TickInv, Pending
  <2>2. d \notin wire \/ row[d] = "none"
    BY DEF RequestInv
  <2>3. serving # d \/ row[d] # "rejected"
    BY DEF ServingInv
  <2>4. QED BY <1>a, <2>1, <2>2, <2>3 DEF network
<1>7. CASE Confirm
  <2>1. PICK state \in Answers(bar) : rec' = [rec EXCEPT ![bar] = Outcome(state)]
    BY <1>7 DEF Confirm
  <2>2. bar \in Decision /\ rec[bar] = "sending" /\ UNCHANGED <<vars, network>> /\ reply = "none"
    BY <1>7 DEF Confirm, TickInv
  <2>3. bar \notin wire \/ row[bar] = "none"
    BY <2>2 DEF RequestInv
  <2>4. serving # bar \/ row[bar] # "rejected"
    BY <2>2 DEF ServingInv
  <2>5. QED BY <1>a, <2>1, <2>2, <2>3, <2>4 DEF network
<1>8. ASSUME NEW d \in Decision, Lose(d) \/ Refuse(d) PROVE KnownInv'
  <2>1. /\ d \in wire /\ wire' = wire \ {d} /\ serving # d /\ row[d] = "none"
        /\ UNCHANGED <<rec, step, bar, row, pid, serving, posts>>
        /\ \/ UNCHANGED reply
           \/ step = "wait" /\ bar = d /\ reply' \in {"refused", "error"}
    BY <1>8 DEF Lose, Refuse, Respond, RequestInv, worker, vars, journal
  <2>2. QED BY <2>1
<1>9. ASSUME NEW d \in Decision, Deliver(d) PROVE KnownInv'
  <2>1. /\ d \in wire /\ wire' = wire \ {d} /\ serving' = d
        /\ UNCHANGED <<rec, step, bar, row, pid, reply, posts>>
    BY <1>9 DEF Deliver, Submit, worker, journal
  <2>2. QED BY <2>1
<1>10. CASE Agent
  <2>s. [Next]_vars
    BY <1>10 DEF Agent, Next
  <2>1. UNCHANGED <<rec, step, bar, wire, posts>> /\ serving' \in {serving, NoDecision}
    BY <1>10 DEF Agent, worker
  <2>2. ASSUME NEW d \in Decision, serving # d, row[d] \in {"none", "rejected"} PROVE row'[d] = row[d]
    <3>1. ~(at = "audit" /\ job = "submit" /\ on = d)
      BY <2>2 DEF ServingInv
    <3>2. QED BY <2>2, <2>s, <3>1, RowMoves
  <2>3. ASSUME NEW d \in Decision
        PROVE  /\ rec'[d] \in {"none", "skipped", "hold"} => posts'[d] = 0
               /\ rec'[d] = "rejected" => d \notin wire' /\ serving' # d /\ row'[d] \in {"none", "rejected"}
               /\ rec'[d] = "closed" => row'[d] = "closed"
    BY <2>s, <2>1, <2>2, <1>n, RowMoves
  <2>4. ASSUME NEW d \in Decision, rec'[d] = "protected"
        PROVE  row'[d] \in {"protected", "unknown", "closed"} /\ pid'[d]
    <3>1. rec[d] = "protected" /\ row[d] \in {"protected", "unknown", "closed"} /\ pid[d]
      BY <2>1, <2>4
    <3>2. QED BY <3>1, <2>s, RowMoves, PidKept
  <2>5. CASE UNCHANGED reply
    <3>1. reply # "none" => bar \in Decision /\ serving # bar
      BY DEF TickInv
    <3>2. reply' # "none" => step' = "wait" /\ bar' \notin wire' /\ serving' # bar'
      BY <2>1, <2>5, <3>1, <1>n
    <3>3. reply' = "refused" => row'[bar'] \in {"none", "rejected"}
      BY <2>1, <2>2, <2>5, <3>1
    <3>4. QED BY <2>3, <2>4, <3>2, <3>3
  <2>6. CASE /\ serving # NoDecision /\ serving' = NoDecision /\ step = "wait" /\ bar = serving
             /\ reply' \in (IF crashes' = crashes THEN Codes(row'[serving]) ELSE {"error"})
    <3>1. bar \in Decision /\ bar \notin wire
      BY <2>6 DEF RequestInv
    <3>2. reply' = "refused" => row'[bar] \in {"none", "rejected"}
      BY <2>6 DEF Codes
    <3>3. QED BY <2>1, <2>3, <2>4, <2>6, <3>1, <3>2, <1>n
  <2>7. QED BY <1>10, <2>5, <2>6 DEF Agent, Respond
<1>11. ASSUME Snapshot \/ Abort \/ \E b \in Decision : ReadCandles(b) PROVE KnownInv'
  BY <1>11, <1>1 DEF Snapshot, Abort, ReadCandles
<1>12. CASE UNCHANGED wvars
  BY <1>12 DEF wvars, worker, vars, journal, network
<1>13. QED
  BY <1>2, <1>3, <1>4, <1>5, <1>6, <1>7, <1>8, <1>9, <1>10, <1>11, <1>12 DEF WNext, Tick

\* Every send happens with no position open and no other order on its way.
LEMMA PositionStep == EngineInv /\ PositionInv /\ [Next]_vars => PositionInv'
<1> SUFFICES ASSUME EngineInv, PositionInv, [Next]_vars PROVE PositionInv'
  OBVIOUS
<1> DEFINE Live(d) == vol[d] > 0 \/ order[d] = "working"
<1>v. \A d \in Decision : vol[d] \in Nat
  BY EngineAssumption DEF EngineInv, TypeOK
\* No decision comes to life.
<1>k. ASSUME \A d \in Decision : Live(d)' => Live(d)
      PROVE  PositionInv'
  BY <1>k DEF PositionInv
\* The only one that is alive is the one that is sent.
<1>o. ASSUME NEW d \in Decision, \A e \in Decision : e # d => ~Live(e)' PROVE PositionInv'
  BY <1>o DEF PositionInv
<1>1. CASE UNCHANGED <<order, vol>>
  BY <1>1, <1>k
<1>2. CASE EmergencyClose
  <2>1. \A d \in Decision : vol'[d] \in Nat /\ vol'[d] <= vol[d]
    BY <1>2, <1>v DEF EmergencyClose, Remaining, EngineInv, TypeOK
  <2>2. UNCHANGED order
    BY <1>2 DEF EmergencyClose
  <2>3. QED BY <2>1, <2>2, <1>v, <1>k
<1>3. ASSUME NEW d \in Decision, Exit(d) PROVE PositionInv'
  <2>1. \A e \in Decision : vol'[e] \in Nat /\ vol'[e] <= vol[e]
    BY <1>3, <1>v DEF Exit, EngineInv, TypeOK
  <2>2. UNCHANGED order
    BY <1>3 DEF Exit
  <2>3. QED BY <2>1, <2>2, <1>v, <1>k
<1>4. ASSUME NEW d \in Decision, Execute(d) PROVE PositionInv'
  <2>1. order[d] = "working" /\ \A e \in Decision : e # d => vol'[e] = vol[e] /\ order'[e] = order[e]
    BY <1>4 DEF Execute, Fill, Leave, EngineInv, TypeOK
  <2>2. \A e \in Decision : e # d => ~Live(e)
    BY <2>1 DEF PositionInv
  <2>3. \A e \in Decision : e # d => ~Live(e)'
    BY <2>1, <2>2
  <2>4. QED BY <2>3, <1>o
<1>5. CASE Send
  <2>1. on \in Decision /\ Unsettled = {on} /\ Open = {} /\ order[on] = "none"
    BY <1>5, WorkerAssumption DEF Send, EngineInv, CallInv, OrderInv, Entering
  <2>2. \A e \in Decision : e # on => ~(vol[e] > 0)
    BY <2>1 DEF Open
  <2>3. \A e \in Decision : e # on => order[e] # "working"
    BY <2>1, WorkingUnsettled DEF EngineInv
  <2>4. \A e \in Decision : e # on => vol'[e] = vol[e] /\ order'[e] = order[e]
    BY <1>5, <2>1 DEF Send, Leave, Fill, EngineInv, TypeOK
  <2>5. \A e \in Decision : e # on => ~Live(e)'
    BY <2>2, <2>3, <2>4
  <2>6. QED BY <2>1, <2>5, <1>o
<1>6. QED
  BY <1>1, <1>2, <1>3, <1>4, <1>5
     DEF Next, Handler, Audit, Emergency, Entry, Settling, vars, broker, Submit, Monitor,
         Reconcile, AuditClosed, AuditVerified, AuditFails, AuditEnds, Halt, CloseRow,
         Prepare, NotSubmitted, OnRejected, OnUncertain, OnFilled, Verify, VerifyFails, Protect,
         Settle, SettleClosed, SettleFails, SettleEnds, Unlatch, Disturb, Crash

LEMMA WStepInv == EngineInv /\ WorkerInv /\ [WNext]_wvars => WorkerInv'
BY StepEngine, WTypeStep, TickStep, RequestStep, ServingStep, KnownStep, PositionStep DEF WorkerInv

\* Store, wire, engine and broker agree on every signal, whoever dies and
\* whatever is lost or late.
THEOREM WorkerAgreement == WSpec => [](EngineInv /\ WorkerInv)
<1>1. WInit => EngineInv /\ WorkerInv
  BY InitEngine, InitInv, WInitInv
<1>2. EngineInv /\ WorkerInv /\ [WNext]_wvars => (EngineInv /\ WorkerInv)'
  BY StepEngine, StepInv, WStepInv
<1>3. QED BY <1>1, <1>2, PTL DEF WSpec

\* The types of the worker's state and of the network.
THEOREM WorkerTypes == WSpec => []WTypeOK
<1>1. WorkerInv => WTypeOK
  BY DEF WorkerInv
<1>2. QED BY <1>1, WorkerAgreement, PTL

\* A decision is posted once, whatever is lost and whoever dies.
THEOREM WorkerPostsOnce == WSpec => []PostedAtMostOnce
<1>1. WorkerInv => PostedAtMostOnce
  <2>1. ASSUME RequestInv, NEW d \in Decision PROVE posts[d] <= 1
    <3>1. posts[d] = 0 \/ posts[d] = 1
      BY <2>1 DEF RequestInv
    <3>2. QED BY <3>1
  <2>2. QED BY <2>1 DEF WorkerInv, PostedAtMostOnce
<1>2. QED BY <1>1, WorkerAgreement, PTL

\* What the worker calls rejected or closed, or passed over, is just that.
THEOREM WorkerKnows == WSpec => []WorkerIsRight
<1>1. EngineInv /\ WorkerInv => WorkerIsRight
  <2> SUFFICES ASSUME EngineInv, WorkerInv, NEW d \in Decision
               PROVE  /\ rec[d] = "rejected" =>
                           order[d] \in {"none", "refused"} /\ d \notin wire /\ serving # d
                      /\ rec[d] = "closed" => order[d] = "done" /\ vol[d] = 0
                      /\ rec[d] \in {"none", "skipped", "hold"} => order[d] = "none" /\ d \notin wire
    BY DEF WorkerIsRight
  <2>1. KnownInv /\ RequestInv /\ RowInv
    BY DEF WorkerInv, EngineInv
  <2>2. rec[d] = "rejected" => order[d] \in {"none", "refused"} /\ d \notin wire /\ serving # d
    BY <2>1 DEF KnownInv, RowInv
  <2>3. rec[d] = "closed" => order[d] = "done" /\ vol[d] = 0
    BY <2>1 DEF KnownInv, RowInv
  <2>4. rec[d] \in {"none", "skipped", "hold"} => order[d] = "none" /\ d \notin wire
    BY <2>1 DEF KnownInv, RequestInv, RowInv
  <2>5. QED BY <2>2, <2>3, <2>4
<1>2. QED BY <1>1, WorkerAgreement, PTL

\* One position at a time on the dedicated account.
THEOREM WorkerHoldsOne == WSpec => []OnePosition
<1>1. WorkerInv => OnePosition
  BY DEF WorkerInv, PositionInv, OnePosition, Open
<1>2. QED BY <1>1, WorkerAgreement, PTL
-----------------------------------------------------------------------------
(* Refinement of the one-shot order, from the worker's store to the broker. *)

LEMMA InitSignal == WInit => Signal!Init
<1> SUFFICES ASSUME WInit PROVE Signal!Init
  OBVIOUS
<1>1. SignalVerdict = [d \in Decision |-> "none"]
  BY DEF WInit, SignalVerdict
<1>2. Effect = [d \in Decision |-> FALSE]
  BY DEF WInit, Init, Effect
<1>3. QED BY <1>1, <1>2 DEF Signal!Init

\* A signal whose row the worker has not closed in rejection is done as soon
\* as its position is known.
Sent == {"sending", "unknown", "protected", "closed"}

LEMMA SignalOf ==
  ASSUME NEW d \in Decision
  PROVE  /\ rec[d] \in {"none", "skipped", "hold"} => SignalVerdict[d] = "none"
         /\ rec[d] = "rejected" => SignalVerdict[d] = "void"
         /\ rec[d] \in Sent /\ pid[d] => SignalVerdict[d] = "done"
         /\ rec[d] \in Sent /\ ~pid[d] => SignalVerdict[d] = "pending"
BY DEF SignalVerdict, Sent

LEMMA SignalFunction ==
  /\ SignalVerdict = [d \in Decision |-> SignalVerdict[d]]
  /\ SignalVerdict' = [d \in Decision |-> SignalVerdict'[d]]
<1> DEFINE V(d) == CASE rec[d] \in {"none", "skipped", "hold"} -> "none"
                     [] rec[d] = "rejected"                 -> "void"
                     [] rec[d] \in {"sending", "unknown", "protected", "closed"} ->
                          IF pid[d] THEN "done" ELSE "pending"
<1>1. SignalVerdict = [d \in Decision |-> V(d)] /\ SignalVerdict' = [d \in Decision |-> V(d)']
  BY Zenon DEF SignalVerdict
<1>2. QED
  <2> HIDE DEF V
  <2>1. QED BY <1>1

\* The worker writes a row.
LEMMA SignalMoved ==
  ASSUME WTypeOK, NEW d \in Decision, NEW s, NEW v, rec' = [rec EXCEPT ![d] = s], UNCHANGED vars,
         \/ s \in {"skipped", "hold"} /\ v = "none"
         \/ s = "rejected" /\ v = "void"
         \/ s \in Sent /\ pid[d] /\ v = "done"
         \/ s \in Sent /\ ~pid[d] /\ v = "pending"
  PROVE  SignalVerdict' = [SignalVerdict EXCEPT ![d] = v] /\ UNCHANGED Effect
<1>1. UNCHANGED <<pid, order>> /\ UNCHANGED Effect
  BY SameVerdict DEF vars, journal, broker
<1>2. rec'[d] = s /\ \A e \in Decision : e # d => rec'[e] = rec[e]
  BY DEF WTypeOK
<1>3. SignalVerdict'[d] = v
  BY <1>1, <1>2 DEF SignalVerdict, Sent
<1>4. ASSUME NEW e \in Decision, e # d PROVE SignalVerdict'[e] = SignalVerdict[e]
  <2>1. rec'[e] = rec[e] /\ pid'[e] = pid[e]
    BY <1>1, <1>2, <1>4
  <2>2. rec[e] \in {"none", "skipped", "hold", "rejected"} \cup Sent
    BY DEF WTypeOK, Sent
  <2>3. CASE pid[e]
    <3>1. pid'[e]
      BY <2>1, <2>3, Zenon
    <3>2. QED BY <2>1, <2>2, <2>3, <3>1 DEF SignalVerdict, Sent
  <2>4. CASE ~pid[e]
    <3>1. ~pid'[e]
      BY <2>1, <2>4, Zenon
    <3>2. QED BY <2>1, <2>2, <2>4, <3>1 DEF SignalVerdict, Sent
  <2>5. QED BY <2>3, <2>4
<1>5. QED BY <1>1, <1>3, <1>4, SignalFunction

\* What the worker has not sent, or knows to be rejected, has no position.
LEMMA NotDone ==
  ASSUME EngineInv, WorkerInv, NEW d \in Decision,
         rec[d] \in {"none", "skipped", "hold", "rejected"} \/ row[d] \in {"none", "rejected"}
  PROVE  row[d] \in {"none", "rejected"} /\ ~pid[d] /\ ~Effect[d]
<1>1. row[d] \in {"none", "rejected"}
  BY DEF WorkerInv, KnownInv, RequestInv
<1>2. ~pid[d] /\ order[d] # "done"
  BY <1>1 DEF EngineInv, RowInv
<1>3. QED BY <1>1, <1>2 DEF Effect

\* The worker's steps are an attempt, an abandonment or none.
LEMMA SignalTick ==
  ASSUME EngineInv, WorkerInv, Tick PROVE [Signal!Next]_(Signal!vars)
<1>a. UNCHANGED vars
  BY WorkerAlone
<1>1. ASSUME UNCHANGED rec PROVE [Signal!Next]_(Signal!vars)
  BY <1>a, <1>1, SameVerdict DEF SignalVerdict, Signal!vars, vars, journal, broker
\* A row that stays sent keeps its verdict.
<1>k. ASSUME NEW d \in Decision, rec[d] \in Sent, NEW s \in Sent, rec' = [rec EXCEPT ![d] = s]
      PROVE  [Signal!Next]_(Signal!vars)
  <2>1. CASE pid[d]
    <3>1. SignalVerdict' = [SignalVerdict EXCEPT ![d] = "done"] /\ UNCHANGED Effect
      BY <1>a, <1>k, <2>1, SignalMoved DEF WorkerInv
    <3>2. SignalVerdict[d] = "done"
      BY <1>k, <2>1, SignalOf
    <3>3. QED BY <3>1, <3>2 DEF SignalVerdict, Signal!vars
  <2>2. CASE ~pid[d]
    <3>1. SignalVerdict' = [SignalVerdict EXCEPT ![d] = "pending"] /\ UNCHANGED Effect
      BY <1>a, <1>k, <2>2, SignalMoved DEF WorkerInv
    <3>2. SignalVerdict[d] = "pending"
      BY <1>k, <2>2, SignalOf
    <3>3. QED BY <3>1, <3>2 DEF SignalVerdict, Signal!vars
  <2>3. QED BY <2>1, <2>2
\* A row that is rejected, as the journal says or may still say.
<1>r. ASSUME NEW d \in Decision, rec[d] \in Sent, row[d] \in {"none", "rejected"},
             rec' = [rec EXCEPT ![d] = "rejected"]
      PROVE  [Signal!Next]_(Signal!vars)
  <2>1. ~pid[d] /\ ~Effect[d]
    BY <1>r, NotDone
  <2>2. SignalVerdict' = [SignalVerdict EXCEPT ![d] = "void"] /\ UNCHANGED Effect
    BY <1>a, <1>r, SignalMoved DEF WorkerInv
  <2>3. SignalVerdict[d] = "pending"
    BY <1>r, <2>1, SignalOf
  <2>4. QED BY <2>1, <2>2, <2>3 DEF Signal!Next, Signal!Abandon
<1>2. CASE Pass
  <2>1. /\ bar \in Decision /\ rec[bar] = "none"
        /\ \E s \in {"skipped", "hold"} : rec' = [rec EXCEPT ![bar] = s]
    BY <1>2 DEF Pass, WorkerInv, TickInv
  <2>2. SignalVerdict' = [SignalVerdict EXCEPT ![bar] = "none"] /\ UNCHANGED Effect
    BY <1>a, <2>1, SignalMoved DEF WorkerInv
  <2>3. SignalVerdict[bar] = "none"
    BY <2>1, SignalOf
  <2>4. QED BY <2>2, <2>3 DEF SignalVerdict, Signal!vars
<1>3. CASE Record
  <2>1. /\ bar \in Decision /\ rec[bar] = "none" /\ rec' = [rec EXCEPT ![bar] = "sending"]
        /\ \A d \in Decision : rec[d] \notin {"sending", "unknown"}
    BY <1>3 DEF Record, Outbox, WorkerInv, TickInv
  <2>2. ~pid[bar] /\ SignalVerdict[bar] = "none"
    BY <2>1, NotDone, SignalOf
  <2>3. SignalVerdict' = [SignalVerdict EXCEPT ![bar] = "pending"] /\ UNCHANGED Effect
    BY <1>a, <2>1, <2>2, SignalMoved DEF WorkerInv, Sent
  <2>4. ASSUME NEW d \in Decision PROVE SignalVerdict[d] # "pending"
    <3>1. rec[d] \in {"protected", "closed"} => pid[d]
      BY DEF WorkerInv, KnownInv, EngineInv, RowInv
    <3>2. rec[d] \in {"none", "skipped", "hold", "rejected", "protected", "closed"}
      BY <2>1 DEF WorkerInv, WTypeOK
    <3>3. QED BY <3>1, <3>2, SignalOf DEF Sent
  <2>5. QED BY <2>1, <2>2, <2>3, <2>4 DEF Signal!Next, Signal!Attempt
<1>o. ASSUME NEW d \in Decision, rec[d] \in Sent, NEW state \in Answers(d),
             rec' = [rec EXCEPT ![d] = Outcome(state)]
      PROVE  [Signal!Next]_(Signal!vars)
  <2>1. CASE Outcome(state) = "rejected"
    <3>1. row[d] = "rejected"
      BY <1>o, <2>1 DEF Outcome, Answers
    <3>2. QED BY <1>o, <1>r, <2>1, <3>1
  <2>2. CASE Outcome(state) # "rejected"
    <3>1. Outcome(state) \in Sent
      BY <2>2 DEF Outcome, Sent
    <3>2. QED BY <1>o, <1>k, <3>1
  <2>3. QED BY <2>1, <2>2
<1>4. ASSUME NEW d \in Decision, NEW state \in Answers(d), Recover(d, state)
      PROVE  [Signal!Next]_(Signal!vars)
  <2>1. rec[d] \in Sent
    BY <1>4 DEF Recover, WorkerInv, TickInv, Pending, Sent
  <2>2. rec' = [rec EXCEPT ![d] = Outcome(state)]
    BY <1>4 DEF Recover
  <2>3. QED BY <1>o, <2>1, <2>2
<1>b. ASSUME step \in {"post", "wait", "confirm"} PROVE bar \in Decision /\ rec[bar] \in Sent
  BY <1>b DEF WorkerInv, TickInv, Sent
<1>5. CASE Rejected
  BY <1>5, <1>b, <1>r DEF Rejected, Definite, WorkerInv, KnownInv
<1>6. CASE GiveUp
  BY <1>6, <1>b, <1>k DEF GiveUp, Sent
<1>7. CASE Confirm
  BY <1>7, <1>b, <1>o DEF Confirm
<1>8. QED
  BY <1>1, <1>2, <1>3, <1>4, <1>5, <1>6, <1>7
     DEF Tick, Snapshot, Abort, Post, Accepted, ReadCandles

\* The engine's own one-shot orders are the worker's signals: what it attempts
\* or abandons the worker does not know yet, what takes effect or is
\* acknowledged was sent.
LEMMA SignalAgent ==
  ASSUME EngineInv, EngineInv', WorkerInv, UNCHANGED rec, [Next]_vars
  PROVE  [Signal!Next]_(Signal!vars)
<1>p. \A d \in Decision : (pid[d] <=> Verdict[d] = "done") /\ (pid[d] <=> Verdict[d] = "done")'
  <2>1. ASSUME NEW d \in Decision, RowInv PROVE pid[d] <=> Verdict[d] = "done"
    <3>1. row[d] \in {"none", "rejected"} => ~pid[d]
      BY <2>1 DEF RowInv
    <3>2. CASE pid[d]
      <4>1. row[d] \notin {"none", "rejected"}
        BY <3>1, <3>2
      <4>2. Verdict[d] = "done"
        BY <3>2, <4>1 DEF Verdict
      <4>3. QED BY <3>2, <4>2
    <3>3. CASE ~pid[d]
      <4>1. Verdict[d] # "done"
        BY <3>3 DEF Verdict
      <4>2. QED BY <3>3, <4>1
    <3>4. QED BY <3>2, <3>3
  <2>2. ASSUME NEW d \in Decision, RowInv' PROVE (pid[d] <=> Verdict[d] = "done")'
    <3>1. row'[d] \in {"none", "rejected"} => ~pid'[d]
      BY <2>2 DEF RowInv
    <3>2. CASE pid'[d]
      <4>1. row'[d] \notin {"none", "rejected"}
        BY <3>1, <3>2
      <4>2. Verdict'[d] = "done"
        BY <3>2, <4>1 DEF Verdict
      <4>3. QED BY <3>2, <4>2
    <3>3. CASE ~pid'[d]
      <4>1. Verdict'[d] # "done"
        BY <3>3 DEF Verdict
      <4>2. QED BY <3>3, <4>1
    <3>4. QED BY <3>2, <3>3
  <2>3. QED BY <2>1, <2>2 DEF EngineInv
<1>s. ASSUME NEW d \in Decision, Verdict[d] = "pending"
      PROVE  rec[d] \in Sent /\ SignalVerdict[d] = "pending"
  <2>1. row[d] \notin {"none", "rejected"}
    BY <1>s DEF Verdict
  <2>2. rec[d] \in Sent
    <3>1. rec[d] \notin {"none", "skipped", "hold", "rejected"}
      BY <2>1, NotDone
    <3>2. QED BY <3>1 DEF WorkerInv, WTypeOK, Sent
  <2>3. ~pid[d]
    BY <1>p, <1>s
  <2>4. QED BY <2>2, <2>3, SignalOf
\* The verdict of a signal moves with that of the engine to done only.
<1>e. ASSUME NEW d \in Decision, (Verdict'[d] = "done") <=> (Verdict[d] = "done")
      PROVE  SignalVerdict'[d] = SignalVerdict[d]
  <2>1. pid'[d] <=> pid[d]
    BY <1>e, <1>p
  <2>2. QED BY <2>1 DEF SignalVerdict
<1>f. Verdict = [d \in Decision |-> Verdict[d]]
  BY DEF Verdict
<1>q. ASSUME \A d \in Decision : (Verdict'[d] = "done") <=> (Verdict[d] = "done")
      PROVE  UNCHANGED SignalVerdict
  BY <1>q, <1>e, SignalFunction
<1>1. CASE UNCHANGED OneShot!vars
  BY <1>1, <1>q DEF OneShot!vars, Signal!vars
<1>2. ASSUME NEW d \in Decision, OneShot!Attempt(d) \/ OneShot!Abandon(d)
      PROVE  UNCHANGED Signal!vars
  <2>1. /\ Verdict[d] # "done" /\ \E v \in {"pending", "void"} : Verdict' = [Verdict EXCEPT ![d] = v]
        /\ UNCHANGED Effect
    BY <1>2 DEF OneShot!Attempt, OneShot!Abandon
  <2>2. \A e \in Decision : (Verdict'[e] = "done") <=> (Verdict[e] = "done")
    BY <2>1, <1>f
  <2>3. QED BY <2>1, <2>2, <1>q DEF Signal!vars
<1>3. ASSUME NEW d \in Decision, OneShot!TakeEffect(d) PROVE Signal!Next
  <2>1. Verdict[d] = "pending" /\ ~Effect[d] /\ Effect' = [Effect EXCEPT ![d] = TRUE] /\ UNCHANGED Verdict
    BY <1>3 DEF OneShot!TakeEffect
  <2>2. SignalVerdict[d] = "pending" /\ UNCHANGED SignalVerdict
    BY <2>1, <1>s, <1>q
  <2>3. QED BY <2>1, <2>2 DEF Signal!Next, Signal!TakeEffect
<1>4. ASSUME NEW d \in Decision, OneShot!Acknowledge(d) PROVE Signal!Next
  <2>1. Verdict[d] = "pending" /\ Effect[d] /\ Verdict' = [Verdict EXCEPT ![d] = "done"] /\ UNCHANGED Effect
    BY <1>4 DEF OneShot!Acknowledge
  <2>2. Verdict'[d] = "done" /\ \A e \in Decision : e # d => Verdict'[e] = Verdict[e]
    BY <2>1, <1>f
  <2>3. rec[d] \in Sent /\ SignalVerdict[d] = "pending"
    BY <2>1, <1>s
  <2>4. pid'[d]
    BY <2>2, <1>p
  <2>5. SignalVerdict'[d] = "done"
    BY <2>3, <2>4 DEF SignalVerdict, Sent
  <2>6. \A e \in Decision : e # d => SignalVerdict'[e] = SignalVerdict[e]
    BY <2>2, <1>e
  <2>7. SignalVerdict' = [SignalVerdict EXCEPT ![d] = "done"]
    BY <2>5, <2>6, SignalFunction
  <2>8. QED BY <2>1, <2>3, <2>7 DEF Signal!Next, Signal!Acknowledge
<1>5. QED
  BY <1>1, <1>2, <1>3, <1>4, OneShotStep DEF OneShot!Next

\* From the bar to the broker, a signal is a one-shot order: across the
\* worker's death, the agent's, lost answers and late requests.
THEOREM SignalIsOneShot == WSpec => SignalIsOneShotOrder
<1>1. ASSUME EngineInv, EngineInv', WorkerInv, [WNext]_wvars PROVE [Signal!Next]_(Signal!vars)
  <2>1. CASE Tick
    BY <1>1, <2>1, SignalTick
  <2>2. CASE ~Tick
    <3>1. UNCHANGED rec
      BY <1>1, <2>2 DEF WNext, wvars, worker, WorkerCrash, Agent, Lose, Deliver, Refuse
    <3>2. QED BY <1>1, <3>1, StepEngine, SignalAgent
  <2>3. QED BY <2>1, <2>2
<1>2. EngineInv /\ EngineInv' /\ WorkerInv /\ [WNext]_wvars => [Signal!Next]_(Signal!vars)
  BY <1>1
<1>3. QED
  BY <1>2, InitSignal, WorkerAgreement, PTL DEF WSpec, SignalIsOneShotOrder, Signal!Spec
=============================================================================
