------------------------- MODULE AuditOutboxProofs -------------------------
(***************************************************************************)
(* Proofs about AuditOutbox, for any number of processes on one journal.   *)
(* The argument: a batch has no holes but what the server holds, so the    *)
(* row a process is about to send is either held already or the very next  *)
(* one, and only that one can be on its way.                               *)
(***************************************************************************)
EXTENDS AuditOutbox, FiniteSetTheorems, TLAPS

-----------------------------------------------------------------------------
(* Steps.                                                                  *)

Places == {"down", "loop", "select", "wait"} \cup Preflight \cup Collecting \cup Saving \cup Sending

\* An event is stored exactly when it is among the first ones.
LEMMA StoredIsFirst ==
  ASSUME OTypeOK, InOrder, NEW e \in Event
  PROVE  IsStored(e) <=> e <= Len(stored)
BY DEF OTypeOK, InOrder, IsStored, Event

\* What a process is about to send is stored, or the next one.
LEMMA OldestIsNext ==
  ASSUME OTypeOK, InOrder, BatchInv, NEW w \in Worker, NEW e \in batch[w], Oldest(w, e)
  PROVE  e \in Event /\ e <= Len(stored) + 1
<1>1. e \in Event /\ Len(stored) \in Nat
  BY DEF OTypeOK
<1>2. CASE e > Len(stored) + 1
  <2>1. Len(stored) + 1 \in 1..e
    BY <1>1, <1>2 DEF Event
  <2>2. Len(stored) + 1 \in batch[w]
    BY <1>1, <2>1 DEF BatchInv
  <2>3. QED BY <1>1, <1>2, <2>2 DEF Oldest, Event
<1>3. QED BY <1>1, <1>2 DEF Event

\* A batch leaves nothing out but what is delivered.
LEMMA BatchIsFirst ==
  ASSUME OTypeOK, NEW e \in Batch, NEW f \in 1..e
  PROVE  f \in Batch \/ f \in delivered
<1>1. e \in Event /\ f \in Event /\ Undelivered \subseteq Event
  BY DEF OTypeOK, Batch, Undelivered, Event
<1>2. IsFiniteSet(Event)
  BY FS_Interval DEF OTypeOK, Event
<1> DEFINE Upto(g) == {h \in Undelivered : h <= g}
<1>3. Upto(f) \subseteq Upto(e)
  <2>1. e \in Nat /\ f \in Nat /\ f <= e /\ Undelivered \subseteq Nat
    BY <1>1 DEF OTypeOK, Event
  <2>2. \A h \in Undelivered : h <= f => h <= e
    BY <2>1
  <2>3. QED BY <2>2
<1>4. IsFiniteSet(Upto(e)) /\ Upto(e) \subseteq Event
  BY <1>1, <1>2, FS_Subset
<1>5. /\ Cardinality(Upto(f)) <= Cardinality(Upto(e))
      /\ Cardinality(Upto(f)) \in Nat /\ Cardinality(Upto(e)) \in Nat
  <2>1. Upto(f) \in SUBSET Upto(e) /\ IsFiniteSet(Upto(e))
    BY <1>3, <1>4
  <2> HIDE DEF Upto
  <2>2. IsFiniteSet(Upto(f)) /\ Cardinality(Upto(f)) <= Cardinality(Upto(e))
    BY <2>1, FS_Subset
  <2>3. QED BY <2>1, <2>2, FS_CardinalityType
<1>6. Cardinality(Upto(e)) <= BatchSize
  BY DEF Batch
<1>7. CASE f \in Undelivered
  BY <1>5, <1>6, <1>7, OutboxAssumption DEF Batch
<1>8. QED BY <1>1, <1>7 DEF Undelivered

\* Journal, server and disk stay, and no process has more to send.
LEMMA Frame ==
  ASSUME OutboxInv, UNCHANGED <<durable, server>>,
         \A w \in Worker :
           \/ batch'[w] = batch[w] /\ (pc'[w] = "mark" => pc[w] = "mark")
           \/ batch'[w] = {}
  PROVE  (InOrder /\ BatchInv /\ Backed)'
<1>1. InOrder' /\ Backed'
  BY DEF OutboxInv, InOrder, Backed, Event, durable, server
<1>2. BatchInv'
  BY DEF OutboxInv, BatchInv, Oldest, durable, server
<1>3. QED BY <1>1, <1>2

LEMMA InitInv == Init => OutboxInv
<1> SUFFICES ASSUME Init PROVE OutboxInv
  OBVIOUS
<1>1. Event = {}
  BY DEF Init, Event
<1>2. OTypeOK
  BY <1>1, OutboxAssumption DEF Init, OTypeOK
<1>3. InOrder /\ BatchInv /\ Backed /\ PlanInv
  BY <1>1 DEF Init, InOrder, BatchInv, Backed, PlanInv
<1>4. QED BY <1>2, <1>3 DEF OutboxInv

LEMMA TypeStep ==
  ASSUME OutboxInv, Next \/ UNCHANGED vars
  PROVE  OTypeOK' /\ PlanInv'
<1> USE OutboxAssumption DEF OutboxInv, OTypeOK, PlanInv, durable, server, memory, Goto, Event,
        Preflight, Collecting, Saving, Sending
<1>1. ASSUME NEW w \in Worker, Ends(w), turns' = turns \/ turns' = turns + 1
      PROVE  OTypeOK' /\ PlanInv'
  BY <1>1 DEF Ends
<1>2. ASSUME NEW w \in Worker, Start(w) PROVE OTypeOK' /\ PlanInv'
  BY <1>2 DEF Start
<1>3. ASSUME NEW w \in Worker, Crash(w) \/ CollectionFails(w) PROVE OTypeOK' /\ PlanInv'
  BY <1>1, <1>3 DEF Crash, CollectionFails
<1>4. ASSUME NEW w \in Worker, Answer(w) PROVE OTypeOK' /\ PlanInv'
  <2>1. CASE pc[w] = "stats"
    <3>1. pc' = [pc EXCEPT ![w] = "history"]
      BY <1>4, <2>1 DEF Answer, Sequel
    <3>2. /\ \E n \in 1..TopN : todo' = [todo EXCEPT ![w] = n]
          /\ attempt' = [attempt EXCEPT ![w] = 0]
          /\ UNCHANGED <<durable, server, collected, made, own, batch, turns>>
      BY <1>4, <2>1 DEF Answer
    <3>3. todo' \in [Worker -> Nat] /\ todo'[w] > 0 /\ \A v \in Worker \ {w} : todo'[v] = todo[v]
      BY <3>2
    <3>4. QED BY <3>1, <3>2, <3>3
  <2>2. CASE pc[w] # "stats"
    <3>1. PICK s \in {"probe", "loop", "stats", "funding", "dataset"} :
            pc' = [pc EXCEPT ![w] = s]
                 /\ (s \in {"funding", "dataset"} => pc[w] \in {"history", "funding"})
      <4>1. pc' = [pc EXCEPT ![w] = Sequel[pc[w]]]
        BY <1>4 DEF Answer
      <4>2. pc[w] \in {"profile", "probe", "markets", "history", "funding"}
        BY <1>4, <2>2 DEF Answer
      <4>3. /\ Sequel[pc[w]] \in {"probe", "loop", "stats", "funding", "dataset"}
            /\ Sequel[pc[w]] \in {"funding", "dataset"} => pc[w] \in {"history", "funding"}
        BY <4>2 DEF Sequel
      <4>4. QED BY <4>1, <4>3
    <3>2. /\ attempt' = [attempt EXCEPT ![w] = 0]
          /\ UNCHANGED <<durable, server, collected, todo, made, own, batch, turns>>
      BY <1>4, <2>2 DEF Answer
    <3>3. QED BY <3>1, <3>2
  <2>3. QED BY <2>1, <2>2
<1>5. ASSUME NEW w \in Worker, Retry(w) PROVE OTypeOK' /\ PlanInv'
  BY <1>5 DEF Retry
<1>6. ASSUME NEW w \in Worker, PreflightFails(w) PROVE OTypeOK' /\ PlanInv'
  <2>1. CASE Ends(w) /\ UNCHANGED turns
    BY <1>1, <2>1
  <2>2. CASE ~(Ends(w) /\ UNCHANGED turns)
    <3>1. PICK s \in {"loop", "probe"} : pc' = [pc EXCEPT ![w] = s]
      BY <1>6, <2>2 DEF PreflightFails, Blocked
    <3>2. /\ attempt' = [attempt EXCEPT ![w] = 0]
          /\ UNCHANGED <<durable, server, collected, todo, made, own, batch, turns>>
      BY <1>6, <2>2 DEF PreflightFails, Blocked
    <3>3. QED BY <3>1, <3>2
  <2>3. QED BY <2>1, <2>2
<1>7. ASSUME NEW w \in Worker, Collect(w) PROVE OTypeOK' /\ PlanInv'
  BY <1>7 DEF Collect
<1>8. ASSUME NEW w \in Worker, SaveDataset(w) \/ SaveModel(w) PROVE OTypeOK' /\ PlanInv'
  <2>1. PICK s \in {"dataset", "train"}, then \in {"snapshot", "checkpoint"} :
          Complete(w, s, then) /\ (s = "dataset" <=> then = "snapshot")
    BY <1>8 DEF SaveDataset, SaveModel
  <2>2. disk' \in Nat /\ own' \in [Worker -> 0..disk']
    BY <2>1 DEF Complete
  <2>3. pc' = [pc EXCEPT ![w] = then] /\ pc[w] = s
    BY <2>1 DEF Complete
  <2>4. UNCHANGED <<journal, delivered, stored, wire, attempt, collected, todo, made, batch, turns>>
    BY <2>1 DEF Complete
  <2>5. PlanInv'
    BY <2>1, <2>3, <2>4
  <2>6. OTypeOK'
    BY <2>2, <2>3, <2>4
  <2>7. QED BY <2>5, <2>6
<1>9. ASSUME NEW w \in Worker, Snapshot(w) PROVE OTypeOK' /\ PlanInv'
  <2>1. PICK next \in {"history", "train", "select"} :
          /\ pc' = [pc EXCEPT ![w] = next] /\ (next = "history" => todo[w] > 1)
          /\ collected' \in [Worker -> BOOLEAN]
    BY <1>9 DEF Snapshot
  <2>2. /\ pc[w] = "snapshot" /\ journal' = Append(journal, own[w])
        /\ todo' = [todo EXCEPT ![w] = @ - 1] /\ made' = [made EXCEPT ![w] = @ + 1]
        /\ UNCHANGED <<delivered, disk, server, attempt, own, batch, turns>>
    BY <1>9 DEF Snapshot, AppendEvent
  <2>3. journal' \in Seq(Nat) /\ Event \subseteq Event'
    BY <2>2
  <2>4. todo' \in [Worker -> Nat] /\ made' \in [Worker -> Nat]
    BY <2>2
  <2>5. PlanInv'
    BY <2>1, <2>2, <2>4
  <2>6. QED BY <2>1, <2>2, <2>3, <2>4, <2>5
<1>10. ASSUME NEW w \in Worker, Checkpoint(w) PROVE OTypeOK' /\ PlanInv'
  BY <1>10 DEF Checkpoint, AppendEvent
<1>11. CASE Shadow
  BY <1>11 DEF Shadow, AppendEvent
<1>12. ASSUME NEW w \in Worker, Select(w) PROVE OTypeOK' /\ PlanInv'
  BY <1>12 DEF Select, Batch, Undelivered
<1>13. ASSUME NEW w \in Worker, Post(w) PROVE OTypeOK' /\ PlanInv'
  BY <1>13 DEF Post
<1>14. CASE \E e \in wire : Land(e) \/ Lose(e)
  <2>1. stored' \in Seq(Nat) /\ wire' \subseteq Event
    <3>1. PICK e \in wire : Land(e) \/ Lose(e)
      BY <1>14
    <3>2. e \in Nat /\ stored \in Seq(Nat)
      OBVIOUS
    <3>3. wire' = wire \ {e}
      BY <3>1 DEF Land, Lose
    <3>4. stored' = Append(stored, e) \/ stored' = stored
      BY <3>1 DEF Land, Lose
    <3>5. stored' \in Seq(Nat)
      <4>1. Append(stored, e) \in Seq(Nat)
        BY <3>2
      <4>2. QED BY <3>2, <3>4, <4>1
    <3>6. QED BY <3>3, <3>5
  <2>2. UNCHANGED <<durable, memory, turns>>
    BY <1>14 DEF Land, Lose
  <2>3. QED BY <2>1, <2>2
<1>15. ASSUME NEW w \in Worker, Acked(w) PROVE OTypeOK' /\ PlanInv'
  BY <1>15 DEF Acked
<1>16. ASSUME NEW w \in Worker, Unacked(w) PROVE OTypeOK' /\ PlanInv'
  BY <1>16 DEF Unacked, Sends, AfterFailure
<1>17. ASSUME NEW w \in Worker, Mark(w) PROVE OTypeOK' /\ PlanInv'
  BY <1>17 DEF Mark, Sends
<1>18. ASSUME NEW w \in Worker, EndRound(w) PROVE OTypeOK' /\ PlanInv'
  BY <1>1, <1>18 DEF EndRound
<1>19. CASE UNCHANGED vars
  BY <1>19 DEF vars
<1>20. QED
  BY <1>2, <1>3, <1>4, <1>5, <1>6, <1>7, <1>8, <1>9, <1>10, <1>11, <1>12, <1>13, <1>14, <1>15,
     <1>16, <1>17, <1>18, <1>19 DEF Next, Process, Proceed

\* An event more in the journal disturbs nothing.
LEMMA AppendKeeps ==
  ASSUME OutboxInv, NEW n \in 0..disk, AppendEvent(n), UNCHANGED batch,
         \A w \in Worker : pc'[w] = "mark" => pc[w] = "mark"
  PROVE  (InOrder /\ BatchInv /\ Backed)'
<1>1. journal' = Append(journal, n) /\ UNCHANGED <<delivered, disk, stored, wire, batch>>
  BY DEF AppendEvent, server
<1>2. Len(journal') = Len(journal) + 1 /\ Len(journal) \in Nat
  BY <1>1 DEF OutboxInv, OTypeOK
<1>3. \A i \in 1..Len(journal') : journal'[i] = IF i = Len(journal) + 1 THEN n ELSE journal[i]
  BY <1>1, <1>2 DEF OutboxInv, OTypeOK
<1>4. InOrder'
  BY <1>1, <1>2 DEF OutboxInv, InOrder, OTypeOK
<1>5. Backed'
  BY <1>1, <1>2, <1>3 DEF OutboxInv, OTypeOK, Backed, Event
<1>6. BatchInv'
  BY <1>1 DEF OutboxInv, BatchInv, Oldest
<1>7. QED BY <1>4, <1>5, <1>6

LEMMA TrailStep ==
  ASSUME OutboxInv, Next \/ UNCHANGED vars
  PROVE  (InOrder /\ BatchInv /\ Backed)'
<1> DEFINE Kept == (InOrder /\ BatchInv /\ Backed)'
<1> USE DEF Goto
<1>1. ASSUME NEW w \in Worker, Ends(w) PROVE Kept
  BY <1>1, Frame DEF Ends, OutboxInv, OTypeOK
<1>2. ASSUME NEW w \in Worker,
             Start(w) \/ Answer(w) \/ Retry(w) \/ PreflightFails(w) \/ Collect(w)
      PROVE  Kept
  <2>1. CASE Ends(w)
    BY <1>1, <2>1
  <2>2. CASE ~Ends(w)
    <3>1. UNCHANGED <<durable, server, batch>>
      BY <1>2, <2>2 DEF Start, Answer, Retry, PreflightFails, Blocked, Collect
    <3>2. pc' = pc \/ \E s : s # "mark" /\ pc' = [pc EXCEPT ![w] = s]
      <4>1. CASE Answer(w)
        <5>1. Sequel[pc[w]] # "mark" /\ pc' = [pc EXCEPT ![w] = Sequel[pc[w]]]
          BY <4>1 DEF Answer, Sequel, Preflight, Collecting
        <5>2. QED BY <5>1
      <4>2. QED BY <1>2, <2>2, <4>1 DEF Start, Retry, PreflightFails, Blocked, Collect
    <3>3. \A v \in Worker : pc'[v] = "mark" => pc[v] = "mark"
      BY <3>2 DEF OutboxInv, OTypeOK
    <3>4. QED BY <3>1, <3>3, Frame
  <2>3. QED BY <2>1, <2>2
<1>3. ASSUME NEW w \in Worker, Crash(w) \/ CollectionFails(w) PROVE Kept
  BY <1>1, <1>3 DEF Crash, CollectionFails
<1>4. ASSUME NEW w \in Worker, SaveDataset(w) \/ SaveModel(w) PROVE Kept
  <2>1. /\ disk' = disk + 1 /\ UNCHANGED <<journal, delivered, server, batch>>
        /\ \E s \in {"snapshot", "checkpoint"} : pc' = [pc EXCEPT ![w] = s]
    BY <1>4 DEF SaveDataset, SaveModel, Complete
  <2>2. \A v \in Worker : pc'[v] = "mark" => pc[v] = "mark"
    BY <2>1 DEF OutboxInv, OTypeOK
  <2>3. InOrder' /\ BatchInv'
    BY <2>1, <2>2 DEF OutboxInv, InOrder, BatchInv, Oldest, server
  <2>4. Backed'
    BY <2>1 DEF OutboxInv, Backed, OTypeOK, Event
  <2>5. QED BY <2>3, <2>4
<1>5. ASSUME NEW w \in Worker, Snapshot(w) \/ Checkpoint(w) PROVE Kept
  <2>1. AppendEvent(own[w]) /\ own[w] \in 0..disk /\ UNCHANGED batch
    BY <1>5 DEF Snapshot, Checkpoint, OutboxInv, OTypeOK
  <2>2. \E s \in {"history", "train", "select"} : pc' = [pc EXCEPT ![w] = s]
    BY <1>5 DEF Snapshot, Checkpoint
  <2>3. \A v \in Worker : pc'[v] = "mark" => pc[v] = "mark"
    BY <2>2 DEF OutboxInv, OTypeOK
  <2>4. QED BY <2>1, <2>3, AppendKeeps
<1>6. CASE Shadow
  <2>1. AppendEvent(0) /\ UNCHANGED <<batch, pc>> /\ 0 \in 0..disk
    BY <1>6 DEF Shadow, memory, OutboxInv, OTypeOK
  <2>2. QED BY <2>1, AppendKeeps
<1>7. ASSUME NEW w \in Worker, Select(w) PROVE Kept
  <2>1. /\ UNCHANGED <<durable, server>> /\ batch' = [batch EXCEPT ![w] = Batch]
        /\ \E s \in {"wait", "post"} : pc' = [pc EXCEPT ![w] = s]
    BY <1>7 DEF Select
  <2>2. InOrder' /\ Backed'
    BY <2>1 DEF OutboxInv, InOrder, Backed, Event, durable, server
  <2>3. \A e \in Batch : \A f \in 1..e : f \in Batch \/ f <= Len(stored)
    BY BatchIsFirst DEF OutboxInv, InOrder
  <2>4. \A v \in Worker : /\ batch'[v] = IF v = w THEN Batch ELSE batch[v]
                          /\ pc'[v] = "mark" => v # w /\ pc[v] = "mark"
    BY <2>1 DEF OutboxInv, OTypeOK
  <2>5. UNCHANGED <<stored, wire>>
    BY <2>1 DEF server
  <2>6. BatchInv'
    BY <2>3, <2>4, <2>5 DEF OutboxInv, BatchInv, Oldest
  <2>7. QED BY <2>2, <2>6
<1>8. ASSUME NEW w \in Worker, Post(w) PROVE Kept
  <2>1. PICK e \in batch[w] : Oldest(w, e) /\ wire' = wire \cup {f \in {e} : ~IsStored(f)}
    BY <1>8 DEF Post
  <2>2. UNCHANGED <<durable, stored, batch>> /\ pc' = [pc EXCEPT ![w] = "await"]
    BY <1>8 DEF Post
  <2>3. e \in Event /\ e <= Len(stored) + 1 /\ (IsStored(e) <=> e <= Len(stored))
    BY <2>1, OldestIsNext, StoredIsFirst DEF OutboxInv
  <2>4. \A f \in wire' : f = Len(stored) + 1
    BY <2>1, <2>3 DEF OutboxInv, BatchInv, OTypeOK, Event
  <2>5. \A v \in Worker : pc'[v] = "mark" => pc[v] = "mark"
    BY <2>2 DEF OutboxInv, OTypeOK
  <2>6. BatchInv'
    BY <2>2, <2>4, <2>5 DEF OutboxInv, BatchInv, Oldest
  <2>7. QED BY <2>2, <2>6 DEF OutboxInv, InOrder, Backed, Event, durable
<1>9. ASSUME NEW e \in wire, Land(e) PROVE Kept
  <2>1. stored' = Append(stored, e) /\ wire' = wire \ {e} /\ UNCHANGED <<durable, memory>>
    BY <1>9 DEF Land
  <2>2. e = Len(stored) + 1 /\ e <= Len(journal) /\ \A f \in wire : f = e
    BY DEF OutboxInv, BatchInv, OTypeOK, Event
  <2>3. Len(stored') = Len(stored) + 1 /\ Len(stored) \in Nat /\ stored'[e] = e
        /\ \A i \in 1..Len(stored) : stored'[i] = stored[i]
    BY <2>1, <2>2 DEF OutboxInv, OTypeOK
  <2>4. InOrder'
    <3>1. \A i \in 1..Len(stored') : stored'[i] = i
      BY <2>2, <2>3 DEF OutboxInv, InOrder
    <3>2. \A f \in delivered : f <= Len(stored')
      BY <2>3 DEF OutboxInv, InOrder, OTypeOK, Event
    <3>3. QED BY <2>1, <2>2, <2>3, <3>1, <3>2 DEF InOrder, durable
  <2>5. \A f \in 1..Len(journal) : f <= Len(stored) => f <= Len(stored')
    BY <2>3
  <2>6. BatchInv'
    <3>1. wire' = {}
      BY <2>1, <2>2
    <3>2. UNCHANGED <<batch, pc>>
      BY <2>1 DEF memory
    <3>3. ASSUME NEW v \in Worker, NEW g \in batch[v]
          PROVE  /\ \A f \in 1..g : f \in batch[v] \/ f <= Len(stored')
                 /\ pc[v] = "mark" => (Oldest(v, g) => g <= Len(stored'))
      <4>1. g \in 1..Len(journal)
        BY DEF OutboxInv, OTypeOK, Event
      <4>2. QED BY <2>5, <4>1 DEF OutboxInv, BatchInv, OTypeOK
    <3>4. QED BY <3>1, <3>2, <3>3 DEF BatchInv, Oldest
  <2>7. QED BY <2>1, <2>4, <2>6 DEF OutboxInv, Backed, Event, durable
<1>10. ASSUME NEW e \in wire, Lose(e) PROVE Kept
  <2>1. wire' = wire \ {e} /\ UNCHANGED <<durable, stored, memory>>
    BY <1>10 DEF Lose
  <2>2. QED
    BY <2>1 DEF OutboxInv, InOrder, BatchInv, Oldest, Backed, Event, durable, memory
<1>11. ASSUME NEW w \in Worker, Acked(w) PROVE Kept
  <2>1. PICK e \in batch[w] : Oldest(w, e) /\ IsStored(e)
    BY <1>11 DEF Acked
  <2>2. e <= Len(stored)
    BY <2>1, StoredIsFirst DEF OutboxInv, OTypeOK
  <2>3. UNCHANGED <<durable, server, batch>> /\ pc' = [pc EXCEPT ![w] = "mark"]
    BY <1>11 DEF Acked
  <2>4. \A f \in batch[w] : Oldest(w, f) => f = e
    BY <2>1 DEF Oldest, OutboxInv, OTypeOK, Event
  <2>5. \A v \in Worker : v # w => pc'[v] = pc[v]
    BY <2>3 DEF OutboxInv, OTypeOK
  <2>6. BatchInv'
    BY <2>2, <2>3, <2>4, <2>5 DEF OutboxInv, BatchInv, Oldest, server
  <2>7. QED BY <2>3, <2>6 DEF OutboxInv, InOrder, Backed, Event, durable, server
<1>12. ASSUME NEW w \in Worker, Unacked(w) PROVE Kept
  <2>1. batch' = [batch EXCEPT ![w] = {}] /\ pc' = [pc EXCEPT ![w] = "wait"]
        /\ UNCHANGED <<durable, server>>
    BY <1>12 DEF Unacked, Sends, AfterFailure
  <2>2. \A v \in Worker : \/ batch'[v] = batch[v] /\ (pc'[v] = "mark" => pc[v] = "mark")
                          \/ batch'[v] = {}
    BY <2>1 DEF OutboxInv, OTypeOK
  <2>3. QED BY <2>1, <2>2, Frame
<1>13. ASSUME NEW w \in Worker, Mark(w) PROVE Kept
  <2>1. PICK e \in batch[w] : Oldest(w, e) /\ delivered' = delivered \cup {e}
                              /\ batch' = [batch EXCEPT ![w] = @ \ {e}]
    BY <1>13 DEF Mark, Sends
  <2>2. /\ UNCHANGED <<journal, disk, server>> /\ pc[w] = "mark"
        /\ \E s \in {"wait", "post"} : pc' = [pc EXCEPT ![w] = s]
    BY <1>13 DEF Mark, Sends
  <2>3. e <= Len(stored)
    BY <2>1, <2>2 DEF OutboxInv, BatchInv
  <2>4. InOrder' /\ Backed'
    BY <2>1, <2>2, <2>3 DEF OutboxInv, InOrder, Backed, Event, server
  <2>5. \A v \in Worker : /\ batch'[v] = IF v = w THEN batch[w] \ {e} ELSE batch[v]
                          /\ pc'[v] = "mark" => v # w /\ pc[v] = "mark"
    BY <2>1, <2>2 DEF OutboxInv, OTypeOK
  <2>6. UNCHANGED <<stored, wire>>
    BY <2>2 DEF server
  <2>7. BatchInv'
    BY <2>3, <2>5, <2>6 DEF OutboxInv, BatchInv, Oldest
  <2>8. QED BY <2>4, <2>7
<1>14. ASSUME NEW w \in Worker, EndRound(w) PROVE Kept
  <2>1. CASE w \in Served
    <3>1. UNCHANGED <<durable, server, batch>> /\ pc' = [pc EXCEPT ![w] = "loop"]
      BY <1>14, <2>1 DEF EndRound
    <3>2. \A v \in Worker : pc'[v] = "mark" => pc[v] = "mark"
      BY <3>1 DEF OutboxInv, OTypeOK
    <3>3. QED BY <3>1, <3>2, Frame
  <2>2. CASE w \notin Served
    BY <1>1, <1>14, <2>2 DEF EndRound
  <2>3. QED BY <2>1, <2>2
<1>15. CASE UNCHANGED vars
  BY <1>15, Frame DEF vars, memory
<1>16. QED
  BY <1>2, <1>3, <1>4, <1>5, <1>6, <1>7, <1>8, <1>9, <1>10, <1>11, <1>12, <1>13, <1>14, <1>15
     DEF Next, Process, Proceed
-----------------------------------------------------------------------------
(* Theorems.                                                               *)

LEMMA InvStep == OutboxInv /\ [Next]_vars => OutboxInv'
BY TypeStep, TrailStep DEF OutboxInv

\* The outbox keeps its types, its batches have no holes, and an event never
\* names what is not on disk.
THEOREM OutboxInvariant == Spec => []OutboxInv
BY InitInv, InvStep, PTL DEF Spec

\* However many workers flush one journal, and whatever of their posts is lost
\* or late, the server holds the beginning of the journal, in its order and
\* once, and nothing counts as delivered that it does not hold.
THEOREM TrailIsKept == Spec => []AuditTrailKept
<1>1. OutboxInv => AuditTrailKept
  BY DEF OutboxInv, AuditTrailKept
<1>2. QED BY <1>1, OutboxInvariant, PTL
=============================================================================
