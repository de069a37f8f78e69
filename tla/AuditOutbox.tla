---------------------------- MODULE AuditOutbox ----------------------------
(***************************************************************************)
(* The research worker and its audit trail: Worker.run (truetrade/main.py) *)
(* checks the connection (scripts/check_connection.py), collects datasets  *)
(* from the exchange (exchange/collector.py over ExchangeClient.request),  *)
(* trains on them, appends an audit event for each to the journal          *)
(* (persistence/store.py), and lets SupabaseSink.flush post the events the *)
(* server does not have yet.  Only the MT5 agent leases its directory:     *)
(* another worker (main.py --once) may share the journal, and so does      *)
(* scripts/shadow.py, whose default is the same file.                      *)
(*                                                                         *)
(* Simplifications.                                                        *)
(*  - An event is its rowid; what the model keeps of its payload is the    *)
(*    number of the dataset or model it names, 0 if it names none.         *)
(*  - A dataset or a model is made in one step: its directory is new, and  *)
(*    nothing names it before it is complete.                              *)
(*  - The chunks of a history are one request, and so are all candidates'  *)
(*    checks of their rows; pauses take no time.                           *)
(*  - Keys and sink are configured.  SIGTERM, which ends a worker at the   *)
(*    top of its loop, is one of the crashes.                              *)
(***************************************************************************)
EXTENDS Naturals, Sequences, FiniteSets

CONSTANTS
  Worker,      \* the processes
  Served,      \* those that run until they fail; the others run --once
  Collectors,  \* those with BOT_MODE=collect; the others have research
  MaxRetries,  \* Settings.max_retries
  TopN,        \* scan_top_n of the mapping
  BatchSize,   \* flush's batch_size
  MaxShadow,   \* bound: shadow.py writes while there are fewer events
  MaxTurns     \* bound: crashes, failing collections and further collections

ASSUME OutboxAssumption ==
  /\ Served \subseteq Worker /\ Collectors \subseteq Worker
  /\ MaxRetries \in Nat /\ TopN \in Nat \ {0} /\ BatchSize \in Nat \ {0}
  /\ MaxShadow \in Nat /\ MaxTurns \in Nat

VARIABLES
  \* the state directory
  journal,    \* events, in the order of their rowids
  delivered,  \* those with delivered = 1
  disk,       \* datasets and models, numbered as they are completed
  \* Supabase and the way there
  stored,     \* the events of its tables, in the order they were inserted
  wire,       \* events it lacks whose posts may still reach it
  \* a process
  pc,         \* what it does next
  attempt,    \* of the request it is making
  collected,  \* has it collected since it started?
  todo,       \* candidates of this collection still to do
  made,       \* datasets of this collection still to train on
  own,        \* the dataset or model it completed last
  batch,      \* rows flush has still to send
  \* history
  turns

durable == <<journal, delivered, disk>>
server == <<stored, wire>>
memory == <<pc, attempt, collected, todo, made, own, batch>>
vars == <<durable, server, memory, turns>>

Preflight == {"profile", "probe"}
Collecting == {"markets", "stats", "history", "funding"}
Saving == {"dataset", "snapshot", "train", "checkpoint"}
Sending == {"post", "await", "mark"}

Event == 1..Len(journal)

Init ==
  /\ journal = <<>> /\ delivered = {} /\ disk = 0
  /\ stored = <<>> /\ wire = {}
  /\ pc = [w \in Worker |-> "down"] /\ attempt = [w \in Worker |-> 0]
  /\ collected = [w \in Worker |-> FALSE]
  /\ todo = [w \in Worker |-> 0] /\ made = [w \in Worker |-> 0]
  /\ own = [w \in Worker |-> 0]
  /\ batch = [w \in Worker |-> {}]
  /\ turns = 0

Goto(w, s) == pc' = [pc EXCEPT ![w] = s]
-----------------------------------------------------------------------------
(* Starting and ending.                                                    *)

\* What a process knows is gone with it; so are the rows it was sending.
Ends(w) ==
  /\ Goto(w, "down")
  /\ attempt' = [attempt EXCEPT ![w] = 0]
  /\ collected' = [collected EXCEPT ![w] = FALSE]
  /\ todo' = [todo EXCEPT ![w] = 0] /\ made' = [made EXCEPT ![w] = 0]
  /\ own' = [own EXCEPT ![w] = 0] /\ batch' = [batch EXCEPT ![w] = {}]
  /\ UNCHANGED <<durable, server>>

Start(w) ==
  /\ pc[w] = "down" /\ Goto(w, "profile")
  /\ UNCHANGED <<durable, server, attempt, collected, todo, made, own, batch, turns>>

Crash(w) ==
  /\ pc[w] # "down" /\ turns < MaxTurns
  /\ turns' = turns + 1
  /\ Ends(w)
-----------------------------------------------------------------------------
(* ExchangeClient.request.                                                 *)

\* Where an answer leads.
Sequel ==
  [profile |-> "probe", probe |-> "loop", markets |-> "stats", stats |-> "history",
   history |-> "funding", funding |-> "dataset"]

\* rank leaves some candidates, the best TopN of which are collected.
Answer(w) ==
  /\ pc[w] \in Preflight \cup Collecting
  /\ Goto(w, Sequel[pc[w]])
  /\ attempt' = [attempt EXCEPT ![w] = 0]
  /\ IF pc[w] = "stats" THEN \E n \in 1..TopN : todo' = [todo EXCEPT ![w] = n]
                        ELSE UNCHANGED todo
  /\ UNCHANGED <<durable, server, collected, made, own, batch, turns>>

\* Nothing came back, or a status that allows another attempt after a pause;
\* after the last one there is none.
Retry(w) ==
  /\ pc[w] \in Preflight \cup Collecting /\ attempt[w] < MaxRetries
  /\ attempt' = [attempt EXCEPT ![w] = @ + 1]
  /\ UNCHANGED <<durable, server, pc, collected, todo, made, own, batch, turns>>

\* A collector does not start on a connection that was not checked; the
\* research worker goes on without.
Blocked(w) == IF w \in Collectors THEN Ends(w) /\ UNCHANGED turns
  ELSE /\ Goto(w, "loop") /\ attempt' = [attempt EXCEPT ![w] = 0]
       /\ UNCHANGED <<durable, server, collected, todo, made, own, batch, turns>>

\* The check is given up; a profile that is forbidden (403) does not stop it.
PreflightFails(w) ==
  /\ pc[w] \in Preflight
  /\ \/ Blocked(w)
     \/ /\ pc[w] = "profile" /\ Goto(w, "probe")
        /\ attempt' = [attempt EXCEPT ![w] = 0]
        /\ UNCHANGED <<durable, server, collected, todo, made, own, batch, turns>>
-----------------------------------------------------------------------------
(* Collection and training.                                                *)

\* The first round of a process collects; the later ones when it is time.
Collect(w) ==
  /\ pc[w] = "loop" /\ w \in Collectors
  /\ IF collected[w] THEN turns < MaxTurns /\ turns' = turns + 1 ELSE UNCHANGED turns
  /\ Goto(w, "markets")
  /\ made' = [made EXCEPT ![w] = 0]
  /\ UNCHANGED <<durable, server, attempt, collected, todo, own, batch>>

\* A refusal, a silence, a market list without candidates, candles with gaps
\* or too short a dataset: nothing in run catches it.
CollectionFails(w) ==
  /\ pc[w] \in Collecting \cup {"dataset", "train"} /\ turns < MaxTurns
  /\ turns' = turns + 1
  /\ Ends(w)

\* A directory of its own for what was made.
Complete(w, s, then) ==
  /\ pc[w] = s /\ Goto(w, then)
  /\ disk' = disk + 1 /\ own' = [own EXCEPT ![w] = disk + 1]
  /\ UNCHANGED <<journal, delivered, server, attempt, collected, todo, made, batch, turns>>

SaveDataset(w) == Complete(w, "dataset", "snapshot")
SaveModel(w) == Complete(w, "train", "checkpoint")

\* Journal.append: one transaction, under a new id.
AppendEvent(n) ==
  /\ journal' = Append(journal, n)
  /\ UNCHANGED <<delivered, disk, server>>

\* The dataset is on record; the next candidate, or the end of the collection
\* and the training, if it is enabled and due.
Snapshot(w) ==
  /\ pc[w] = "snapshot"
  /\ AppendEvent(own[w])
  /\ todo' = [todo EXCEPT ![w] = @ - 1] /\ made' = [made EXCEPT ![w] = @ + 1]
  /\ IF todo[w] > 1 THEN Goto(w, "history") /\ UNCHANGED collected
     ELSE /\ collected' = [collected EXCEPT ![w] = TRUE]
          /\ \E next \in {"train", "select"} : Goto(w, next)
  /\ UNCHANGED <<attempt, own, batch, turns>>

Checkpoint(w) ==
  /\ pc[w] = "checkpoint"
  /\ AppendEvent(own[w])
  /\ made' = [made EXCEPT ![w] = @ - 1]
  /\ Goto(w, IF made[w] > 1 THEN "train" ELSE "select")
  /\ UNCHANGED <<attempt, collected, todo, own, batch, turns>>

\* scripts/shadow.py writes its decisions to the journal meanwhile.
Shadow ==
  /\ Len(journal) < MaxShadow
  /\ AppendEvent(0)
  /\ UNCHANGED <<memory, turns>>
-----------------------------------------------------------------------------
(* SupabaseSink.flush.                                                     *)

\* Mutant of Undelivered: every event, delivered or not.
Everything == Event

Undelivered == Event \ delivered

\* The oldest ones.
Batch == {e \in Undelivered : Cardinality({f \in Undelivered : f <= e}) <= BatchSize}

\* No Collect is due, or there is nothing to collect.
Select(w) ==
  /\ \/ pc[w] = "select"
     \/ pc[w] = "loop" /\ (w \notin Collectors \/ collected[w])
  /\ batch' = [batch EXCEPT ![w] = Batch]
  /\ Goto(w, IF Batch = {} THEN "wait" ELSE "post")
  /\ UNCHANGED <<durable, server, attempt, collected, todo, made, own, turns>>

\* The row it is about to send.
Oldest(w, e) == e \in batch[w] /\ \A f \in batch[w] : e <= f

IsStored(e) == \E i \in 1..Len(stored) : stored[i] = e

\* A row the server holds is ignored as a duplicate (on_conflict=id): such a
\* post need not be followed.
Post(w) ==
  /\ pc[w] = "post" /\ Goto(w, "await")
  /\ \E e \in batch[w] : Oldest(w, e) /\ wire' = wire \cup {f \in {e} : ~IsStored(f)}
  /\ UNCHANGED <<durable, stored, attempt, collected, todo, made, own, batch, turns>>

\* The row is inserted.
Land(e) ==
  /\ stored' = Append(stored, e) /\ wire' = wire \ {e}
  /\ UNCHANGED <<durable, memory, turns>>

\* A post that is refused, or lost on its way.
Lose(e) ==
  /\ wire' = wire \ {e}
  /\ UNCHANGED <<durable, stored, memory, turns>>

\* 2xx: what was sent is there.
Acked(w) ==
  /\ pc[w] = "await" /\ Goto(w, "mark")
  /\ \E e \in batch[w] : Oldest(w, e) /\ IsStored(e)
  /\ UNCHANGED <<durable, server, attempt, collected, todo, made, own, batch, turns>>

\* Mutant of AfterFailure: the row is left out.
SkipRow(w) == {f \in batch[w] : ~Oldest(w, f)}

\* The rest of the batch waits for another flush.
AfterFailure(w) == {}

Sends(w, rest) ==
  /\ batch' = [batch EXCEPT ![w] = rest]
  /\ Goto(w, IF rest = {} THEN "wait" ELSE "post")

\* Another status, or no answer in time: the post may still arrive.
Unacked(w) ==
  /\ pc[w] = "await"
  /\ Sends(w, AfterFailure(w))
  /\ UNCHANGED <<durable, server, attempt, collected, todo, made, own, turns>>

Mark(w) ==
  /\ pc[w] = "mark"
  /\ \E e \in batch[w] : Oldest(w, e) /\ delivered' = delivered \cup {e} /\ Sends(w, batch[w] \ {e})
  /\ UNCHANGED <<journal, disk, server, attempt, collected, todo, made, own, turns>>

\* --once is over; the others come round again.
EndRound(w) ==
  /\ pc[w] = "wait"
  /\ IF w \in Served
       THEN Goto(w, "loop") /\ UNCHANGED <<durable, server, attempt, collected, todo, made, own, batch>>
       ELSE Ends(w)
  /\ UNCHANGED turns
-----------------------------------------------------------------------------
Proceed(w) ==
  \/ Answer(w) \/ Retry(w) \/ PreflightFails(w)
  \/ Collect(w) \/ SaveDataset(w) \/ Snapshot(w) \/ SaveModel(w) \/ Checkpoint(w)
  \/ Select(w) \/ Post(w) \/ Acked(w) \/ Unacked(w) \/ Mark(w) \/ EndRound(w)

Process(w) == Start(w) \/ Crash(w) \/ CollectionFails(w) \/ Proceed(w)

Next ==
  \/ \E w \in Worker : Process(w)
  \/ Shadow
  \/ \E e \in wire : Land(e) \/ Lose(e)

Spec == Init /\ [][Next]_vars

\* A request ends, in an answer or a timeout, and a process that ended is
\* started again.  The exchange does not fail every check of the connection,
\* the network does not lose every post of a new event, nor every answer.
Insert == \E e \in wire : Land(e)

Fairness ==
  /\ \A w \in Served :
       /\ WF_vars(Start(w) \/ Proceed(w)) /\ SF_vars(Acked(w))
       /\ \A s \in Preflight : SF_vars(pc[w] = s /\ Answer(w))
  /\ SF_vars(Insert)

FairSpec == Spec /\ Fairness
-----------------------------------------------------------------------------
InOrder ==
  /\ Len(stored) <= Len(journal)
  /\ \A i \in 1..Len(stored) : stored[i] = i
  /\ \A e \in delivered : e <= Len(stored)

Backed == \A i \in Event : journal[i] <= disk

\* What the server holds is the beginning of the journal, in its order and
\* without repetition, and no event counts as delivered that it does not
\* hold: whatever is lost, late or sent twice, by whichever process
\* ("durable SQLite journal and transactional outbox; Supabase receives
\* idempotent UUID-keyed audit records", docs/ARCHITECTURE.md:38; "no false
\* ack", tests/test_execution.py:49).  What an event names is complete on
\* disk, wherever a worker died.
AuditTrailKept == InOrder /\ Backed

\* Again and again the server has every event, and all are marked: also when
\* shadow.py writes meanwhile, posts fail and workers die.
EventsArrive == []<>(delivered = Event)
-----------------------------------------------------------------------------
(* The strengthening that makes AuditTrailKept inductive.                  *)

OTypeOK ==
  /\ journal \in Seq(Nat) /\ delivered \subseteq Event /\ disk \in Nat
  /\ stored \in Seq(Nat) /\ wire \subseteq Event
  /\ pc \in [Worker -> {"down", "loop", "select", "wait"} \cup Preflight \cup Collecting
                       \cup Saving \cup Sending]
  /\ attempt \in [Worker -> 0..MaxRetries] /\ collected \in [Worker -> BOOLEAN]
  /\ todo \in [Worker -> Nat] /\ made \in [Worker -> Nat] /\ own \in [Worker -> 0..disk]
  /\ batch \in [Worker -> SUBSET Event]
  /\ turns \in Nat

\* A batch has no holes but the events the server holds already, and only
\* the next event it misses is on its way.
BatchInv ==
  /\ \A e \in wire : e = Len(stored) + 1
  /\ \A w \in Worker :
       /\ \A e \in batch[w] : \A f \in 1..e : f \in batch[w] \/ f <= Len(stored)
       /\ pc[w] = "mark" => \A e \in batch[w] : Oldest(w, e) => e <= Len(stored)

\* What a collection has still to do.
PlanInv ==
  \A w \in Worker :
    /\ pc[w] \in {"history", "funding", "dataset", "snapshot"} => todo[w] > 0
    /\ pc[w] \in {"train", "checkpoint"} => made[w] > 0

OutboxInv == OTypeOK /\ InOrder /\ Backed /\ BatchInv /\ PlanInv
=============================================================================
