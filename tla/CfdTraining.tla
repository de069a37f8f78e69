----------------------------- MODULE CfdTraining -----------------------------
(***************************************************************************)
(* Model training beside the MT5 worker: Learning.service                  *)
(* (truetrade/cfd/learning.py) with the training process it starts         *)
(* (train in cfd/pipeline.py), over four memories that survive either of   *)
(* them: the worker's markers, the research ledger, the training log and   *)
(* the released models.                                                    *)
(*                                                                         *)
(* Each durable write of service is a step, and each stage of the training *)
(* process.  The process may fail or be killed at any stage; any step of   *)
(* service may raise, which ends the worker's cycle and leaves the process *)
(* running; the container may die, which ends both (the worker is its      *)
(* first process: Dockerfile).                                             *)
(*                                                                         *)
(* Simplifications.                                                        *)
(*  - A bar is its position in the history.  Backfill adds older bars and  *)
(*    so moves the 80 % point of train: where a holdout begins after what  *)
(*    is reserved is left open.                                            *)
(*  - The service is that of demo mode with automatic training: nothing    *)
(*    else writes here.                                                    *)
(*  - Whether a model passes its gates, and whether it fits the contract   *)
(*    of the day, is left open.                                            *)
(*  - The dataset of an attempt is written before its marker and stays.    *)
(***************************************************************************)
EXTENDS Naturals

CONSTANTS
  MaxBars,     \* bound: bars of the history
  MinBars,     \* bars a training needs (50000)
  MinNew,      \* bars a holdout needs, and new bars a training (5000)
  Gap,         \* embargo before a holdout (5)
  MaxDeaths,   \* bound: deaths of the container
  MaxMishaps   \* bound: failures of the training process and of service

ASSUME CfdAssumption ==
  /\ MaxBars \in Nat /\ MinBars \in Nat /\ MinNew \in Nat \ {0} /\ Gap \in Nat
  /\ MaxDeaths \in Nat /\ MaxMishaps \in Nat

Bar == 1..MaxBars
NoBar == 0

VARIABLES
  \* mt5-worker.sqlite
  hist,      \* the newest bar
  last,      \* cfd_last_training_end
  inflight,  \* cfd_training_inflight_end
  handled,   \* cfd_last_candidate, by the end of its holdout
  \* the research directory
  attempts,  \* research.sqlite: ends of the reserved holdouts
  log,       \* training.log: not there, empty, or written to
  saved,     \* is there a model directory?
  cand,      \* latest-candidate.json
  active,    \* active.json, the model in service
  \* the worker
  at,        \* the next step of service
  process,   \* does it hold a training process?
  \* the training process
  stage,     \* what it has done
  code,      \* how it exited
  end,       \* the last bar of its dataset
  first,     \* the first bar of its holdout
  beat,      \* the incumbent it was compared with
  \* history
  looks,     \* how often a bar was in a holdout that was evaluated
  deaths, mishaps

markers == <<last, inflight, handled>>
files == <<attempts, log, saved, cand, active>>
training == <<stage, code, end, first, beat>>
history == <<looks, deaths, mishaps>>
vars == <<hist, markers, files, at, process, training, history>>

NoCand == [end |-> NoBar, ok |-> FALSE, beat |-> NoBar]

\* What an older worker may have left, which stored last_training_end before
\* it started the process: no reservation, one, or one that was evaluated.
Legacy ==
  /\ hist \in Bar /\ last = hist
  /\ \/ attempts = {} /\ log \in {"none", "empty", "written"} /\ looks = [b \in Bar |-> 0]
     \/ attempts = {hist} /\ log \in {"empty", "written"} /\ looks = [b \in Bar |-> 0]
     \/ attempts = {hist} /\ log = "written"
        /\ \E f \in 1..hist : looks = [b \in Bar |-> IF b \in f..hist THEN 1 ELSE 0]

Init ==
  /\ \/ Legacy
     \/ hist = 0 /\ last = NoBar /\ attempts = {} /\ log = "none" /\ looks = [b \in Bar |-> 0]
  /\ inflight = NoBar /\ handled = NoBar
  /\ saved = FALSE /\ cand = NoCand /\ active = NoBar
  /\ at = "idle" /\ process = FALSE
  /\ stage = "none" /\ code = "none" /\ end = NoBar /\ first = NoBar /\ beat = NoBar
  /\ deaths = 0 /\ mishaps = 0

Goto(step) == at' = step /\ UNCHANGED process

-----------------------------------------------------------------------------
(* What the markers are judged by.                                         *)

\* Mutant of Consumed: a ledger without the attempt is not looked into.
Presumed(e) == TRUE

\* _attempt_consumed.
Consumed(e) == e \in attempts

\* Mutant of Unseen: the log is not looked at.
Unread(e) == Consumed(e) /\ active = NoBar /\ cand.end = NoBar /\ ~saved

\* _safe_to_release_unseen_attempt: a log of zero bytes proves that no fold
\* was completed, and the holdout is evaluated after the folds.
Unseen(e) == Consumed(e) /\ active = NoBar /\ cand.end = NoBar /\ log = "empty" /\ ~saved

\* _release_attempt.
Release(e) == attempts' = attempts \ {e} /\ UNCHANGED <<log, saved, cand, active>>

-----------------------------------------------------------------------------
(* service.                                                                *)

\* The candles of the cycle are stored before service runs.
Capture ==
  /\ at = "idle" /\ hist < MaxBars
  /\ hist' = hist + 1
  /\ UNCHANGED <<markers, files, at, process, training, history>>

Start(step) ==
  /\ at = "idle" /\ Goto(step)
  /\ UNCHANGED <<hist, markers, files, training, history>>

\* The awaits of service come first; what it knows of the process is what the
\* event loop has seen until then.
Service == Start("recover")
Returned == process /\ stage = "exited" /\ Start("reap")

\* The process has returned: its attempt counts, is released or is forgotten.
\* (The marker is there: LiveChildOwnsReservation.)
Reap ==
  /\ at = "reap" /\ Goto("clear")
  /\ \/ /\ code = "ok" \/ (~Unseen(inflight) /\ Consumed(inflight))
        /\ last' = inflight /\ UNCHANGED files
     \/ code # "ok" /\ Unseen(inflight) /\ Release(inflight) /\ UNCHANGED last
     \/ code # "ok" /\ ~Consumed(inflight) /\ UNCHANGED <<last, files>>
  /\ UNCHANGED <<hist, inflight, handled, training, history>>

Clear ==
  /\ at = "clear"
  /\ inflight' = NoBar /\ process' = FALSE /\ stage' = "none" /\ at' = "recover"
  /\ UNCHANGED <<hist, last, handled, files, code, end, first, beat, history>>

\* Mutant of Owned: the marker of a running training is recovered too.
Unowned == FALSE

\* "A live child process owns its inflight reservation."
Owned == process

\* _recover_training_markers.
Recover ==
  /\ at = "recover"
  /\ \/ Owned /\ Goto("consider") /\ UNCHANGED <<last, files>>
     \/ ~Owned /\ inflight = NoBar /\ Goto("legacy") /\ UNCHANGED <<last, files>>
     \/ /\ ~Owned /\ inflight # NoBar /\ Goto("wipe")
        /\ \/ Unseen(inflight) /\ Release(inflight) /\ UNCHANGED last
           \/ /\ ~Unseen(inflight) /\ (cand.end # NoBar \/ Consumed(inflight))
              /\ last' = (IF inflight > last THEN inflight ELSE last) /\ UNCHANGED files
           \/ cand.end = NoBar /\ ~Consumed(inflight) /\ UNCHANGED <<last, files>>
  /\ UNCHANGED <<hist, inflight, handled, training, history>>

Wipe ==
  /\ at = "wipe" /\ Goto("legacy")
  /\ inflight' = NoBar
  /\ UNCHANGED <<hist, last, handled, files, training, history>>

\* A marker without a result: released if unseen, dropped if never reserved.
RecoverLegacy ==
  /\ at = "legacy"
  /\ IF last # NoBar /\ cand.end = NoBar /\ active = NoBar /\ (Unseen(last) \/ ~Consumed(last))
     THEN Release(last) /\ Goto("forget")
     ELSE UNCHANGED files /\ Goto("consider")
  /\ UNCHANGED <<hist, markers, training, history>>

Forget ==
  /\ at = "forget" /\ Goto("consider")
  /\ last' = NoBar
  /\ UNCHANGED <<hist, inflight, handled, files, training, history>>

\* load_release, validate_qualification: what was recorded of the candidate
\* still passes every gate.
Qualified == cand.ok

\* activate: one atomic file.
Activate == active' = cand.end

\* A candidate is looked at once.  If it qualifies, fits the contract and is
\* newer, it is activated.
Consider ==
  /\ at = "consider"
  /\ \/ cand.end \in {NoBar, handled} /\ Goto("launch") /\ UNCHANGED active
     \/ cand.end \notin {NoBar, handled} /\ Goto("mark") /\ UNCHANGED active
     \/ /\ cand.end \notin {NoBar, handled} /\ Goto("mark")
        /\ Qualified /\ cand.end > active /\ Activate
  /\ UNCHANGED <<hist, markers, attempts, log, saved, cand, training, history>>

Mark ==
  /\ at = "mark" /\ Goto("launch")
  /\ handled' = cand.end
  /\ UNCHANGED <<hist, last, inflight, files, training, history>>

Ready == ~process /\ hist >= MinBars /\ hist >= last + MinNew

Launch ==
  /\ at = "launch"
  /\ IF Ready THEN inflight' = hist /\ Goto("spawn") ELSE UNCHANGED inflight /\ Goto("idle")
  /\ UNCHANGED <<hist, last, handled, files, training, history>>

OpenLog ==
  log' = (IF log = "none" THEN "empty" ELSE log) /\ UNCHANGED <<attempts, saved, cand, active>>

Spawn ==
  /\ at = "spawn"
  /\ OpenLog
  /\ process' = TRUE /\ at' = "idle"
  /\ stage' = "started" /\ code' = "none" /\ end' = inflight /\ first' = NoBar /\ beat' = NoBar
  /\ UNCHANGED <<hist, markers, history>>

SpawnFails ==
  /\ at = "spawn" /\ mishaps < MaxMishaps
  /\ OpenLog
  /\ inflight' = NoBar /\ Goto("idle")
  /\ mishaps' = mishaps + 1
  /\ UNCHANGED <<hist, last, handled, training, looks, deaths>>

\* Anything service does may raise; the cycle ends and the next one begins.
Raise ==
  /\ at # "idle" /\ mishaps < MaxMishaps
  /\ Goto("idle")
  /\ mishaps' = mishaps + 1
  /\ UNCHANGED <<hist, markers, files, training, looks, deaths>>

-----------------------------------------------------------------------------
(* train, in a process of its own.                                         *)

Reach(next) == stage' = next /\ UNCHANGED <<code, end, hist, markers, at, process>>

\* Mutant of Fresh: the bars of the last holdout are not passed over.
Overlapping(f) == TRUE

\* The holdout begins after everything that is reserved, and the embargo.
Fresh(f) == \A e \in attempts : e + Gap < f

Holdout(f) == f <= end /\ end + 1 >= f + MinNew /\ end \notin attempts /\ Fresh(f)

\* "Reserve a genuinely new test interval BEFORE training".
Reserve ==
  /\ stage = "started" /\ Reach("reserved")
  /\ \E f \in Bar : Holdout(f) /\ first' = f
  /\ attempts' = attempts \cup {end}
  /\ UNCHANGED <<beat, log, saved, cand, active, history>>

\* Three folds are trained and validated before the holdout, and each of them
\* is logged.
Fold ==
  /\ stage = "reserved" /\ Reach("folded")
  /\ log' = "written"
  /\ UNCHANGED <<first, beat, attempts, saved, cand, active, history>>

Test ==
  /\ stage = "folded" /\ Reach("tested")
  /\ looks' = [b \in Bar |-> IF b \in first..end THEN looks[b] + 1 ELSE looks[b]]
  /\ UNCHANGED <<first, beat, files, deaths, mishaps>>

\* Mutant of Incumbent: a candidate is not compared.
Nobody == NoBar

\* The model in service is evaluated on the same holdout.
Incumbent == active

Compare ==
  /\ stage = "tested" /\ Reach("compared")
  /\ beat' = Incumbent
  /\ UNCHANGED <<first, files, history>>

Save ==
  /\ stage = "compared" /\ Reach("saved")
  /\ saved' = TRUE
  /\ UNCHANGED <<first, beat, attempts, log, cand, active, history>>

Publish ==
  /\ stage = "saved" /\ Reach("published")
  /\ \E ok \in BOOLEAN : cand' = [end |-> end, ok |-> ok, beat |-> beat]
  /\ UNCHANGED <<first, beat, attempts, log, saved, active, history>>

Alive == stage \notin {"none", "exited"}

Exit(c) ==
  /\ stage' = "exited" /\ code' = c
  /\ UNCHANGED <<end, first, beat, hist, markers, at, process, attempts, saved, cand, active, looks, deaths>>

Finish ==
  /\ stage = "published"
  /\ Exit("ok") /\ UNCHANGED <<log, mishaps>>

\* "Wait for new untouched holdout data": an exception is written to the log.
Refuse ==
  /\ stage = "started" /\ ~\E f \in Bar : Holdout(f)
  /\ Exit("failed") /\ log' = "written" /\ UNCHANGED mishaps

Fail ==
  /\ Alive /\ mishaps < MaxMishaps
  /\ Exit("failed") /\ log' = "written" /\ mishaps' = mishaps + 1

\* Killed without a word, as by a lack of memory.
Killed ==
  /\ Alive /\ mishaps < MaxMishaps
  /\ Exit("failed") /\ UNCHANGED log /\ mishaps' = mishaps + 1

\* The container dies and starts again.
Die ==
  /\ deaths < MaxDeaths /\ deaths' = deaths + 1
  /\ at' = "idle" /\ process' = FALSE /\ stage' = "none"
  /\ UNCHANGED <<hist, markers, files, code, end, first, beat, looks, mishaps>>

-----------------------------------------------------------------------------
Worker ==
  \/ Service \/ Returned \/ Reap \/ Clear \/ Recover \/ Wipe \/ RecoverLegacy \/ Forget
  \/ Consider \/ Mark \/ Launch \/ Spawn

Child ==
  \/ Reserve \/ Fold \/ Test \/ Compare \/ Save \/ Publish \/ Finish \/ Refuse

Next == Capture \/ Worker \/ SpawnFails \/ Raise \/ Child \/ Fail \/ Killed \/ Die

Spec == Init /\ [][Next]_vars

\* The worker polls for ever; a training process ends and the event loop
\* notices.  The market, failures and deaths are not fair.
FairSpec == Spec /\ WF_vars(Worker) /\ WF_vars(Child) /\ SF_vars(Returned)
-----------------------------------------------------------------------------
(* Properties.                                                             *)

\* learning.py:84 "A live child process owns its inflight reservation":
\* whatever service does or fails to do, the marker of a process that runs is
\* its own, and its reservation stays in the ledger.
LiveChildOwnsReservation ==
  Alive => inflight = end /\ (stage # "started" => end \in attempts)

\* What a model was tested on is never given back: the reservations of the
\* candidate and of the model in service stay in the ledger, and no holdout
\* under test holds a bar that either of them was developed with or tested on.
EvidenceKept ==
  \A e \in {cand.end, active} \ {NoBar} :
    e \in attempts /\ (stage \in {"reserved", "folded", "tested"} => e < first)

\* docs/GOLD_PPO.md:49 "replacement must improve net return": a model enters
\* service only against the incumbent it was compared with, however many
\* cycles, failures and restarts lie between the test and the activation.
ReplacesWhatItBeat == [][active' # active => cand.ok /\ cand.beat = active]_vars

\* docs/GOLD_PPO.md:46: the bars of the ledger are used as HoldoutLedger says.
Reserved == {b \in Bar : \E e \in attempts : b <= e}
Ledger == INSTANCE HoldoutLedger WITH reserved <- Reserved
HoldoutsUntouched == Ledger!Spec

\* As long as there is no candidate, a holdout that could be reserved is
\* reserved in the end: no marker that a crash left behind holds training up.
Due == hist >= MinBars /\ hist >= MinNew /\ \A e \in attempts : hist >= e + Gap + MinNew
DueIsReserved == (Due /\ cand.end = NoBar) ~> (~Due \/ cand.end # NoBar)
-----------------------------------------------------------------------------
(* The strengthening that makes the safety properties inductive.           *)

CTypeOK ==
  /\ hist \in 0..MaxBars /\ last \in 0..MaxBars /\ inflight \in 0..MaxBars
  /\ handled \in 0..MaxBars /\ active \in 0..MaxBars
  /\ end \in 0..MaxBars /\ first \in 0..MaxBars /\ beat \in 0..MaxBars
  /\ attempts \subseteq Bar /\ log \in {"none", "empty", "written"} /\ saved \in BOOLEAN
  /\ cand \in [end : 0..MaxBars, ok : BOOLEAN, beat : 0..MaxBars]
  /\ at \in {"idle", "reap", "clear", "recover", "wipe", "legacy", "forget", "consider", "mark",
             "launch", "spawn"}
  /\ process \in BOOLEAN
  /\ stage \in {"none", "started", "reserved", "folded", "tested", "compared", "saved", "published",
                "exited"}
  /\ code \in {"none", "ok", "failed"}
  /\ looks \in [Bar -> Nat] /\ deaths \in Nat /\ mishaps \in Nat

\* The stages in which an attempt is reserved, and those before the model is
\* published.
Reserving == {"reserved", "folded", "tested", "compared", "saved", "published"}
Unpublished == {"started", "reserved", "folded", "tested", "compared", "saved"}

\* The worker, the process it holds and the marker.
ProcessInv ==
  /\ process = (stage # "none")
  /\ process => inflight = end /\ end # NoBar
  /\ at \in {"reap", "clear"} => stage = "exited"
  /\ at \in {"wipe", "legacy", "forget", "spawn"} => ~process
  /\ at = "spawn" => inflight # NoBar
  /\ stage \in Reserving => end \in attempts /\ first \in Bar /\ first <= end

\* An evaluated holdout is reserved and has left its mark in the log.
SeenInv ==
  /\ \A b \in Bar : looks[b] # 0 => looks[b] = 1 /\ b \in Reserved /\ log = "written"
  /\ stage \in Reserving \ {"reserved"} => log = "written"
  /\ stage \in {"reserved", "folded"} => \A b \in first..end : looks[b] = 0
  /\ saved \/ cand.end # NoBar \/ active # NoBar => log = "written"

\* The candidate and the model in service are reserved; while a process
\* trains, no candidate waits to be considered.
ModelInv ==
  /\ \A e \in {cand.end, active} \ {NoBar} : e \in attempts
  /\ stage \in Reserving \ {"published"} => \A e \in {cand.end, active} : e < first
  /\ handled # NoBar => cand.end # NoBar
  /\ at = "mark" => cand.end # NoBar
  /\ stage \in Unpublished \/ (at \in {"launch", "spawn"} /\ ~process) => handled = cand.end
  /\ stage \in {"compared", "saved"} => beat = active
  /\ cand.end # handled /\ cand.end > active => cand.beat = active

CfdInv == CTypeOK /\ ProcessInv /\ SeenInv /\ ModelInv
=============================================================================
