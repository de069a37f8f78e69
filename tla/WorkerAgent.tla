----------------------------- MODULE WorkerAgent -----------------------------
(***************************************************************************)
(* The MT5 worker (truetrade/worker/mt5.py over worker/store.py), its      *)
(* client (execution/remote.py) and the agent it trades through            *)
(* (execution/agent.py, the engine of ExecutionEngine), composed over a    *)
(* network that loses and delays.                                          *)
(*                                                                         *)
(* Each bar that closes is one decision.  A request may reach the agent    *)
(* after the client has given up (25 s) or the cycle has timed out         *)
(* (150 s): the thread that carries it is not cancelled.  The worker may   *)
(* die at any step, the agent too, and any request may come to another     *)
(* agent (another account, or another journal) at the same address.        *)
(*                                                                         *)
(* Simplifications.                                                        *)
(*  - A tick that ends before it recorded anything, for whatever reason    *)
(*    (no answer, stale candles, no qualified model, another agent), is    *)
(*    the one action Abort; which status it shows is left out.             *)
(*  - The expiry of a signal is one of the reasons prepare may refuse it.  *)
(*  - Which bar has closed is left open; a tick that is past its bar       *)
(*    records nothing.                                                     *)
(*  - Every signal of the worker sets require_flat, and nobody else        *)
(*    submits to the agent: the account is dedicated.                      *)
(***************************************************************************)
EXTENDS ExecutionEngine

\* The decisions are the bars, in the order in which they close.
ASSUME WorkerAssumption == Decision \subseteq Nat /\ Flat = Decision

VARIABLES
  \* mt5-worker.sqlite
  rec,      \* worker_decisions.state of a bar's decision, "none" without row
  \* the tick
  step,     \* its next step
  bar,      \* the bar it is about
  left,     \* rows recover has still to ask for
  blocked,  \* the agent is in trouble, or an outcome is still open
  view,     \* was a position open in the snapshot of /execution-state?
  \* network
  wire,     \* decisions whose POST /signals has not been handled yet
  serving,  \* the decision whose POST the agent works on
  reply,    \* what came back to the client that waits
  \* history
  posts     \* how often a decision was posted

worker == <<rec, step, bar, left, blocked, view>>
network == <<wire, serving, reply, posts>>
wvars == <<vars, worker, network>>

WInit ==
  /\ Init
  /\ rec = [d \in Decision |-> "none"]
  /\ step = "idle" /\ bar = NoDecision /\ left = {} /\ blocked = FALSE /\ view = FALSE
  /\ wire = {} /\ serving = NoDecision /\ reply = "none"
  /\ posts = [d \in Decision |-> 0]

-----------------------------------------------------------------------------
(* The worker's tick.                                                      *)

\* Mutant of Pending: a signal that was being sent when the worker died is
\* not asked for.
PendingUnknown == {d \in Decision : rec[d] \in {"unknown", "protected"}}

\* store.pending.
Pending == {d \in Decision : rec[d] \in {"sending", "unknown", "protected"}}

\* Mutant of Seen: the newest bar itself is not compared.
SeenLater(b) == \E d \in Decision : b < d /\ rec[d] # "none"

\* store.seen: the cursor is the newest bar with a row.
Seen(b) == \E d \in Decision : b <= d /\ rec[d] # "none"

\* What GET /decisions may answer: it takes no lock, and another agent has
\* not seen the id, which is a hash over the binding.
Answers(d) == {row[d], "none"}

\* Mutant of Outcome: the state of the journal is taken over as it is.
AsJournalled(state) == state

\* Mutant of Outcome: an id the agent has not seen was not executed.
UnseenIsRejected(state) ==
  CASE state \in {"protected", "closed"} -> state
    [] state \in {"none", "rejected"} -> "rejected"
    [] OTHER -> "unknown"

\* recover: only these three states of the journal resolve a sent signal.
Outcome(state) == IF state \in {"protected", "closed", "rejected"} THEN state ELSE "unknown"

EndTick ==
  step' = "idle" /\ bar' = NoDecision /\ left' = {} /\ blocked' = FALSE /\ view' = FALSE

\* GET /execution-state waits for the engine's lock; the answer of another
\* agent ends the tick.
Snapshot ==
  /\ step = "idle" /\ at = "idle"
  /\ step' = "recover" /\ left' = Pending
  /\ view' = (Open # {}) /\ blocked' = (halt \/ Unsettled # {})
  /\ UNCHANGED <<rec, bar, vars, network>>

Recover(d, state) ==
  /\ step = "recover" /\ d \in left
  /\ rec' = [rec EXCEPT ![d] = Outcome(state)]
  /\ left' = left \ {d} /\ blocked' = (blocked \/ Outcome(state) = "unknown")
  /\ UNCHANGED <<step, bar, view, vars, network>>

\* Mutant of MayDecide: an outcome that is still open does not end the tick.
Always == TRUE

\* Neither recover nor the snapshot left anything open.
MayDecide == ~blocked

\* The candles are read: the tick is about the bar that closed last.
ReadCandles(b) ==
  /\ step = "recover" /\ left = {} /\ MayDecide
  /\ ~Seen(b)
  /\ bar' = b /\ step' = "decide"
  /\ UNCHANGED <<rec, left, blocked, view, vars, network>>

Abort ==
  /\ step \in {"recover", "decide"}
  /\ EndTick
  /\ UNCHANGED <<rec, vars, network>>

\* A position was open, or the policy holds.
Pass ==
  /\ step = "decide"
  /\ rec' = [rec EXCEPT ![bar] = IF view THEN "skipped" ELSE "hold"]
  /\ EndTick
  /\ UNCHANGED <<vars, network>>

\* Mutant of Outbox: the row is written once the answer is known.
NotYet == "none"

\* The signal is persisted before the post.
Outbox == "sending"

Record ==
  /\ step = "decide" /\ ~view
  /\ rec' = [rec EXCEPT ![bar] = Outbox]
  /\ step' = "post"
  /\ UNCHANGED <<bar, left, blocked, view, vars, network>>

Post ==
  /\ step = "post"
  /\ wire' = wire \cup {bar} /\ posts' = [posts EXCEPT ![bar] = @ + 1]
  /\ step' = "wait"
  /\ UNCHANGED <<rec, bar, left, blocked, view, serving, reply, vars>>

\* Mutant of Definite: every HTTP error is a rejection.
AnyError == {"refused", "error"}

\* 400, 401, 404 and 422 are OrderRejected, any other error OrderUncertain.
Definite == {"refused"}

Rejected ==
  /\ step = "wait" /\ reply \in Definite
  /\ rec' = [rec EXCEPT ![bar] = "rejected"]
  /\ reply' = "none" /\ EndTick
  /\ UNCHANGED <<wire, serving, posts, vars>>

\* A timeout, an uncertain answer, a failed readback, an expired signal.
GiveUp ==
  /\ step \in {"post", "wait", "confirm"}
  /\ rec' = [rec EXCEPT ![bar] = "unknown"]
  /\ reply' = "none" /\ EndTick
  /\ UNCHANGED <<wire, serving, posts, vars>>

Accepted ==
  /\ step = "wait" /\ reply = "ok"
  /\ reply' = "none" /\ step' = "confirm"
  /\ UNCHANGED <<rec, bar, left, blocked, view, wire, serving, posts, vars>>

\* The journal must name one of the three states.
Confirm ==
  /\ step = "confirm"
  /\ \E state \in Answers(bar) :
       Outcome(state) # "unknown" /\ rec' = [rec EXCEPT ![bar] = Outcome(state)]
  /\ EndTick
  /\ UNCHANGED <<vars, network>>

\* The worker dies: whatever it had not written is gone.
WorkerCrash ==
  /\ step # "idle"
  /\ EndTick /\ reply' = "none"
  /\ UNCHANGED <<rec, wire, serving, posts, vars>>

-----------------------------------------------------------------------------
(* The network and the agent's front end.                                  *)

\* An answer reaches the client only while it waits for that decision.
Respond(d, codes) ==
  IF step = "wait" /\ bar = d THEN reply' \in codes ELSE UNCHANGED reply

\* The connection fails before the agent has read the request.
Lose(d) ==
  /\ d \in wire
  /\ wire' = wire \ {d}
  /\ UNCHANGED <<serving, reply, posts, vars, worker>>

\* dispatch hands the signal to the engine, which looks it up.
Deliver(d) ==
  /\ d \in wire /\ serving = NoDecision
  /\ Submit(d)
  /\ wire' = wire \ {d} /\ serving' = d
  /\ UNCHANGED <<reply, posts, worker>>

\* Answered without a write: 4xx for what dispatch does not accept, 409 while
\* halted or unsettled, 503 when MT5 does not allow execution; another agent
\* refuses a signal that names this one.
Refuse(d) ==
  /\ d \in wire
  /\ wire' = wire \ {d}
  /\ Respond(d, {"refused", "error"})
  /\ UNCHANGED <<serving, posts, vars, worker>>

\* The status of a submission by what it leaves in the journal: 200; 422; 4xx
\* or 503 while there is no row (409 if the audit failed); 409.
Codes(r) ==
  CASE r = "protected" -> {"ok"}
    [] r = "rejected" -> {"refused"}
    [] r = "none" -> IF at = "audit" THEN {"refused", "error"} ELSE {"error"}
    [] OTHER -> {"error"}

\* Any step of the agent or the market.  When the submission returns, its
\* answer goes out; when the agent dies, the connection breaks.
Agent ==
  /\ Monitor \/ Reconcile \/ Handler \/ Crash
     \/ \E d \in Decision : Execute(d) \/ Exit(d) \/ Disturb(d)
  /\ IF serving # NoDecision /\ at' = "idle"
     THEN serving' = NoDecision
          /\ Respond(serving, IF crashes' = crashes THEN Codes(row'[serving]) ELSE {"error"})
     ELSE UNCHANGED <<serving, reply>>
  /\ UNCHANGED <<wire, posts, worker>>

-----------------------------------------------------------------------------
Tick ==
  \/ Snapshot \/ Abort \/ Pass \/ Record \/ Post \/ Rejected \/ GiveUp \/ Accepted \/ Confirm
  \/ \E d \in Decision : ReadCandles(d) \/ \E state \in Answers(d) : Recover(d, state)

WNext ==
  \/ Tick \/ WorkerCrash \/ Agent
  \/ \E d \in Decision : Lose(d) \/ Deliver(d) \/ Refuse(d)

WSpec == WInit /\ [][WNext]_wvars

\* The worker polls for ever and its ticks end (25 s, 150 s); the agent's
\* entry points end; a question that is asked again and again of the right
\* agent is answered some time.  Nothing is assumed of anyone else.
WFairSpec ==
  /\ WSpec
  /\ WF_wvars(Tick /\ step # "idle") /\ WF_wvars(Agent /\ at # "idle")
  /\ SF_wvars(Snapshot)
  /\ \A d \in Decision : SF_wvars(Recover(d, row[d]))
-----------------------------------------------------------------------------
(* Properties.                                                             *)

WTypeOK ==
  /\ rec \in [Decision -> {"none", "skipped", "hold", "sending", "unknown",
                           "protected", "closed", "rejected"}]
  /\ step \in {"idle", "recover", "decide", "post", "wait", "confirm"}
  /\ bar \in Decision \cup {NoDecision} /\ left \in SUBSET Decision
  /\ blocked \in BOOLEAN /\ view \in BOOLEAN
  /\ wire \in SUBSET Decision /\ serving \in Decision \cup {NoDecision}
  /\ reply \in {"none", "ok", "refused", "error"}
  /\ posts \in [Decision -> Nat]

\* docs/RAILWAY_MT5.md "never resend an uncertain POST": a decision is posted
\* once, whatever dies and whatever answer is lost.
PostedAtMostOnce == \A d \in Decision : posts[d] <= 1

\* What the worker takes for final is: a signal it calls rejected executes
\* neither now nor when a delayed request arrives; one it calls closed has
\* executed and left no position; one it passed over was never sent.
WorkerIsRight ==
  \A d \in Decision :
    /\ rec[d] = "rejected" => order[d] \in {"none", "refused"} /\ d \notin wire /\ serving # d
    /\ rec[d] = "closed" => order[d] = "done" /\ vol[d] = 0
    /\ rec[d] \in {"none", "skipped", "hold"} => order[d] = "none" /\ d \notin wire

\* The worker judges by a snapshot that may be stale when its signal arrives;
\* still no two of its positions are ever open together.
OnePosition == \A d, e \in Open : d = e

\* The worker keeps up with the agent's journal: again and again it
\* knows every outcome the journal has settled on, whatever was lost on the
\* way.
OutcomesLearnt ==
  []<>(\A d \in Decision :
         rec[d] \in {"sending", "unknown", "protected"} => row[d] \notin {"closed", "rejected"})

\* From the bar to the broker a signal is an order of OneShotOrder: pending
\* from its row in the worker's store until the position is known or the
\* worker calls it rejected, and never two at a time.
SignalVerdict ==
  [d \in Decision |-> CASE rec[d] \in {"none", "skipped", "hold"} -> "none"
                        [] rec[d] = "rejected"                 -> "void"
                        [] rec[d] \in {"sending", "unknown", "protected", "closed"} ->
                             IF pid[d] THEN "done" ELSE "pending"]
Signal == INSTANCE OneShotOrder WITH Order <- Decision, verdict <- SignalVerdict, effect <- Effect
SignalIsOneShotOrder == Signal!Spec
-----------------------------------------------------------------------------
(* The strengthening that makes the safety properties inductive.           *)

\* What the tick may rely on.
TickInv ==
  /\ step \in {"decide", "post", "wait", "confirm"} => bar \in Decision
  /\ step = "recover" => left \subseteq Pending
  /\ step = "recover" /\ ~blocked => \A d \in Decision : rec[d] \in {"sending", "unknown"} => d \in left
  /\ step = "decide" => rec[bar] = "none" /\ \A d \in Decision : rec[d] \notin {"sending", "unknown"}
  /\ step \in {"post", "wait", "confirm"} => rec[bar] = "sending"
  /\ step = "post" => posts[bar] = 0

\* A request is with nobody, on the wire, with the engine or handled.
RequestInv ==
  \A d \in Decision :
    /\ posts[d] = 0 \/ posts[d] = 1
    /\ posts[d] = 0 => d \notin wire /\ serving # d /\ row[d] = "none"
    /\ d \in wire => serving # d /\ row[d] = "none"

\* The request the engine works on.
ServingInv ==
  /\ serving \in Decision => at # "idle" /\ job = "submit" /\ row[serving] # "rejected"
  /\ at # "idle" /\ job = "submit" => serving \in Decision
  /\ job = "submit" /\ at \in Entering \cup {"audit"} => on = serving

\* What the worker knows against the journal, the wire and the engine.
KnownInv ==
  /\ \A d \in Decision :
       /\ rec[d] \in {"none", "skipped", "hold"} => posts[d] = 0
       /\ rec[d] = "rejected" => d \notin wire /\ serving # d /\ row[d] \in {"none", "rejected"}
       /\ rec[d] = "protected" => row[d] \in {"protected", "unknown", "closed"} /\ pid[d]
       /\ rec[d] = "closed" => row[d] = "closed"
  /\ reply # "none" => step = "wait" /\ bar \notin wire /\ serving # bar
  /\ reply = "refused" => row[bar] \in {"none", "rejected"}

\* At most one position is open or may still come to be.
PositionInv ==
  \A d, e \in Decision :
    (vol[d] > 0 \/ order[d] = "working") /\ (vol[e] > 0 \/ order[e] = "working") => d = e

WorkerInv == WTypeOK /\ TickInv /\ RequestInv /\ ServingInv /\ KnownInv /\ PositionInv
=============================================================================
