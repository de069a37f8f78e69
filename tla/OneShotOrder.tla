---------------------------- MODULE OneShotOrder ----------------------------
(***************************************************************************)
(* What the order path promises, whatever crashes: at most one order is    *)
(* pending at any time, an order takes effect at the broker at most once   *)
(* and only while it is pending, and the verdict the journal settles on is *)
(* the truth and is never revised.  ("order_send is attempted once",       *)
(* "There is no blind order retry after an uncertain write":               *)
(* docs/SCALPER_PHASE2.md:85, docs/SCALPER_PHASE3.md:45.)                  *)
(***************************************************************************)
CONSTANT Order

VARIABLES
  verdict,  \* what the journal says of an order
  effect    \* has it taken effect at the broker?

vars == <<verdict, effect>>

Init ==
  /\ verdict \in [Order -> {"none", "done"}]
  /\ effect = [o \in Order |-> verdict[o] = "done"]

Attempt(o) ==
  /\ verdict[o] = "none"
  /\ \A p \in Order : verdict[p] # "pending"
  /\ verdict' = [verdict EXCEPT ![o] = "pending"]
  /\ UNCHANGED effect

TakeEffect(o) ==
  /\ verdict[o] = "pending" /\ ~effect[o]
  /\ effect' = [effect EXCEPT ![o] = TRUE]
  /\ UNCHANGED verdict

Acknowledge(o) ==
  /\ verdict[o] = "pending" /\ effect[o]
  /\ verdict' = [verdict EXCEPT ![o] = "done"]
  /\ UNCHANGED effect

Abandon(o) ==
  /\ verdict[o] = "pending" /\ ~effect[o]
  /\ verdict' = [verdict EXCEPT ![o] = "void"]
  /\ UNCHANGED effect

Next == \E o \in Order : Attempt(o) \/ TakeEffect(o) \/ Acknowledge(o) \/ Abandon(o)

Spec == Init /\ [][Next]_vars
=============================================================================
