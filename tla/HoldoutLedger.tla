---------------------------- MODULE HoldoutLedger ----------------------------
(***************************************************************************)
(* What the research ledger promises of the bars a model is tested on:     *)
(* only reserved bars are tested, each bar at most once, and a reservation *)
(* is given up only while nothing of it was tested.  ("The research ledger *)
(* reserves a holdout before training, even for failed jobs",              *)
(* docs/GOLD_PPO.md:46; "Never delete this ledger to rerun until a         *)
(* favorable result appears", docs/GOLD_PPO.md:48.)                        *)
(***************************************************************************)
EXTENDS Naturals

CONSTANT Bar

VARIABLES
  reserved,  \* bars that no later attempt may be tested on
  looks      \* how often a model was tested on a bar

vars == <<reserved, looks>>

Init ==
  /\ reserved \in SUBSET Bar
  /\ looks \in [Bar -> {0, 1}]
  /\ \A b \in Bar : looks[b] = 1 => b \in reserved

Reserve(bars) ==
  /\ bars \cap reserved = {}
  /\ reserved' = reserved \cup bars
  /\ UNCHANGED looks

Test(bars) ==
  /\ bars \subseteq reserved /\ \A b \in bars : looks[b] = 0
  /\ looks' = [b \in Bar |-> IF b \in bars THEN 1 ELSE looks[b]]
  /\ UNCHANGED reserved

GiveUp(bars) ==
  /\ \A b \in bars : looks[b] = 0
  /\ reserved' = reserved \ bars
  /\ UNCHANGED looks

Next == \E bars \in SUBSET Bar : Reserve(bars) \/ Test(bars) \/ GiveUp(bars)

Spec == Init /\ [][Next]_vars
=============================================================================
