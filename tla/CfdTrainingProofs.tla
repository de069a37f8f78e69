-------------------------- MODULE CfdTrainingProofs --------------------------
(***************************************************************************)
(* Proofs about CfdTraining.  CfdInv is inductive: what the worker holds   *)
(* (ProcessInv), what was tested (SeenInv) and which models wait or serve  *)
(* (ModelInv) lean on each other and on nothing else.                      *)
(***************************************************************************)
EXTENDS CfdTraining, TLAPS

-----------------------------------------------------------------------------
(* The invariant is inductive.                                             *)

LEMMA Zero == NoBar \in 0..MaxBars
BY CfdAssumption DEF NoBar

LEMMA DieCounts == CTypeOK /\ Die => deaths' \in Nat
BY DEF CTypeOK, Die

LEMMA InitInv == Init => CfdInv
<1> SUFFICES ASSUME Init PROVE CfdInv
  OBVIOUS
<1> USE CfdAssumption DEF Init, NoCand, NoBar, Bar
<1>1. CTypeOK
  <2>1. looks \in [Bar -> Nat]
    BY DEF Legacy
  <2>2. /\ hist \in 0..MaxBars /\ last \in 0..MaxBars /\ attempts \subseteq Bar
        /\ log \in {"none", "empty", "written"}
    BY DEF Legacy
  <2>3. cand \in [end : 0..MaxBars, ok : BOOLEAN, beat : 0..MaxBars]
    BY Zero
  <2>4. QED BY <2>1, <2>2, <2>3 DEF CTypeOK
<1>2. ProcessInv
  BY DEF ProcessInv, Reserving
<1>3. SeenInv
  BY DEF Legacy, SeenInv, Reserving, Reserved
<1>4. ModelInv
  BY DEF ModelInv, Reserving, Unpublished
<1>5. QED BY <1>1, <1>2, <1>3, <1>4 DEF CfdInv

\* One step per action, for each part of the invariant.
LEMMA TypeStep ==
  ASSUME CfdInv, Next \/ UNCHANGED vars
  PROVE  CTypeOK'
<1> USE CfdAssumption DEF CfdInv, CTypeOK, markers, files, training, history, NoBar, Bar
<1>1. CASE Capture
  BY <1>1 DEF Capture
<1>2. CASE Service
  BY <1>2 DEF Service, Start, Goto
<1>3. CASE Returned
  BY <1>3 DEF Returned, Start, Goto
<1>4. CASE Reap
  BY <1>4 DEF Reap, Goto, Release
<1>5. CASE Clear
  BY <1>5, Zero, Zenon DEF Clear
<1>6. CASE Recover
  BY <1>6 DEF Recover, Goto, Release
<1>7. CASE Wipe
  BY <1>7 DEF Wipe, Goto
<1>8. CASE RecoverLegacy
  BY <1>8 DEF RecoverLegacy, Goto, Release
<1>9. CASE Forget
  BY <1>9 DEF Forget, Goto
<1>10. CASE Consider
  BY <1>10 DEF Consider, Qualified, Activate, Goto
<1>11. CASE Mark
  BY <1>11 DEF Mark, Goto
<1>12. CASE Launch
  BY <1>12 DEF Launch, Goto
<1>13. CASE Spawn
  BY <1>13 DEF Spawn, OpenLog
<1>14. CASE SpawnFails
  BY <1>14 DEF SpawnFails, Goto, OpenLog
<1>15. CASE Raise
  BY <1>15 DEF Raise, Goto
<1>16. CASE Reserve
  BY <1>16 DEF Reserve, Reach, Holdout
<1>17. CASE Fold
  BY <1>17 DEF Fold, Reach
<1>18. CASE Test
  BY <1>18 DEF Test, Reach
<1>19. CASE Compare
  BY <1>19 DEF Compare, Reach, Incumbent
<1>20. CASE Save
  BY <1>20 DEF Save, Reach
<1>21. CASE Publish
  BY <1>21 DEF Publish, Reach
<1>22. CASE Finish
  BY <1>22 DEF Finish, Exit
<1>23. CASE Refuse
  BY <1>23 DEF Refuse, Exit
<1>24. CASE Fail
  BY <1>24 DEF Fail, Exit, Alive
<1>25. CASE Killed
  BY <1>25 DEF Killed, Exit, Alive
<1>26. CASE Die
  BY <1>26, DieCounts, Zenon DEF Die
<1>27. CASE UNCHANGED vars
  BY <1>27 DEF vars
<1>28. QED BY <1>1, <1>2, <1>3, <1>4, <1>5, <1>6, <1>7, <1>8, <1>9, <1>10, <1>11, <1>12,
     <1>13, <1>14, <1>15, <1>16, <1>17, <1>18, <1>19, <1>20, <1>21, <1>22, <1>23, <1>24,
     <1>25, <1>26, <1>27 DEF Next, Worker, Child

LEMMA ProcessStep ==
  ASSUME CfdInv, Next \/ UNCHANGED vars
  PROVE  ProcessInv'
<1> USE DEF CfdInv, CTypeOK, markers, files, training, history, ProcessInv, Reserving, NoBar, Bar
<1>1. CASE Capture
  BY <1>1 DEF Capture
<1>2. CASE Service
  BY <1>2 DEF Service, Start, Goto
<1>3. CASE Returned
  BY <1>3 DEF Returned, Start, Goto
<1>4. CASE Reap
  BY <1>4 DEF Reap, Goto, Release, Consumed, Unseen
<1>5. CASE Clear
  BY <1>5 DEF Clear
<1>6. CASE Recover
  BY <1>6 DEF Recover, Goto, Release, Owned, Consumed, Unseen
<1>7. CASE Wipe
  BY <1>7 DEF Wipe, Goto
<1>8. CASE RecoverLegacy
  BY <1>8 DEF RecoverLegacy, Goto, Release
<1>9. CASE Forget
  BY <1>9 DEF Forget, Goto
<1>10. CASE Consider
  BY <1>10 DEF Consider, Qualified, Activate, Goto
<1>11. CASE Mark
  BY <1>11 DEF Mark, Goto
<1>12. CASE Launch
  BY <1>12, CfdAssumption DEF Launch, Goto, Ready
<1>13. CASE Spawn
  BY <1>13 DEF Spawn, OpenLog
<1>14. CASE SpawnFails
  BY <1>14 DEF SpawnFails, Goto, OpenLog
<1>15. CASE Raise
  BY <1>15 DEF Raise, Goto
<1>16. CASE Reserve
  BY <1>16 DEF Reserve, Reach, Holdout
<1>17. CASE Fold
  BY <1>17 DEF Fold, Reach
<1>18. CASE Test
  BY <1>18 DEF Test, Reach
<1>19. CASE Compare
  BY <1>19 DEF Compare, Reach, Incumbent
<1>20. CASE Save
  BY <1>20 DEF Save, Reach
<1>21. CASE Publish
  BY <1>21 DEF Publish, Reach
<1>22. CASE Finish
  BY <1>22 DEF Finish, Exit
<1>23. CASE Refuse
  BY <1>23 DEF Refuse, Exit
<1>24. CASE Fail
  BY <1>24 DEF Fail, Exit, Alive
<1>25. CASE Killed
  BY <1>25 DEF Killed, Exit, Alive
<1>26. CASE Die
  BY <1>26 DEF Die
<1>27. CASE UNCHANGED vars
  BY <1>27 DEF vars
<1>28. QED BY <1>1, <1>2, <1>3, <1>4, <1>5, <1>6, <1>7, <1>8, <1>9, <1>10, <1>11, <1>12,
     <1>13, <1>14, <1>15, <1>16, <1>17, <1>18, <1>19, <1>20, <1>21, <1>22, <1>23, <1>24,
     <1>25, <1>26, <1>27 DEF Next, Worker, Child

LEMMA SeenStep ==
  ASSUME CfdInv, Next \/ UNCHANGED vars
  PROVE  SeenInv'
<1> USE DEF CfdInv, CTypeOK, markers, files, training, history, ProcessInv, SeenInv,
     Reserved, Reserving, NoBar, Bar
<1>1. CASE Capture
  BY <1>1 DEF Capture
<1>2. CASE Service
  BY <1>2 DEF Service, Start, Goto
<1>3. CASE Returned
  BY <1>3 DEF Returned, Start, Goto
<1>4. CASE Reap
  BY <1>4 DEF Reap, Goto, Release, Consumed, Unseen
<1>5. CASE Clear
  BY <1>5 DEF Clear
<1>6. CASE Recover
  BY <1>6 DEF Recover, Goto, Release, Owned, Consumed, Unseen
<1>7. CASE Wipe
  BY <1>7 DEF Wipe, Goto
<1>8. CASE RecoverLegacy
  BY <1>8 DEF RecoverLegacy, Goto, Release, Consumed, Unseen
<1>9. CASE Forget
  BY <1>9 DEF Forget, Goto
<1>10. CASE Consider
  BY <1>10 DEF Consider, Qualified, Activate, Goto
<1>11. CASE Mark
  BY <1>11 DEF Mark, Goto
<1>12. CASE Launch
  BY <1>12 DEF Launch, Goto
<1>13. CASE Spawn
  BY <1>13 DEF Spawn, OpenLog
<1>14. CASE SpawnFails
  BY <1>14 DEF SpawnFails, Goto, OpenLog
<1>15. CASE Raise
  BY <1>15 DEF Raise, Goto
<1>16. CASE Reserve
  BY <1>16, CfdAssumption DEF Reserve, Reach, Holdout, Fresh
<1>17. CASE Fold
  BY <1>17 DEF Fold, Reach
<1>18. CASE Test
  BY <1>18 DEF Test, Reach
<1>19. CASE Compare
  BY <1>19 DEF Compare, Reach, Incumbent
<1>20. CASE Save
  BY <1>20 DEF Save, Reach
<1>21. CASE Publish
  BY <1>21 DEF Publish, Reach
<1>22. CASE Finish
  BY <1>22 DEF Finish, Exit
<1>23. CASE Refuse
  BY <1>23 DEF Refuse, Exit
<1>24. CASE Fail
  BY <1>24 DEF Fail, Exit, Alive
<1>25. CASE Killed
  BY <1>25 DEF Killed, Exit, Alive
<1>26. CASE Die
  BY <1>26 DEF Die
<1>27. CASE UNCHANGED vars
  BY <1>27 DEF vars
<1>28. QED BY <1>1, <1>2, <1>3, <1>4, <1>5, <1>6, <1>7, <1>8, <1>9, <1>10, <1>11, <1>12,
     <1>13, <1>14, <1>15, <1>16, <1>17, <1>18, <1>19, <1>20, <1>21, <1>22, <1>23, <1>24,
     <1>25, <1>26, <1>27 DEF Next, Worker, Child

LEMMA ModelStep ==
  ASSUME CfdInv, Next \/ UNCHANGED vars
  PROVE  ModelInv'
<1> USE DEF CfdInv, CTypeOK, markers, files, training, history, ProcessInv, ModelInv,
     Reserving, Unpublished, NoBar, Bar
<1>1. CASE Capture
  BY <1>1 DEF Capture
<1>2. CASE Service
  BY <1>2 DEF Service, Start, Goto
<1>3. CASE Returned
  BY <1>3 DEF Returned, Start, Goto
<1>4. CASE Reap
  BY <1>4 DEF Reap, Goto, Release, Consumed, Unseen
<1>5. CASE Clear
  BY <1>5 DEF Clear
<1>6. CASE Recover
  BY <1>6 DEF Recover, Goto, Release, Owned, Consumed, Unseen
<1>7. CASE Wipe
  BY <1>7 DEF Wipe, Goto
<1>8. CASE RecoverLegacy
  BY <1>8 DEF RecoverLegacy, Goto, Release, Consumed, Unseen
<1>9. CASE Forget
  BY <1>9 DEF Forget, Goto
<1>10. CASE Consider
  BY <1>10 DEF Consider, Qualified, Activate, Goto
<1>11. CASE Mark
  BY <1>11 DEF Mark, Goto
<1>12. CASE Launch
  BY <1>12 DEF Launch, Goto
<1>13. CASE Spawn
  BY <1>13 DEF Spawn, OpenLog
<1>14. CASE SpawnFails
  BY <1>14 DEF SpawnFails, Goto, OpenLog
<1>15. CASE Raise
  BY <1>15 DEF Raise, Goto
<1>16. CASE Reserve
  BY <1>16, CfdAssumption DEF Reserve, Reach, Holdout, Fresh
<1>17. CASE Fold
  BY <1>17 DEF Fold, Reach
<1>18. CASE Test
  BY <1>18 DEF Test, Reach
<1>19. CASE Compare
  BY <1>19 DEF Compare, Reach, Incumbent
<1>20. CASE Save
  BY <1>20 DEF Save, Reach
<1>21. CASE Publish
  <2>1. cand'.end = end /\ cand'.beat = beat
    BY <1>21 DEF Publish
  <2>2. QED BY <1>21, <2>1 DEF Publish, Reach
<1>22. CASE Finish
  BY <1>22 DEF Finish, Exit
<1>23. CASE Refuse
  BY <1>23 DEF Refuse, Exit
<1>24. CASE Fail
  BY <1>24 DEF Fail, Exit, Alive
<1>25. CASE Killed
  BY <1>25 DEF Killed, Exit, Alive
<1>26. CASE Die
  BY <1>26 DEF Die
<1>27. CASE UNCHANGED vars
  BY <1>27 DEF vars
<1>28. QED BY <1>1, <1>2, <1>3, <1>4, <1>5, <1>6, <1>7, <1>8, <1>9, <1>10, <1>11, <1>12,
     <1>13, <1>14, <1>15, <1>16, <1>17, <1>18, <1>19, <1>20, <1>21, <1>22, <1>23, <1>24,
     <1>25, <1>26, <1>27 DEF Next, Worker, Child

\* The worker's markers, the ledger, the log and the models agree, whatever
\* fails, is killed or is recovered.
THEOREM TrainingAgreement == Spec => []CfdInv
<1>1. CfdInv /\ [Next]_vars => CfdInv'
  <2> SUFFICES ASSUME CfdInv, Next \/ UNCHANGED vars PROVE CfdInv'
    OBVIOUS
  <2>1. QED BY TypeStep, ProcessStep, SeenStep, ModelStep DEF CfdInv
<1>2. QED BY <1>1, InitInv, PTL DEF Spec

-----------------------------------------------------------------------------
(* What follows.                                                           *)

\* Recovery never takes the marker or the reservation of a process that runs.
THEOREM LiveChildIsSafe == Spec => []LiveChildOwnsReservation
<1>1. CfdInv => LiveChildOwnsReservation
  BY DEF CfdInv, CTypeOK, ProcessInv, LiveChildOwnsReservation, Alive, Reserving
<1>2. QED BY <1>1, TrainingAgreement, PTL

\* The reservation of a model that waits or serves is never released, and no
\* later holdout reaches back into it.
THEOREM EvidenceIsKept == Spec => []EvidenceKept
<1>1. CfdInv => EvidenceKept
  BY DEF CfdInv, CTypeOK, ModelInv, EvidenceKept, Reserving
<1>2. QED BY <1>1, TrainingAgreement, PTL

\* Only Consider changes the model in service.
LEMMA Replacement ==
  ASSUME CfdInv, [Next]_vars, active' # active
  PROVE  cand.ok /\ cand.beat = active
<1>1. CASE Consider
  BY <1>1 DEF Consider, Qualified, Activate, CfdInv, ModelInv
<1>2. CASE UNCHANGED active
  BY <1>2
<1>3. QED
  BY <1>1, <1>2
     DEF Next, Worker, Child, vars, files, Capture, Service, Returned, Start, Reap, Release, Clear,
         Recover, Wipe, RecoverLegacy, Forget, Mark, Launch, Spawn, OpenLog, SpawnFails, Raise,
         Reserve, Fold, Test, Compare, Save, Publish, Exit, Finish, Refuse, Fail, Killed, Die

\* A model enters service only against the incumbent it was compared with.
THEOREM ReplacementIsEarned == Spec => ReplacesWhatItBeat
<1>1. CfdInv /\ [Next]_vars => [active' # active => cand.ok /\ cand.beat = active]_vars
  BY Replacement
<1>2. QED BY <1>1, TrainingAgreement, PTL DEF Spec, ReplacesWhatItBeat

-----------------------------------------------------------------------------
(* The ledger.                                                             *)

LEMMA LedgerInit == Init => Ledger!Init
<1> SUFFICES ASSUME Init PROVE Ledger!Init
  OBVIOUS
<1>1. /\ looks \in [Bar -> {0, 1}]
      /\ \A b \in Bar : looks[b] = 1 => b \in Reserved
  <2>1. CASE Legacy
    <3>1. hist \in Bar
      BY <2>1 DEF Legacy
    <3>2. CASE looks = [b \in Bar |-> 0]
      BY <3>2
    <3>3. CASE attempts = {hist} /\ \E f \in 1..hist : looks = [b \in Bar |-> IF b \in
         f..hist THEN 1 ELSE 0]
      BY <3>1, <3>3 DEF Bar, Reserved
    <3>4. QED BY <2>1, <3>2, <3>3 DEF Legacy
  <2>2. QED BY <2>1 DEF Init
<1>2. QED BY <1>1 DEF Ledger!Init, Reserved

\* Steps that leave both the ledger and the tests alone.
LEMMA LedgerSame == UNCHANGED <<attempts, looks>> => UNCHANGED Ledger!vars
BY DEF Ledger!vars, Reserved

\* A reservation is released while nothing was tested.
LEMMA LedgerRelease ==
  ASSUME CfdInv, NEW e, attempts' = attempts \ {e}, log = "empty", UNCHANGED looks
  PROVE  Ledger!Next
<1> DEFINE bars == Reserved \ Reserved'
<1>1. \A b \in Bar : looks[b] = 0
  BY DEF CfdInv, SeenInv
<1>2. bars \in SUBSET Bar /\ Reserved' = Reserved \ bars
  BY DEF Reserved
<1>3. Ledger!GiveUp(bars)
  BY <1>1, <1>2 DEF Ledger!GiveUp
<1>4. QED BY <1>2, <1>3 DEF Ledger!Next

\* An attempt reserves what no attempt has reserved.
LEMMA LedgerReserve ==
  ASSUME CfdInv, Reserve
  PROVE  Ledger!Next
<1> DEFINE bars == Reserved' \ Reserved
<1>1. attempts \subseteq attempts' /\ UNCHANGED looks
  BY DEF Reserve, history
<1>2. bars \in SUBSET Bar /\ Reserved' = Reserved \cup bars /\ bars \cap Reserved = {}
  BY <1>1 DEF Reserved
<1>3. Ledger!Reserve(bars)
  BY <1>1, <1>2 DEF Ledger!Reserve
<1>4. QED BY <1>2, <1>3 DEF Ledger!Next

\* A holdout is tested once, and while it is reserved.
LEMMA LedgerTest ==
  ASSUME CfdInv, Test
  PROVE  Ledger!Next
<1> DEFINE bars == first..end
<1>1. end \in attempts /\ first \in Bar /\ end \in Bar /\ \A b \in bars : looks[b] = 0
  BY DEF Test, CfdInv, CTypeOK, ProcessInv, SeenInv, Reserving
<1>2. bars \in SUBSET Bar /\ bars \subseteq Reserved
  <2>1. \A b \in bars : b \in Bar /\ b <= end
    BY <1>1, CfdAssumption DEF Bar
  <2>2. QED BY <1>1, <2>1 DEF Reserved
<1>3. looks' = [b \in Bar |-> IF b \in bars THEN 1 ELSE looks[b]] /\ UNCHANGED attempts
  BY <1>1 DEF Test, files
<1>4. Ledger!Test(bars)
  BY <1>1, <1>2, <1>3 DEF Ledger!Test, Reserved
<1>5. QED BY <1>2, <1>4 DEF Ledger!Next

LEMMA LedgerStep ==
  ASSUME CfdInv, [Next]_vars
  PROVE  [Ledger!Next]_(Ledger!vars)
<1>1. CASE UNCHANGED <<attempts, looks>>
  BY <1>1, LedgerSame
<1>2. CASE Reserve
  BY <1>2, LedgerReserve
<1>3. CASE Test
  BY <1>3, LedgerTest
<1>4. CASE Reap \/ Recover \/ RecoverLegacy
  <2>1. CASE \E e : log = "empty" /\ attempts' = attempts \ {e} /\ UNCHANGED looks
    BY <2>1, LedgerRelease
  <2>2. QED
    BY <1>1, <1>4, <2>1
       DEF Reap, Recover, RecoverLegacy, Release, Unseen, Consumed, files, history
<1>5. QED
  BY <1>1, <1>2, <1>3, <1>4
     DEF Next, Worker, Child, vars, files, history, Capture, Service, Returned, Start, Clear, Wipe,
         Forget, Consider, Qualified, Activate, Mark, Launch, Spawn, OpenLog, SpawnFails, Raise, Fold, Compare, Save,
         Publish, Exit, Finish, Refuse, Fail, Killed, Die

\* Training implements the ledger's promise: no bar is tested twice or
\* unreserved, and only what was never tested is given up.
THEOREM LedgerIsKept == Spec => HoldoutsUntouched
<1>1. QED BY LedgerInit, LedgerStep, TrainingAgreement, PTL DEF Spec, HoldoutsUntouched, Ledger!Spec

=============================================================================
