------------------------ MODULE FaultInjectionProofs ------------------------
(***************************************************************************)
(* The fault injection counter is correct for every set of threads and     *)
(* every set of counts they arm.                                           *)
(***************************************************************************)
EXTENDS FaultInjectionTest, FiniteSetTheorems, TLAPS

USE DEF RCUTILS_FAULT_INJECTION_NEVER_FAIL, RCUTILS_FAULT_INJECTION_FAIL_NOW

\* The state of the counter is typed, and only a caller takes it below NEVER_FAIL.
THEOREM TypeCorrect == Spec => []TypeOK
<1>1. Init => TypeOK
  BY DEF Init, TypeOK, Armed
<1>2. TypeOK /\ [Next]_vars => TypeOK'
  <2> SUFFICES ASSUME TypeOK, [Next]_vars PROVE TypeOK'
    OBVIOUS
  <2> USE CountsAssumption DEF TypeOK, Return, Armed, SetCount
  <2>1. ASSUME NEW t \in Thread, Load(t) PROVE TypeOK'
    BY <2>1 DEF Load
  <2>2. ASSUME NEW t \in Thread, ReturnDisabled(t) PROVE TypeOK'
    BY <2>2 DEF ReturnDisabled
  <2>3. ASSUME NEW t \in Thread, ExchangeSucceeds(t) PROVE TypeOK'
    BY <2>3 DEF ExchangeSucceeds, TakeTurn
  <2>4. ASSUME NEW t \in Thread, ExchangeFails(t) PROVE TypeOK'
    BY <2>4 DEF ExchangeFails
  <2>5. ASSUME NEW t \in Thread, NEW n \in Counts, CallSetCount(t, n) PROVE TypeOK'
    BY <2>5 DEF CallSetCount
  <2>6. CASE UNCHANGED vars
    BY <2>6 DEF vars
  <2>7. QED
    BY <2>1, <2>2, <2>3, <2>4, <2>5, <2>6 DEF Next, MaybeFail
<1>3. QED
  BY <1>1, <1>2, PTL DEF Spec

\* Concurrent checkpoints lose and double no decrement: between two calls of
\* set_count the counter is exactly what was set less the turns taken.
THEOREM CountdownIsExact == Spec => []ExactCountdown
<1>1. Init => ExactCountdown
  BY DEF Init, ExactCountdown, Armed
<1>2. TypeOK /\ ExactCountdown /\ [Next]_vars => ExactCountdown'
  <2> SUFFICES ASSUME TypeOK, ExactCountdown, [Next]_vars PROVE ExactCountdown'
    OBVIOUS
  <2> USE CountsAssumption DEF ExactCountdown, TypeOK
  <2>1. ASSUME NEW t \in Thread, Load(t) PROVE ExactCountdown'
    BY <2>1 DEF Load
  <2>2. ASSUME NEW t \in Thread, ReturnDisabled(t) PROVE ExactCountdown'
    BY <2>2 DEF ReturnDisabled
  <2>3. ASSUME NEW t \in Thread, ExchangeSucceeds(t) PROVE ExactCountdown'
    BY <2>3 DEF ExchangeSucceeds, TakeTurn
  <2>4. ASSUME NEW t \in Thread, ExchangeFails(t) PROVE ExactCountdown'
    BY <2>4 DEF ExchangeFails
  <2>5. ASSUME NEW t \in Thread, NEW n \in Counts, CallSetCount(t, n)
        PROVE ExactCountdown'
    BY <2>5 DEF CallSetCount, SetCount, Armed
  <2>6. CASE UNCHANGED vars
    BY <2>6 DEF vars
  <2>7. QED
    BY <2>1, <2>2, <2>3, <2>4, <2>5, <2>6 DEF Next, MaybeFail
<1>3. QED
  BY <1>1, <1>2, TypeCorrect, PTL DEF Spec

\* At most one checkpoint fails for each time the counter is set, for every
\* number of threads: the exact countdown passes zero only once.
THEOREM OneFailure == Spec => []AtMostOneFailure
<1>1. TypeOK /\ ExactCountdown => AtMostOneFailure
  BY DEF TypeOK, ExactCountdown, AtMostOneFailure
<1>2. QED
  BY <1>1, TypeCorrect, CountdownIsExact, PTL

-----------------------------------------------------------------------------
(* RCUTILS_FAULT_INJECTION_TEST, for code with any number of checkpoints     *)
(* and any paused block b.  A checkpoint is counted only outside the block;  *)
(* Counted(b, p) is the number of the last of these among 1..p.              *)
Block(b) == b.first .. b.last
Counted(b, p) == Cardinality((1 .. p) \ Block(b))
\* The first n of them have failed once, and no other checkpoint ever has.
FailedUpTo(h, b, n) ==
  \A p \in 1 .. Points : h[p] = IF p \notin Block(b) /\ Counted(b, p) <= n THEN 1 ELSE 0
\* The counter as the code outside the block will find it.
Remaining == IF block \in {"saved", "inside"} THEN saved ELSE count

TestTypeOK ==
  /\ count \in Int /\ saved \in Int
  /\ pc \in [Thread -> {"idle", "loop"}] /\ current \in [Thread -> Int]
  /\ fate \in [Thread -> {"pass", "fail"}]
  /\ stage \in {"arm", "run", "done"} /\ next_arm \in Nat /\ point \in 1 .. Points + 1
  /\ pause \in [first : 1 .. Points, last : 0 .. Points]
  /\ block \in {"before", "saved", "inside", "after"}
  /\ hits \in [1 .. Points -> Nat]

\* Inside a paused block the counter is disabled and its value is saved.
BlockInv ==
  /\ block \in {"saved", "inside"} => stage = "run"
  /\ block = "saved" => count = saved /\ pc[Tester] = "idle"
  /\ block = "inside" => count = RCUTILS_FAULT_INJECTION_NEVER_FAIL

\* No other thread moves the counter between the tester's load and its exchange.
CheckpointInv ==
  pc[Tester] = "loop" =>
    /\ stage = "run" /\ point <= Points /\ current[Tester] = count
    /\ IF point \in Block(pause) THEN block = "inside" ELSE block \in {"before", "after"}

\* Run number next_arm, armed with next_arm - 1: until the counted checkpoint with
\* this run's number has been passed it has not failed, and the counter is what is
\* left; afterwards it has failed and the counter is used up.  This also holds
\* when the failure has left the code at once.
RunInv ==
  stage = "run" =>
    /\ next_arm >= 1
    /\ Counted(pause, point - 1) < next_arm =>
         Remaining = next_arm - 1 - Counted(pause, point - 1) /\ FailedUpTo(hits, pause, next_arm - 1)
    /\ Counted(pause, point - 1) >= next_arm =>
         Remaining = RCUTILS_FAULT_INJECTION_NEVER_FAIL /\ FailedUpTo(hits, pause, next_arm)

TestInv ==
  /\ TestTypeOK /\ BlockInv /\ CheckpointInv /\ RunInv
  /\ stage = "arm" => FailedUpTo(hits, pause, next_arm)
  /\ stage = "done" => FailedUpTo(hits, pause, Counted(pause, Points))

\* How the number of counted checkpoints goes up.
LEMMA CountedFacts ==
  ASSUME NEW b
  PROVE  /\ Counted(b, 0) = 0
         /\ \A p \in 0 .. Points : Counted(b, p) \in Nat
         /\ \A p \in 1 .. Points :
              Counted(b, p) = IF p \in Block(b) THEN Counted(b, p - 1) ELSE Counted(b, p - 1) + 1
         /\ \A p \in 0 .. Points, q \in 0 .. Points : p <= q => Counted(b, p) <= Counted(b, q)
<1> DEFINE C(p) == (1 .. p) \ Block(b)
<1>1. ASSUME NEW p \in 0 .. Points
      PROVE  IsFiniteSet(C(p)) /\ Counted(b, p) \in Nat /\ Counted(b, p) = Cardinality(C(p))
  <2>1. IsFiniteSet(1 .. p)
    BY FS_Interval, PointsAssumption
  <2>2. IsFiniteSet(C(p))
    BY <2>1, FS_Difference
  <2>3. QED
    BY <2>2, FS_CardinalityType DEF Counted
<1>2. Counted(b, 0) = 0
  <2>1. C(0) = {}
    OBVIOUS
  <2>2. QED
    BY <2>1, FS_EmptySet DEF Counted
<1>3. ASSUME NEW p \in 1 .. Points
      PROVE  Counted(b, p) = IF p \in Block(b) THEN Counted(b, p - 1) ELSE Counted(b, p - 1) + 1
  <2>1. p - 1 \in 0 .. Points /\ p \in 0 .. Points /\ p \notin 1 .. p - 1 /\ 1 .. p = (1 .. p - 1) \union {p}
    BY PointsAssumption
  <2>2. CASE p \in Block(b)
    <3>1. C(p) = C(p - 1)
      BY <2>1, <2>2
    <3>2. QED
      BY <2>1, <2>2, <3>1, <1>1
  <2>3. CASE p \notin Block(b)
    <3>1. C(p) = C(p - 1) \union {p} /\ p \notin C(p - 1)
      BY <2>1, <2>3
    <3>2. Cardinality(C(p)) = Cardinality(C(p - 1)) + 1
      BY <2>1, <3>1, <1>1, FS_AddElement
    <3>3. QED
      BY <2>1, <2>3, <3>2, <1>1
  <2>4. QED
    BY <2>2, <2>3
<1>4. ASSUME NEW p \in 0 .. Points, NEW q \in 0 .. Points, p <= q
      PROVE  Counted(b, p) <= Counted(b, q)
  <2>1. C(p) \in SUBSET C(q)
    BY <1>4
  <2> HIDE DEF C
  <2>2. Cardinality(C(p)) <= Cardinality(C(q))
    BY <1>1, <2>1, FS_Subset
  <2>3. QED
    BY <1>1, <2>2
<1>5. QED
  BY <1>1, <1>2, <1>3, <1>4

\* The checkpoint that is about to be passed is the next one counted, if it is
\* counted at all, and no other one has its number.
LEMMA NextCounted ==
  ASSUME NEW b, NEW q \in 1 .. Points, q \notin Block(b), NEW p \in 1 .. Points, p \notin Block(b)
  PROVE  Counted(b, p) = Counted(b, q - 1) + 1 <=> p = q
<1>1. q - 1 \in 0 .. Points /\ p - 1 \in 0 .. Points /\ p \in 0 .. Points /\ q \in 0 .. Points
  BY PointsAssumption
<1>2. Counted(b, q) = Counted(b, q - 1) + 1 /\ Counted(b, p) = Counted(b, p - 1) + 1
  BY <1>1, CountedFacts
<1>3. \A x \in 0 .. Points : Counted(b, x) \in Nat
  BY CountedFacts
<1>4. CASE p < q
  <2>1. Counted(b, p) <= Counted(b, q - 1)
    BY <1>1, <1>4, CountedFacts
  <2>2. QED
    BY <1>1, <1>3, <1>4, <2>1
<1>5. CASE q < p
  <2>1. Counted(b, q) <= Counted(b, p - 1)
    BY <1>1, <1>5, CountedFacts
  <2>2. QED
    BY <1>1, <1>2, <1>3, <1>5, <2>1
<1>6. CASE p = q
  BY <1>2, <1>6
<1>7. QED
  BY <1>1, <1>4, <1>5, <1>6

LEMMA TestInitInv == TestInit => TestInv
<1> SUFFICES ASSUME TestInit
             PROVE  TestInv
  OBVIOUS
<1>1. TestTypeOK
  BY PointsAssumption DEF TestInit, Init, TestTypeOK
<1>2. BlockInv /\ CheckpointInv /\ RunInv /\ stage = "arm" /\ next_arm = 0
  BY TesterAssumption DEF TestInit, Init, BlockInv, CheckpointInv, RunInv
<1>3. ASSUME NEW p \in 1 .. Points, p \notin Block(pause)
      PROVE  ~(Counted(pause, p) <= next_arm)
  <2>1. p - 1 \in 0 .. Points /\ p \in 0 .. Points
    BY PointsAssumption
  <2>2. Counted(pause, p) = Counted(pause, p - 1) + 1 /\ Counted(pause, p - 1) \in Nat
    BY <1>1, <1>3, <2>1, CountedFacts
  <2>3. QED
    BY <2>2 DEF TestInit
<1>4. FailedUpTo(hits, pause, next_arm)
  BY <1>3 DEF FailedUpTo, TestInit
<1>5. QED
  BY <1>1, <1>2, <1>4 DEF TestInv

\* What the properties say of the state, from the invariant.
LEMMA TestInvSays == TestInv => OneFaultPerRun /\ EveryPointFailsOnce
<1> SUFFICES ASSUME TestInv
             PROVE  OneFaultPerRun /\ EveryPointFailsOnce
  OBVIOUS
<1>1. OneFaultPerRun
  BY DEF TestInv, FailedUpTo, OneFaultPerRun, Counted, Block, Paused
<1>2. ASSUME stage = "done"
      PROVE  hits = [p \in 1 .. Points |-> IF p \in Paused THEN 0 ELSE 1]
  <2>1. \A p \in 1 .. Points : Counted(pause, p) <= Counted(pause, Points)
    BY CountedFacts, PointsAssumption
  <2>2. \A p \in 1 .. Points : hits[p] = IF p \in Block(pause) THEN 0 ELSE 1
    BY <1>2, <2>1 DEF TestInv, FailedUpTo
  <2>3. QED
    BY <2>2 DEF TestInv, TestTypeOK, Block, Paused
<1>3. QED
  BY <1>1, <1>2 DEF EveryPointFailsOnce

\* The head of the loop: nothing has been counted yet in the new run.
LEMMA ArmStep == ASSUME TestInv, Arm PROVE TestInv'
<1>1. /\ stage = "arm" /\ count' = next_arm /\ next_arm' = next_arm + 1
      /\ stage' = "run" /\ point' = 1 /\ block' = "before"
      /\ UNCHANGED <<pc, current, fate, saved, hits, pause>>
  BY DEF Arm, SetCount
<1>2. TestTypeOK'
  BY <1>1, PointsAssumption DEF TestInv, TestTypeOK
<1>3. pc[Tester] = "idle"
  BY <1>1, TesterAssumption DEF TestInv, TestTypeOK, CheckpointInv
<1>4. BlockInv' /\ CheckpointInv'
  BY <1>1, <1>3 DEF BlockInv, CheckpointInv
<1>5. Counted(pause, 0) = 0 /\ FailedUpTo(hits, pause, next_arm) /\ next_arm \in Nat
  BY <1>1, CountedFacts DEF TestInv, TestTypeOK
<1>6. RunInv'
  BY <1>1, <1>5 DEF RunInv, Remaining
<1>7. QED
  BY <1>1, <1>2, <1>4, <1>6 DEF TestInv

\* The block saves the counter, disables it, and restores it: what remains for the
\* code outside the block does not change.
LEMMA PauseStep == ASSUME TestInv, PauseSave \/ PauseDisable \/ PauseRestore PROVE TestInv'
<1>1. CASE PauseSave
  <2>1. /\ stage = "run" /\ pc[Tester] = "idle" /\ block = "before" /\ saved' = count /\ block' = "saved"
        /\ UNCHANGED <<count, pc, current, fate, stage, next_arm, point, hits, pause>>
    BY <1>1 DEF PauseSave, vars
  <2>2. TestTypeOK' /\ BlockInv' /\ CheckpointInv'
    BY <2>1 DEF TestInv, TestTypeOK, BlockInv, CheckpointInv
  <2>3. Remaining' = Remaining
    BY <2>1 DEF Remaining
  <2>4. RunInv'
    BY <2>1, <2>3 DEF TestInv, RunInv
  <2>5. QED
    BY <2>1, <2>2, <2>4 DEF TestInv
<1>2. CASE PauseDisable
  <2>1. /\ block = "saved" /\ count' = -1 /\ block' = "inside"
        /\ UNCHANGED <<pc, current, fate, stage, next_arm, point, saved, hits, pause>>
    BY <1>2 DEF PauseDisable, SetCount
  <2>2. TestTypeOK' /\ BlockInv' /\ CheckpointInv'
    BY <2>1 DEF TestInv, TestTypeOK, BlockInv, CheckpointInv
  <2>3. Remaining' = Remaining
    BY <2>1 DEF Remaining
  <2>4. RunInv'
    BY <2>1, <2>3 DEF TestInv, RunInv
  <2>5. QED
    BY <2>1, <2>2, <2>4 DEF TestInv, BlockInv
<1>3. CASE PauseRestore
  <2>1. /\ block = "inside" /\ pc[Tester] = "idle" /\ count' = saved /\ block' = "after"
        /\ UNCHANGED <<pc, current, fate, stage, next_arm, point, saved, hits, pause>>
    BY <1>3 DEF PauseRestore, SetCount
  <2>2. TestTypeOK' /\ BlockInv' /\ CheckpointInv'
    BY <2>1 DEF TestInv, TestTypeOK, BlockInv, CheckpointInv
  <2>3. Remaining' = Remaining
    BY <2>1 DEF Remaining
  <2>4. RunInv'
    BY <2>1, <2>3 DEF TestInv, RunInv
  <2>5. QED
    BY <2>1, <2>2, <2>4 DEF TestInv, BlockInv
<1>4. QED
  BY <1>1, <1>2, <1>3

\* The end of a run: the counter is used up exactly when this run's checkpoint has
\* failed; when it is left, there is no checkpoint with this run's number.
LEMMA EndOfRunStep == ASSUME TestInv, EndOfRun PROVE TestInv'
<1>1. /\ stage = "run" /\ pc[Tester] = "idle" /\ point > Points /\ block \in {"before", "after"}
      /\ \/ count > -1 /\ stage' = "done" /\ count' = -1
         \/ ~(count > -1) /\ stage' = "arm" /\ count' = count
      /\ UNCHANGED <<pc, current, fate, next_arm, point, block, saved, hits, pause>>
  BY DEF EndOfRun, SetCount, IsTestComplete
<1>2. point - 1 = Points
  BY <1>1, PointsAssumption DEF TestInv, TestTypeOK
<1>3. TestTypeOK' /\ BlockInv' /\ CheckpointInv' /\ RunInv'
  <2>1. TestTypeOK'
    BY <1>1 DEF TestInv, TestTypeOK
  <2>2. BlockInv' /\ CheckpointInv' /\ RunInv'
    BY <1>1 DEF BlockInv, CheckpointInv, RunInv
  <2>3. QED
    BY <2>1, <2>2
<1>4. Counted(pause, Points) \in Nat /\ next_arm \in Nat
  <2>1. Points \in 0 .. Points
    BY PointsAssumption
  <2>2. next_arm \in Nat
    BY DEF TestInv, TestTypeOK
  <2>3. QED
    BY <2>1, <2>2, CountedFacts
<1>5. Remaining = count /\ count \in Int
  BY <1>1 DEF TestInv, TestTypeOK, Remaining
<1>6. CASE Counted(pause, Points) < next_arm
  <2>1. count = next_arm - 1 - Counted(pause, Points) /\ FailedUpTo(hits, pause, next_arm - 1)
    BY <1>1, <1>2, <1>5, <1>6 DEF TestInv, RunInv
  <2>2. stage' = "done"
    BY <1>1, <1>4, <1>6, <2>1
  <2>3. \A p \in 1 .. Points : Counted(pause, p) <= Counted(pause, Points) /\ Counted(pause, p) \in Nat
    BY CountedFacts, PointsAssumption
  <2>4. FailedUpTo(hits, pause, Counted(pause, Points))
    BY <1>4, <1>6, <2>1, <2>3 DEF FailedUpTo
  <2>5. QED
    BY <1>1, <1>3, <2>2, <2>4 DEF TestInv
<1>7. CASE Counted(pause, Points) >= next_arm
  <2>1. count = -1 /\ FailedUpTo(hits, pause, next_arm)
    BY <1>1, <1>2, <1>5, <1>7 DEF TestInv, RunInv
  <2>2. stage' = "arm"
    BY <1>1, <2>1
  <2>3. QED
    BY <1>1, <1>3, <2>1, <2>2 DEF TestInv
<1>8. QED
  BY <1>4, <1>6, <1>7

\* The load of a checkpoint, and the return of one whose counter is disabled: the
\* latter is not counted, or comes after this run's failure.
LEMMA LoadStep == ASSUME TestInv, Checkpoint, Load(Tester) PROVE TestInv'
<1>1. /\ stage = "run" /\ point <= Points
      /\ IF point \in Block(pause) THEN block = "inside" ELSE block \in {"before", "after"}
      /\ UNCHANGED <<stage, next_arm, block, saved, pause>>
  BY DEF Checkpoint, Paused, Block
<1>2. pc' = [pc EXCEPT ![Tester] = "loop"] /\ current' = [current EXCEPT ![Tester] = count]
      /\ UNCHANGED <<count, fate>>
  BY DEF Load
<1>3. pc'[Tester] = "loop" /\ current'[Tester] = count
  BY <1>2, TesterAssumption DEF TestInv, TestTypeOK
<1>4. UNCHANGED <<point, hits>>
  BY <1>3 DEF Checkpoint
<1>5. TestTypeOK'
  BY <1>1, <1>2, <1>4 DEF TestInv, TestTypeOK
<1>6. BlockInv' /\ CheckpointInv'
  BY <1>1, <1>2, <1>3, <1>4 DEF TestInv, BlockInv, CheckpointInv
<1>7. RunInv'
  BY <1>1, <1>2, <1>4 DEF TestInv, RunInv, Remaining
<1>8. QED
  BY <1>1, <1>5, <1>6, <1>7 DEF TestInv

LEMMA ReturnStep == ASSUME TestInv, Checkpoint, ReturnDisabled(Tester) PROVE TestInv'
<1>1. /\ stage = "run" /\ point <= Points
      /\ IF point \in Block(pause) THEN block = "inside" ELSE block \in {"before", "after"}
      /\ UNCHANGED <<stage, next_arm, block, saved, pause>>
  BY DEF Checkpoint, Paused, Block
<1>2. /\ pc[Tester] = "loop" /\ current[Tester] <= -1 /\ UNCHANGED <<count, current>>
      /\ pc' = [pc EXCEPT ![Tester] = "idle"]
      /\ fate' = [fate EXCEPT ![Tester] = IF current[Tester] = 0 THEN "fail" ELSE "pass"]
  BY DEF ReturnDisabled, Return
<1>3. current[Tester] = count /\ count \in Int
  BY <1>2 DEF TestInv, TestTypeOK, CheckpointInv
<1>4. pc'[Tester] = "idle" /\ fate'[Tester] = "pass"
  BY <1>2, <1>3, TesterAssumption DEF TestInv, TestTypeOK
<1>5. point' = point + 1 /\ hits' = hits
  BY <1>4 DEF Checkpoint
<1>6. TestTypeOK'
  <2>1. pc' \in [Thread -> {"idle", "loop"}] /\ fate' \in [Thread -> {"pass", "fail"}]
    BY <1>2 DEF TestInv, TestTypeOK
  <2>2. point' \in 1 .. Points + 1
    BY <1>1, <1>5, PointsAssumption DEF TestInv, TestTypeOK
  <2>3. QED
    BY <1>1, <1>2, <1>5, <2>1, <2>2 DEF TestInv, TestTypeOK
<1>7. BlockInv' /\ CheckpointInv'
  BY <1>1, <1>2, <1>4, <1>5 DEF TestInv, BlockInv, CheckpointInv
<1>8. point \in 1 .. Points /\ point - 1 \in 0 .. Points /\ point' - 1 = point
  BY <1>1, <1>5, PointsAssumption DEF TestInv, TestTypeOK
<1>9. /\ Counted(pause, point - 1) \in Nat /\ next_arm \in Nat
      /\ Counted(pause, point) =
           IF point \in Block(pause) THEN Counted(pause, point - 1) ELSE Counted(pause, point - 1) + 1
  <2>1. next_arm \in Nat
    BY DEF TestInv, TestTypeOK
  <2>2. QED
    BY <1>8, <2>1, CountedFacts
<1>10. Remaining' = Remaining
  BY <1>1, <1>2 DEF Remaining
<1>11. point \notin Block(pause) => Counted(pause, point - 1) >= next_arm
  BY <1>1, <1>2, <1>3, <1>9 DEF TestInv, RunInv, Remaining
<1>12. RunInv'
  BY <1>1, <1>5, <1>8, <1>9, <1>10, <1>11 DEF TestInv, RunInv
<1>13. QED
  BY <1>1, <1>6, <1>7, <1>12 DEF TestInv

\* The exchange: the checkpoint is counted, and it fails exactly when it has this
\* run's number; a failure may leave the code, behind its last checkpoint.
LEMMA ExchangeStep == ASSUME TestInv, Checkpoint, ExchangeSucceeds(Tester) PROVE TestInv'
<1> DEFINE number == Counted(pause, point - 1)
<1>1. /\ stage = "run" /\ point <= Points
      /\ IF point \in Block(pause) THEN block = "inside" ELSE block \in {"before", "after"}
      /\ UNCHANGED <<stage, next_arm, block, saved, pause>>
  BY DEF Checkpoint, Paused, Block
<1>2. /\ pc[Tester] = "loop" /\ current[Tester] > -1 /\ count = current[Tester]
      /\ count' = count - 1 /\ UNCHANGED current
      /\ pc' = [pc EXCEPT ![Tester] = "idle"]
      /\ fate' = [fate EXCEPT ![Tester] = IF count = 0 THEN "fail" ELSE "pass"]
  BY DEF ExchangeSucceeds, Return
<1>3. count \in Int /\ next_arm \in Nat /\ hits \in [1 .. Points -> Nat]
  BY DEF TestInv, TestTypeOK
<1>4. pc'[Tester] = "idle" /\ fate'[Tester] = IF count = 0 THEN "fail" ELSE "pass"
  BY <1>2, TesterAssumption DEF TestInv, TestTypeOK
<1>5. point \notin Block(pause) /\ block \in {"before", "after"}
  BY <1>1, <1>2, <1>3 DEF TestInv, BlockInv
<1>6. point \in 1 .. Points /\ point \in 0 .. Points /\ point - 1 \in 0 .. Points
  BY <1>1, PointsAssumption DEF TestInv, TestTypeOK
<1>7. number \in Nat /\ Counted(pause, point) = number + 1
  BY <1>5, <1>6, CountedFacts
<1>8. number < next_arm /\ count = next_arm - 1 - number /\ FailedUpTo(hits, pause, next_arm - 1)
  BY <1>1, <1>2, <1>3, <1>5, <1>7 DEF TestInv, RunInv, Remaining
<1> HIDE DEF number
<1>9. /\ count' \in Int /\ pc' \in [Thread -> {"idle", "loop"}]
      /\ current' \in [Thread -> Int] /\ fate' \in [Thread -> {"pass", "fail"}]
  <2>1. pc' \in [Thread -> {"idle", "loop"}]
    BY <1>2 DEF TestInv, TestTypeOK
  <2>2. (IF count = 0 THEN "fail" ELSE "pass") \in {"pass", "fail"} /\ fate \in [Thread -> {"pass", "fail"}]
    BY DEF TestInv, TestTypeOK
  <2>3. fate' \in [Thread -> {"pass", "fail"}]
    BY <1>2, <2>2
  <2>4. count' \in Int /\ current' \in [Thread -> Int]
    BY <1>2, <1>3 DEF TestInv, TestTypeOK
  <2>5. QED
    BY <2>1, <2>3, <2>4
<1>10. CASE count = 0
  <2>1. hits' = [hits EXCEPT ![point] = @ + 1] /\ point' \in {point + 1, Points + 1}
    BY <1>4, <1>10 DEF Checkpoint
  <2>2. point' \in 1 .. Points + 1 /\ hits' \in [1 .. Points -> Nat]
    BY <1>3, <1>6, <2>1, PointsAssumption
  <2>3. next_arm = number + 1
    BY <1>3, <1>7, <1>8, <1>10
  <2>4. Counted(pause, point' - 1) \in Nat /\ Counted(pause, point' - 1) >= next_arm
    <3>1. point' - 1 \in 0 .. Points /\ point <= point' - 1
      <4>1. CASE point' = point + 1
        BY <1>6, <4>1, PointsAssumption
      <4>2. CASE point' = Points + 1
        BY <1>6, <4>2, PointsAssumption
      <4>3. QED
        BY <2>1, <4>1, <4>2
    <3>2. QED
      BY <1>6, <1>7, <2>3, <3>1, CountedFacts
  <2>5. FailedUpTo(hits', pause, next_arm)
    <3> SUFFICES ASSUME NEW p \in 1 .. Points
                 PROVE  hits'[p] = IF p \notin Block(pause) /\ Counted(pause, p) <= next_arm THEN 1 ELSE 0
      BY DEF FailedUpTo
    <3>1. hits[p] = IF p \notin Block(pause) /\ Counted(pause, p) <= next_arm - 1 THEN 1 ELSE 0
      BY <1>8 DEF FailedUpTo
    <3>2. Counted(pause, p) \in Nat
      BY CountedFacts, PointsAssumption
    <3>3. p \notin Block(pause) => (Counted(pause, p) = next_arm <=> p = point)
      BY <1>5, <1>6, <2>3, NextCounted DEF number
    <3>4. CASE p = point
      BY <1>3, <1>5, <2>1, <2>3, <3>1, <3>2, <3>3, <3>4
    <3>5. CASE p # point
      <4>1. hits'[p] = hits[p]
        BY <1>3, <2>1, <3>5
      <4>2. QED
        BY <1>3, <3>1, <3>2, <3>3, <3>5, <4>1
    <3>6. QED
      BY <3>4, <3>5
  <2>6. TestTypeOK'
    BY <1>1, <1>9, <2>2 DEF TestInv, TestTypeOK
  <2>7. BlockInv' /\ CheckpointInv'
    BY <1>1, <1>4, <1>5 DEF BlockInv, CheckpointInv
  <2>8. RunInv'
    BY <1>1, <1>2, <1>3, <1>5, <1>10, <2>3, <1>7, <2>4, <2>5 DEF RunInv, Remaining
  <2>9. QED
    BY <1>1, <2>6, <2>7, <2>8 DEF TestInv
<1>11. CASE count # 0
  <2>1. hits' = hits /\ point' = point + 1 /\ point' - 1 = point
    BY <1>4, <1>6, <1>11 DEF Checkpoint
  <2>2. TestTypeOK'
    <3>1. point' \in 1 .. Points + 1
      BY <1>6, <2>1, PointsAssumption
    <3>2. QED
      BY <1>1, <1>3, <1>9, <2>1, <3>1 DEF TestInv, TestTypeOK
  <2>3. BlockInv' /\ CheckpointInv'
    BY <1>1, <1>4, <1>5 DEF BlockInv, CheckpointInv
  <2>4. RunInv'
    BY <1>1, <1>2, <1>3, <1>5, <1>7, <1>8, <1>11, <2>1 DEF RunInv, Remaining
  <2>5. QED
    BY <1>1, <2>2, <2>3, <2>4 DEF TestInv
<1>12. QED
  BY <1>10, <1>11

LEMMA TestNextInv == TestInv /\ [TestNext]_allVars => TestInv'
<1> SUFFICES ASSUME TestInv, [TestNext]_allVars
             PROVE  TestInv'
  OBVIOUS
<1>1. CASE UNCHANGED allVars
  <2>1. UNCHANGED <<count, pc, current, fate, stage, next_arm, point, block, saved, hits, pause>>
    BY <1>1 DEF allVars, vars, testVars
  <2>2. TestTypeOK' /\ BlockInv' /\ CheckpointInv'
    BY <2>1 DEF TestInv, TestTypeOK, BlockInv, CheckpointInv
  <2>3. RunInv'
    BY <2>1 DEF TestInv, RunInv, Remaining
  <2>4. QED
    BY <2>1, <2>2, <2>3 DEF TestInv
<1>2. CASE Checkpoint
  <2>1. ~ExchangeFails(Tester)
    BY DEF TestInv, CheckpointInv, ExchangeFails
  <2>2. Load(Tester) \/ ReturnDisabled(Tester) \/ ExchangeSucceeds(Tester)
    BY <1>2, <2>1 DEF Checkpoint, MaybeFail
  <2>3. QED
    BY <1>2, <2>2, LoadStep, ReturnStep, ExchangeStep
<1>3. QED
  BY <1>1, <1>2, ArmStep, PauseStep, EndOfRunStep DEF TestNext, Finished

LEMMA TestInvariance == TestSpec => []TestInv
BY TestInitInv, TestNextInv, PTL DEF TestSpec

(* When the loop of RCUTILS_FAULT_INJECTION_TEST ends, every checkpoint that *)
(* is not in the paused block has failed exactly once, for code with any     *)
(* number of checkpoints, whichever of its failures leave the code early.    *)
THEOREM EveryPointFails == TestSpec => []EveryPointFailsOnce
BY TestInvariance, TestInvSays, PTL

(* Between two runs the checkpoints that have failed are the first of those  *)
(* outside the block, one for each run so far.                               *)
THEOREM OneFaultInEachRun == TestSpec => []OneFaultPerRun
BY TestInvariance, TestInvSays, PTL
=============================================================================
