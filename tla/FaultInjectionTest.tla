------------------------- MODULE FaultInjectionTest -------------------------
(***************************************************************************)
(* The test macros of include/rcutils/testing/fault_injection.h:           *)
(* RCUTILS_FAULT_INJECTION_TEST runs `code` again and again, each time     *)
(* with the counter armed one further, until a run leaves the counter      *)
(* armed; RCUTILS_NO_FAULT_INJECTION pauses injection for a block of it.   *)
(*                                                                         *)
(* `code` is any code that passes the checkpoints 1..Points in order when  *)
(* nothing fails.  A checkpoint made with MAYBE_RETURN_ERROR leaves the    *)
(* code when it fails, one made with MAYBE_FAIL carries on: either may     *)
(* happen at every failure.  The checkpoints pause.first..pause.last are   *)
(* inside a RCUTILS_NO_FAULT_INJECTION block (none if first > last).  No   *)
(* other thread passes a checkpoint meanwhile.                             *)
(***************************************************************************)
EXTENDS FaultInjection, FiniteSets

CONSTANTS
  Points,     \* how many checkpoints a run of the code passes
  Tester      \* the thread that runs the test

ASSUME PointsAssumption == Points \in Nat
ASSUME TesterAssumption == Tester \in Thread

VARIABLES
  stage,      \* "arm", "run", "done": where the do-while loop is
  next_arm,   \* the macro's local fault_injection_count
  point,      \* the next checkpoint of the code; Points + 1 at its end
  pause,      \* the extent of the NO_FAULT_INJECTION block
  block,      \* "before", "saved", "inside", "after": where the block is
  saved,      \* the block's local no_fault_injection_count
  hits        \* history: how often each checkpoint was made to fail

testVars == <<stage, next_arm, point, block, saved, hits>>
allVars == <<vars, testVars, pause>>

TestInit ==
  /\ Init
  /\ stage = "arm" /\ next_arm = 0 /\ point = 1
  /\ pause \in [first : 1..Points, last : 0..Points]
  /\ block = "before" /\ saved = 0
  /\ hits = [p \in 1..Points |-> 0]

Paused == pause.first .. pause.last

(* Mutant: the loop starts from NEVER_FAIL and does not advance the count. *)
ArmDisabled ==
  /\ stage = "arm"
  /\ SetCount(next_arm - 1)
  /\ UNCHANGED next_arm
  /\ stage' = "run" /\ point' = 1 /\ block' = "before"
  /\ UNCHANGED <<pc, current, fate, saved, hits, pause>>

(* The head of the loop: set_count(fault_injection_count++), then code. *)
Arm ==
  /\ stage = "arm"
  /\ SetCount(next_arm)
  /\ next_arm' = next_arm + 1
  /\ stage' = "run" /\ point' = 1 /\ block' = "before"
  /\ UNCHANGED <<pc, current, fate, saved, hits, pause>>

(* NO_FAULT_INJECTION: int64_t no_fault_injection_count = get_count() *)
PauseSave ==
  /\ stage = "run" /\ pc[Tester] = "idle" /\ block = "before"
  /\ point \in Paused
  /\ saved' = count
  /\ block' = "saved"
  /\ UNCHANGED <<vars, stage, next_arm, point, hits, pause>>

(* NO_FAULT_INJECTION: set_count(NEVER_FAIL), then its code *)
PauseDisable ==
  /\ block = "saved"
  /\ SetCount(RCUTILS_FAULT_INJECTION_NEVER_FAIL)
  /\ block' = "inside"
  /\ UNCHANGED <<pc, current, fate, stage, next_arm, point, saved, hits, pause>>

(* Mutant: the block leaves injection enabled from where the run had armed it. *)
RestoreArmed ==
  /\ block = "inside" /\ pc[Tester] = "idle"
  /\ point \notin Paused
  /\ SetCount(next_arm - 1)
  /\ block' = "after"
  /\ UNCHANGED <<pc, current, fate, stage, next_arm, point, saved, hits, pause>>

(* NO_FAULT_INJECTION: set_count(no_fault_injection_count) *)
PauseRestore ==
  /\ block = "inside" /\ pc[Tester] = "idle"
  /\ point \notin Paused
  /\ SetCount(saved)
  /\ block' = "after"
  /\ UNCHANGED <<pc, current, fate, stage, next_arm, point, saved, hits, pause>>

(* The code is about to pass, or is inside, the checkpoint number point. *)
Checkpoint ==
  /\ stage = "run" /\ point <= Points
  /\ IF point \in Paused THEN block = "inside" ELSE block \in {"before", "after"}
  /\ MaybeFail(Tester)
  /\ IF pc'[Tester] # "idle" THEN UNCHANGED <<point, hits>>
     ELSE IF fate'[Tester] = "pass" THEN point' = point + 1 /\ UNCHANGED hits
     ELSE /\ hits' = [hits EXCEPT ![point] = @ + 1]
          /\ point' \in {point + 1, Points + 1}
  /\ UNCHANGED <<stage, next_arm, block, saved, pause>>

(* Mutant: the loop also ends when the counter has just been used up. *)
EndOfRunEarly ==
  /\ stage = "run" /\ pc[Tester] = "idle" /\ point > Points
  /\ block \in {"before", "after"}
  /\ IF count >= RCUTILS_FAULT_INJECTION_NEVER_FAIL
     THEN stage' = "done" /\ SetCount(RCUTILS_FAULT_INJECTION_NEVER_FAIL)
     ELSE stage' = "arm" /\ UNCHANGED <<count, armed>>
  /\ UNCHANGED <<pc, current, fate, next_arm, point, block, saved, hits, pause>>

(* The code has ended: while (!is_test_complete()) *)
EndOfRun ==
  /\ stage = "run" /\ pc[Tester] = "idle" /\ point > Points
  /\ block \in {"before", "after"}
  /\ IF IsTestComplete
     THEN stage' = "done" /\ SetCount(RCUTILS_FAULT_INJECTION_NEVER_FAIL)
     ELSE stage' = "arm" /\ UNCHANGED <<count, armed>>
  /\ UNCHANGED <<pc, current, fate, next_arm, point, block, saved, hits, pause>>

Finished == stage = "done" /\ UNCHANGED allVars

TestNext == Arm \/ PauseSave \/ PauseDisable \/ PauseRestore \/ Checkpoint
            \/ EndOfRun \/ Finished

\* The tester is an ordinary running thread: it never stops between two steps.
TestSpec == TestInit /\ [][TestNext]_allVars /\ WF_allVars(TestNext)

-----------------------------------------------------------------------------
\* What RCUTILS_FAULT_INJECTION_TEST is for: when the loop ends, every checkpoint
\* outside the paused block has been made to fail, each exactly once, and none
\* inside it, whether failures leave the code early or not.
EveryPointFailsOnce ==
  stage = "done" =>
    hits = [p \in 1..Points |-> IF p \in Paused THEN 0 ELSE 1]

\* Run number n of the code injects one fault and injects it at the n-th checkpoint
\* outside the paused block: saving, disabling and restoring the counter around
\* the block neither consumes the armed count nor arms a second fault.
OneFaultPerRun ==
  stage = "arm" =>
    \A p \in 1..Points :
      hits[p] = IF p \notin Paused /\ Cardinality((1..p) \ Paused) <= next_arm THEN 1 ELSE 0

\* The do-while loop of the macro terminates for every such code.
TestTerminates == <>(stage = "done")
=============================================================================
