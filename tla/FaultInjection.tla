--------------------------- MODULE FaultInjection ---------------------------
(***************************************************************************)
(* The process-wide fault injection counter of                             *)
(* src/testing/fault_injection.c, shared by any number of threads.         *)
(*                                                                         *)
(* Every access to g_rcutils_fault_injection_count is one sequentially     *)
(* consistent atomic operation, so every access is one action here; the    *)
(* load and the compare-and-exchange of                                    *)
(* _rcutils_fault_injection_maybe_fail are two, and other threads run in   *)
(* between.  The module describes the build with                           *)
(* RCUTILS_ENABLE_FAULT_INJECTION.                                         *)
(***************************************************************************)
EXTENDS Integers

CONSTANTS
  Thread,     \* the threads of the process
  Counts      \* the arguments callers pass to set_count

ASSUME CountsAssumption == Counts \subseteq Int

RCUTILS_FAULT_INJECTION_NEVER_FAIL == -1
RCUTILS_FAULT_INJECTION_FAIL_NOW   == 0

VARIABLES
  count,      \* g_rcutils_fault_injection_count
  pc,         \* pc[t]: where thread t is in maybe_fail
  current,    \* current[t]: its local current_count
  fate,       \* fate[t]: what its last checkpoint did, "pass" or "fail"
  armed       \* history: the last count set, and what happened since

vars == <<count, pc, current, fate, armed>>

\* What is recorded when the counter is set to n.
Armed(n) == [value |-> n, taken |-> 0, failures |-> 0]

\* What is recorded when a checkpoint takes the counter down from n.
TakeTurn(n) ==
  [value    |-> armed.value,
   taken    |-> armed.taken + 1,
   failures |-> IF n = RCUTILS_FAULT_INJECTION_FAIL_NOW
                THEN armed.failures + 1 ELSE armed.failures]

Init ==
  /\ count = RCUTILS_FAULT_INJECTION_NEVER_FAIL
  /\ pc = [t \in Thread |-> "idle"]
  /\ current = [t \in Thread |-> 0]
  /\ fate = [t \in Thread |-> "pass"]
  /\ armed = Armed(RCUTILS_FAULT_INJECTION_NEVER_FAIL)

-----------------------------------------------------------------------------
(* rcutils_fault_injection_set_count *)
SetCount(n) ==
  /\ count' = n
  /\ armed' = Armed(n)

(* rcutils_fault_injection_is_test_complete *)
IsTestComplete == count > RCUTILS_FAULT_INJECTION_NEVER_FAIL

(* The macros compare what maybe_fail returned with FAIL_NOW. *)
Return(t, returned) ==
  /\ pc' = [pc EXCEPT ![t] = "idle"]
  /\ fate' = [fate EXCEPT ![t] =
       IF returned = RCUTILS_FAULT_INJECTION_FAIL_NOW THEN "fail" ELSE "pass"]

(* maybe_fail: the initial load, through rcutils_fault_injection_get_count *)
Load(t) ==
  /\ pc[t] = "idle"
  /\ pc' = [pc EXCEPT ![t] = "loop"]
  /\ current' = [current EXCEPT ![t] = count]
  /\ UNCHANGED <<count, fate, armed>>

(* maybe_fail: the early return of a disabled counter *)
ReturnDisabled(t) ==
  /\ pc[t] = "loop"
  /\ current[t] <= RCUTILS_FAULT_INJECTION_NEVER_FAIL
  /\ Return(t, current[t])
  /\ UNCHANGED <<count, current, armed>>

(* Mutant: a plain store where the code exchanges. *)
StoreInsteadOfExchange(t) ==
  /\ pc[t] = "loop"
  /\ current[t] > RCUTILS_FAULT_INJECTION_NEVER_FAIL
  /\ count' = current[t] - 1
  /\ armed' = TakeTurn(current[t])
  /\ Return(t, current[t])
  /\ UNCHANGED current

(* maybe_fail: the compare-and-exchange succeeds and the loop ends *)
ExchangeSucceeds(t) ==
  /\ pc[t] = "loop"
  /\ current[t] > RCUTILS_FAULT_INJECTION_NEVER_FAIL
  /\ count = current[t]
  /\ count' = current[t] - 1
  /\ armed' = TakeTurn(current[t])
  /\ Return(t, current[t])
  /\ UNCHANGED current

(* Mutant: the expected value is not refreshed for the next try. *)
RetryWithStaleValue(t) ==
  /\ pc[t] = "loop"
  /\ current[t] > RCUTILS_FAULT_INJECTION_NEVER_FAIL
  /\ count # current[t]
  /\ UNCHANGED vars

(* maybe_fail: the compare-and-exchange fails and hands back the counter *)
ExchangeFails(t) ==
  /\ pc[t] = "loop"
  /\ current[t] > RCUTILS_FAULT_INJECTION_NEVER_FAIL
  /\ count # current[t]
  /\ current' = [current EXCEPT ![t] = count]
  /\ UNCHANGED <<count, pc, fate, armed>>

MaybeFail(t) == Load(t) \/ ReturnDisabled(t) \/ ExchangeSucceeds(t) \/ ExchangeFails(t)

\* A thread that is not inside maybe_fail sets the counter.
CallSetCount(t, n) ==
  /\ pc[t] = "idle"
  /\ SetCount(n)
  /\ UNCHANGED <<pc, current, fate>>

Next ==
  \E t \in Thread :
    \/ MaybeFail(t)
    \/ \E n \in Counts : CallSetCount(t, n)

Spec == Init /\ [][Next]_vars

\* A thread inside maybe_fail keeps running; no thread has to call it.
FairSpec ==
  /\ Spec
  /\ \A t \in Thread :
       WF_vars(ReturnDisabled(t) \/ ExchangeSucceeds(t) \/ ExchangeFails(t))

-----------------------------------------------------------------------------
\* Types; the counter is below NEVER_FAIL only if a caller set it there.
TypeOK ==
  /\ count \in Int
  /\ count < RCUTILS_FAULT_INJECTION_NEVER_FAIL => count \in Counts
  /\ pc \in [Thread -> {"idle", "loop"}]
  /\ current \in [Thread -> Int]
  /\ fate \in [Thread -> {"pass", "fail"}]
  /\ armed \in [value : Int, taken : Nat, failures : Nat]

\* "At most one invocation results in a failure for each time the fault
\* injection counter is set" (the macros' documentation): however the loads and
\* exchanges of the threads interleave, two checkpoints never both fail between
\* two calls of set_count.
AtMostOneFailure == armed.failures <= 1

\* No decrement is lost or doubled by concurrent checkpoints: the counter is what
\* was set less the checkpoints that took a turn, and the one that fails is
\* exactly the checkpoint number value+1 since it was set.
ExactCountdown ==
  /\ armed.value < 0 => count = armed.value /\ armed.taken = 0 /\ armed.failures = 0
  /\ armed.value >= 0 =>
       /\ count = armed.value - armed.taken
       /\ armed.failures = IF armed.taken = armed.value + 1 THEN 1 ELSE 0

\* The retry loop of maybe_fail ends: once threads have stopped setting the counter,
\* every thread inside maybe_fail returns, since a failed exchange means that
\* another checkpoint has taken its turn and the counter is bounded below.
\* (While the counter is set again and again the loop may retry for ever.)
RetryEnds ==
  <>[][armed' # armed => armed'.taken = armed.taken + 1]_vars
    => \A t \in Thread : pc[t] = "loop" ~> pc[t] = "idle"
=============================================================================
