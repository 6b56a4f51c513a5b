-------------------------- MODULE MCFaultInjection --------------------------
(***************************************************************************)
(* A tester runs the test loop over a code with four checkpoints, for      *)
(* every paused block; after the test without a paused block, the threads  *)
(* pass checkpoints and set the counter again at will.                     *)
(***************************************************************************)
EXTENDS FaultInjectionTest

MCCounts == {-2, -1, 0, 1, 2}

AfterTest == stage = "done" /\ pause = [first |-> 1, last |-> 0]
MCNext ==
  \/ TestNext
  \/ AfterTest /\ Next /\ UNCHANGED <<testVars, pause>>
\* The tester keeps running, and so does a thread inside maybe_fail.
MCSpec ==
  /\ TestInit /\ [][MCNext]_allVars
  /\ WF_allVars(TestNext)
  /\ \A t \in Thread : WF_vars(ReturnDisabled(t) \/ ExchangeSucceeds(t) \/ ExchangeFails(t))
=============================================================================
