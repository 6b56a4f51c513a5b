\* The test macro alone, then threads that pass checkpoints and set the counter.
CONSTANTS
  Thread = {t1, t2, t3}
  Tester = t1
  Points = 4
  Counts <- MCCounts
SPECIFICATION MCSpec
INVARIANTS AtMostOneFailure ExactCountdown EveryPointFailsOnce OneFaultPerRun
PROPERTIES RetryEnds TestTerminates
