\* Two threads log: is rcutils_log thread-safe with itself?
CONSTANTS
  Thread = {t1, t2}
  Parts = 2
  NULL = NULL
SPECIFICATION Spec
INVARIANTS LogIsThreadSafe
CHECK_DEADLOCK FALSE
