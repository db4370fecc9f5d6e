\* Two approvals of one incident, on workers that stay up.
CONSTANTS
  Threads = {t1}
  FailedIds = {f1}
  Probes = {}
  Operators = {alice, bob}
  Options = {opt_1, opt_2}
  WorkersMayCrash = FALSE
  SetupMayFail = FALSE
SPECIFICATION Spec
INVARIANT AtMostOneExecution
CHECK_DEADLOCK FALSE
