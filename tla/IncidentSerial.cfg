\* One decision request at a time, workers that stay up.
CONSTANTS
  Threads = {t1}
  FailedIds = {f1}
  Probes = {p1}
  Operators = {alice}
  Options = {opt_1, opt_2}
  WorkersMayCrash = FALSE
  SetupMayFail = FALSE
SPECIFICATION FairSpec
INVARIANTS AtMostOneExecution DecisionStands RecordMatchesEffect
PROPERTY ExecutingSettles
CHECK_DEADLOCK FALSE
