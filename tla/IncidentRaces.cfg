\* Three decision requests in flight, workers may die, resumes may fail to start.
CONSTANTS
  Threads = {t1}
  FailedIds = {f1}
  Probes = {}
  Operators = {alice, bob, carol}
  Options = {opt_1, opt_2}
  WorkersMayCrash = TRUE
  SetupMayFail = TRUE
SPECIFICATION Spec
SYMMETRY Interchangeable
INVARIANTS NoAutonomousRemediation PendingIsResumable
PROPERTIES NeverReopened RefinesGate
CHECK_DEADLOCK FALSE
