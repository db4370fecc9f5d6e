\* Two deliveries of any kind, to two workers that may die.
CONSTANTS
  disk_full = disk_full
  Deliveries = {d1, d2}
  Workers = {w1, w2}
  Capacity = 1
  Keys = {disk_full}
  Payloads <- MixedDeliveries
SPECIFICATION FairSpec
INVARIANTS AlertsReachTheirIncident RecoverySetExact PendingIncidentsBounded
PROPERTIES DeliveriesEnd
CHECK_DEADLOCK FALSE
