-------------------------- MODULE MCAlertIngestion --------------------------
(***************************************************************************)
(* Instances of AlertIngestion for TLC: one alert that repeats, alone or   *)
(* after the news that it was resolved, and an alert that did not parse.   *)
(***************************************************************************)
EXTENDS AlertIngestion

CONSTANT disk_full

Firing(k)   == [key |-> k, status |-> "firing"]
Resolved(k) == [key |-> k, status |-> "resolved"]

MixedDeliveries ==
  {<<Firing(disk_full)>>, <<Resolved(disk_full)>>, <<Firing(Unknown)>>,
    <<Resolved(disk_full), Firing(disk_full)>>}

=============================================================================
