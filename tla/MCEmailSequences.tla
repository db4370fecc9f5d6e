---------------------------- MODULE MCEmailSequences ----------------------------
(* Values of the constants of EmailSequences for TLC. *)
EXTENDS EmailSequences

CONSTANTS s1, w1, w2, h1

MCSubscribers == {s1}
MCWorkers == {w1, w2}
MCHandlers == {h1}
MCSequences == {"newsletter", "trust_drip", "stall_nudges"}

\* One template each, and two of the newsletter.
MCSteps == [q \in MCSequences |-> IF q = "newsletter" THEN 2 ELSE 1]
=================================================================================
