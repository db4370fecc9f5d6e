------------------------------ MODULE MCTokenBudget ------------------------------
(* Values of the constants of TokenBudget for TLC. *)
EXTENDS TokenBudget, TLC

CONSTANTS r1, r2, r3, r4, o1, o2

MCRuns == {r1, r2, r3, r4}
MCRecordsTwice == {r4}
MCOperators == {o1, o2}

\* A call that is rounded down to nothing, and one rounded up to two cents.
MCCosts == {4000, 16000}

Symmetry == Permutations({r1, r2, r3}) \cup Permutations(MCOperators)
==================================================================================
