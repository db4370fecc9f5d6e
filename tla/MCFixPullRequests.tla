--------------------------- MODULE MCFixPullRequests ---------------------------
(***************************************************************************)
(* Values of the constants of FixPullRequests for TLC: two drifts of       *)
(* resources whose ids leave the same slug, in different files or in one,  *)
(* and a dependency patch.                                                 *)
(***************************************************************************)
EXTENDS FixPullRequests

CONSTANTS drift1, drift2, patch, slug, network, storage

MCFixes == {drift1, drift2, patch}
MCAgent == [f \in MCFixes |-> IF f = patch THEN "patch" ELSE "drift"]
MCSlug == [f \in MCFixes |-> slug]
MCFile == [f \in MCFixes |-> IF f = drift2 THEN storage ELSE network]

\* The drifts have a change to propose, and it is proposed as a pull request;
\* the patch as pull request and issue.
Bounds ==
    /\ run[patch].option \in {"none", "both"}
    /\ \A f \in {drift1, drift2} :
          run[f].option \in {"none", "pr"} /\ run[f].proposal \in {"none", "change"}
================================================================================
