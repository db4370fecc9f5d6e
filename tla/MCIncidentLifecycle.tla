------------------------ MODULE MCIncidentLifecycle ------------------------
(***************************************************************************)
(* Instances of IncidentLifecycle for TLC.  The two option ids are         *)
(* interchangeable, and so are the operators' request slots; a webhook     *)
(* task and an operator are not.                                           *)
(***************************************************************************)
EXTENDS IncidentLifecycle, TLC

Interchangeable == Permutations(Operators) \union Permutations(Options)

=============================================================================
