--------------------------- MODULE MCPostPublishing ---------------------------
(* Values of the constants of PostPublishing for TLC. *)
EXTENDS PostPublishing, TLC

\* Rows of one format, publishers and gates are interchangeable.
Alike ==
    Permutations(Publishers) \union Permutations(Gates)
      \union Permutations(Carousels) \union Permutations(Posts \ Carousels)
================================================================================
