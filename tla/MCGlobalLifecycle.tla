------------------------- MODULE MCGlobalLifecycle -------------------------
(* Contexts are interchangeable; only safety is checked.                   *)
EXTENDS GlobalLifecycle

ContextSymmetry == Permutations(Context)
=============================================================================
