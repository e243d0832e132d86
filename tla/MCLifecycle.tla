----------------------------- MODULE MCLifecycle -----------------------------
(***************************************************************************)
(* Instances of LifecycleProperties.                                       *)
(***************************************************************************)
EXTENDS LifecycleProperties, TLC

\* Objects differ in nothing; for runs without liveness.
ObjectSymmetry == Permutations(Object)
=============================================================================
