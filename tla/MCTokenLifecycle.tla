-------------------------- MODULE MCTokenLifecycle --------------------------
(* Small instances of TokenLifecycle for TLC.                              *)
EXTENDS TokenLifecycle, TLC

\* Slots are interchangeable: nothing in the specification names one.
SlotSymmetry == Permutations(Request)
=============================================================================
