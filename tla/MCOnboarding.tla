---------------------------- MODULE MCOnboarding ----------------------------
(* CollectivityOnboarding with model values, for TLC. *)
EXTENDS CollectivityOnboarding, TLC

Symmetry ==
  Permutations(Jobs) \cup Permutations(Calls) \cup Permutations(Communes) \cup Permutations(Editors)
=============================================================================
