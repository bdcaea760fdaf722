----------------------------- MODULE MCSending ------------------------------
(* HubEESending with model values, for TLC. *)
EXTENDS HubEESending, TLC

(* HubEE gives each request one folder at most and no module compares two  *)
(* members of these sets but for equality.                                 *)
Symmetry == Permutations(Requests) \cup Permutations(References) \cup Permutations(Folders)
=============================================================================
