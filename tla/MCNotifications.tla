--------------------------- MODULE MCNotifications --------------------------
(* HubEENotifications with model values, for TLC. *)
EXTENDS HubEENotifications, TLC

Symmetry == Permutations(Jobs) \cup Permutations(Cases)
=============================================================================
