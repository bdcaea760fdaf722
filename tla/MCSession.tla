------------------------------ MODULE MCSession -----------------------------
(* QfSession with model values, for TLC. *)
EXTENDS QfSession, TLC

CONSTANTS v1, v2

(* Always with both parameters; with both, none, or another return link. *)
FromPortal == {[external_id |-> v1, redirect_uri |-> v1]}

Anyhow == FromPortal \cup {[external_id |-> None, redirect_uri |-> x] : x \in {None, v2}}

Symmetry == Permutations(Persons) \cup Permutations(Requests) \cup Permutations(Sids)
=============================================================================
