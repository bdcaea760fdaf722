------------------------------ MODULE MCFollow ------------------------------
(* SendAndFollow with model values, for TLC. *)
EXTENDS SendAndFollow
=============================================================================
