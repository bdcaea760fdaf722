------------------------------ MODULE MCSiret -------------------------------
(* Siret with numbers of four digits, for TLC. *)
EXTENDS Siret

ShortSiren == <<3, 5>>
=============================================================================
