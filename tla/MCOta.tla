------------------------------- MODULE MCOta -------------------------------
(* A board with its first image, and one to update to. *)
EXTENDS OtaInv

CONSTANTS first, second, noimage
MCImages == {first, second}
=============================================================================
