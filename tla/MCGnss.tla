------------------------------ MODULE MCGnss -------------------------------
(* Values for the constants of Gnss. *)
EXTENDS Gnss

MCTime == 0 .. 2
=============================================================================
