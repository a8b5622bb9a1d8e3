------------------------------- MODULE MCRing -------------------------------
(* Values for the constants of Ring. *)
EXTENDS Ring, TLC

CONSTANTS r1, r2

MCRecord == {r1, r2}

(* No definition tells two records apart. *)
MCSymmetry == Permutations(MCRecord)
=============================================================================
