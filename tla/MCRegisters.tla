---------------------------- MODULE MCRegisters ----------------------------
(* Values for the constants of Registers. *)
EXTENDS Registers

(* Of the inertial readings only whole and torn are told apart. *)
MCArgs == [r \in Reading |-> IF r \in Field THEN {0} ELSE {0, 1}]
MCApplications ==
  {{"xl", "g", "m"}, {"xl", "pwr"}, {"gps", "time"}, {"date"}}
============================================================================
