-------------------------- MODULE AtomicRegisters --------------------------
(***************************************************************************)
(* What the double-buffered variables of query.c promise ("Safe from power *)
(* interruptions", query.h): a call of a setter changes the value that the *)
(* getter shows in one step or, if power fails, not at all.                *)
(***************************************************************************)

CONSTANTS
  Reg,    (* the registers                                                 *)
  Vals    (* function from a register to the set of its values             *)

VARIABLES
  value,    (* of each register, what its getter shows                     *)
  calling,  (* a setter is running                                         *)
  request   (* its register and argument, while it is running              *)

vars == <<value, calling, request>>

IsRequest(q) == q[1] \in Reg /\ q[2] \in Vals[q[1]]

Init ==
  /\ DOMAIN value = Reg
  /\ \A r \in Reg : value[r] \in Vals[r]
  /\ calling = FALSE
  /\ IsRequest(request)

(* The setter of r is called with argument v. *)
Call(r, v) ==
  /\ ~calling
  /\ calling' = TRUE
  /\ request' = <<r, v>>
  /\ UNCHANGED value

(* The setter takes effect and returns. *)
Write ==
  /\ calling
  /\ value' = [value EXCEPT ![request[1]] = request[2]]
  /\ calling' = FALSE
  /\ IsRequest(request')

(* Power fails before the setter takes effect. *)
Fail ==
  /\ calling' = FALSE
  /\ IsRequest(request')
  /\ UNCHANGED value

Next == (\E r \in Reg : \E v \in Vals[r] : Call(r, v)) \/ Write \/ Fail

Spec == Init /\ [][Next]_vars
=============================================================================
