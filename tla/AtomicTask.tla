----------------------------- MODULE AtomicTask -----------------------------
(***************************************************************************)
(* What the undo log of backup.c promises to the application: the          *)
(* non-volatile memory of a task behaves as if the whole task took effect  *)
(* at its commit and a power failure before that erased it.                *)
(***************************************************************************)

CONSTANTS
  Addr,   (* addresses of the non-volatile cells tasks share     *)
  Byte    (* values of one cell                                  *)

VARIABLES
  committed,  (* the memory that the last finished task left      *)
  working,    (* the memory as the running task sees it           *)
  up          (* TRUE while a task runs, FALSE while recovering   *)

vars == <<committed, working, up>>

Memory == [Addr -> Byte]

TypeOK ==
  /\ committed \in Memory
  /\ working \in Memory
  /\ up \in BOOLEAN

Init ==
  /\ committed \in Memory
  /\ working = committed
  /\ up = FALSE

(* The running task changes memory in any way. *)
Work ==
  /\ up
  /\ working' \in Memory
  /\ UNCHANGED <<committed, up>>

(* The task finishes: everything it wrote becomes durable in one step. *)
Commit ==
  /\ up
  /\ committed' = working
  /\ UNCHANGED <<working, up>>

(* Power is lost; what the task wrote may be anywhere in between. *)
Fail ==
  /\ up' = FALSE
  /\ UNCHANGED <<committed, working>>

(* Recovery moves memory back, one piece at a time. *)
Repair ==
  /\ ~up
  /\ working' \in Memory
  /\ UNCHANGED <<committed, up>>

(* A task may only start again on exactly the committed memory. *)
Restart ==
  /\ ~up
  /\ working = committed
  /\ up' = TRUE
  /\ UNCHANGED <<committed, working>>

Next == Work \/ Commit \/ Fail \/ Repair \/ Restart

Spec == Init /\ [][Next]_vars
=============================================================================
