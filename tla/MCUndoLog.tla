----------------------------- MODULE MCUndoLog -----------------------------
(* Values for the constants of UndoLog. *)
EXTENDS UndoLog

MCByte == {0, 1}
=============================================================================
