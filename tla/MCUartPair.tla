----------------------------- MODULE MCUartPair ----------------------------
(* Values for the constants of UartPair. *)
EXTENDS UartPair

(* The two ESP bytes; as a length the second is too long. *)
MCByte == {2, 3}
=============================================================================
