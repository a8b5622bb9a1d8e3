----------------------------- MODULE MCUartRx ------------------------------
(* Values for the constants of UartRx. *)
EXTENDS UartRx

(* Too short, ESP_BYTE0, ESP_BYTE1, and a value that is neither.  As a     *)
(* length ESP_BYTE0 is accepted, ESP_BYTE1 if the bound of the run admits  *)
(* it, and the last is too long.                                           *)
MCByte == {1, 2, 3, 4}
=============================================================================
