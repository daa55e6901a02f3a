--------------------------- MODULE MCUartFraming ---------------------------
(***************************************************************************)
(* Instances of UartFraming for TLC.                                       *)
(***************************************************************************)
EXTENDS UartFraming

OneByte == {"a"}
=============================================================================
