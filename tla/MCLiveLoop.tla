----------------------------- MODULE MCLiveLoop -----------------------------
(***************************************************************************)
(* The instance of LiveLoop for TLC.                                       *)
(***************************************************************************)
EXTENDS LiveLoop

Cmd(type, value) == [type |-> type, value |-> value]

StopCommands == {Cmd("HOME", 0), Cmd("STOP", 0)}
SeekDuty == {-3, 0}
HomingDuty == -3
=============================================================================
