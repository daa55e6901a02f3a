--------------------------- MODULE MCControlLoop ---------------------------
(***************************************************************************)
(* Instances of ControlLoop for TLC.                                       *)
(***************************************************************************)
EXTENDS ControlLoop

Cmd(type, value) == [type |-> type, value |-> value]

MoveCommands   == {Cmd("MOVE", 1), Cmd("HOME", 0), Cmd("STOP", 0), Cmd("ESTOP", 0), Cmd("RESET", 0)}
SeekCommands   == {Cmd("HOME", 0), Cmd("MOVE_REL", 1), Cmd("RESET", 0)}
GuardCommands  == {Cmd("MOVE", 1), Cmd("RESET", 0)}

CountCommands  == {Cmd("HOME", 0), Cmd("STOP", 0), Cmd("ESTOP", 0)}
HomeOnly       == {Cmd("HOME", 0)}

MoveDuty   == {-3, 0, 8}
SeekDuty   == {-3, 0}
HomingDuty == -3
=============================================================================
