----------------------------- MODULE MCProtocol -----------------------------
(***************************************************************************)
(* Instances of UartFraming, and of LineProtocol beside it, for TLC: a     *)
(* behaviour is either about bytes or about a line.                        *)
(***************************************************************************)
EXTENDS UartFraming, LineProtocol

VARIABLE part

OneByte == {"a"}

\* One digit below, at and above the limit of each sign, for IntMax = 15.
LineAlphabet == {" ", "V", "N", "x", "-", "+", "1", "5", "6"}

MCInit == Init /\ line = <<>> /\ part \in {"bytes", "lines"}

MCNext ==
  \/ part = "bytes" /\ Next /\ UNCHANGED <<line, part>>
  \/ part = "lines" /\ (\E char \in Alphabet : Type(char)) /\ UNCHANGED <<vars, part>>

MCSpec == MCInit /\ [][MCNext]_<<vars, line, part>>
=============================================================================
