----------------------------- MODULE SafetyLatch -----------------------------
(***************************************************************************)
(* What the safety layer promises, without tasks, sensors or time: the     *)
(* motor may be driven only while nothing is latched; the first fault is   *)
(* retained, E-stop outranks a fault, and a reset leads to a standstill.   *)
(* Stated from safety_manager.h, fault_manager.c and docs/safety.md.       *)
(***************************************************************************)
EXTENDS Integers

CONSTANTS Duty,   \* duties that may be applied
          Codes   \* fault codes

VARIABLES latch,  \* "IDLE", "FAULT" or "ESTOP"
          fault,  \* the retained fault code, or "NONE"
          drive   \* the applied duty

Init == latch = "IDLE" /\ fault = "NONE" /\ drive = 0

Drive ==
  /\ latch = "IDLE"
  /\ drive' \in Duty
  /\ UNCHANGED <<latch, fault>>

\* One or several hazards are seen at once.
Trip ==
  /\ latch' \in IF latch = "ESTOP" THEN {"ESTOP"} ELSE {"FAULT", "ESTOP"}
  /\ fault' \in IF fault = "NONE" THEN Codes \cup {"NONE"} ELSE {fault}
  /\ latch' = "FAULT" => fault' # "NONE"
  /\ drive' = 0

Reset ==
  /\ latch # "IDLE"
  /\ latch' = "IDLE" /\ fault' = "NONE" /\ drive' = 0

Next == Drive \/ Trip \/ Reset

Spec == Init /\ [][Next]_<<latch, fault, drive>>
=============================================================================
