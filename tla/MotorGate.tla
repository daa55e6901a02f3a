----------------------------- MODULE MotorGate -----------------------------
(***************************************************************************)
(* The motor driver's output gate: firmware/platform/host/motor_host.c and *)
(* the same logic on the target, firmware/platform/stm32/motor.c.  Every   *)
(* operation is one short critical section of the driver, so each is a     *)
(* function from a gate to a gate.  Duty is in tenths of full scale; the   *)
(* PID is limited to +-8 tenths, so the clamp at +-10 never acts and a     *)
(* non-finite duty never arrives (pid_update refuses it first).            *)
(***************************************************************************)
EXTENDS Integers

CONSTANT Duty  \* the duty cycles Motion can request, in tenths

ASSUME DutyAssumption == Duty \subseteq Int /\ 0 \in Duty

Gate == [output: Duty, requested: Duty, inhibited: BOOLEAN, blocked: BOOLEAN]

\* runtime_init asserts the inhibit before any task exists.
GateInit == [output |-> 0, requested |-> 0, inhibited |-> TRUE, blocked |-> FALSE]

\* The driver refuses a duty when the gate is inhibited, and a negative one
\* while the home switch is guarded.
Refuses(g, duty) == g.inhibited \/ (g.blocked /\ duty < 0)

SetOutput(g, duty) ==
  [g EXCEPT !.requested = duty, !.output = IF Refuses(g, duty) THEN 0 ELSE duty]

Disable(g) == [g EXCEPT !.requested = 0, !.output = 0]

\* Mutant: releasing the inhibit puts the remembered request back.
InhibitReplays(g, on) ==
  [g EXCEPT !.inhibited = on, !.output = IF on THEN 0 ELSE g.requested]

\* Both asserting and releasing the inhibit zero the applied output; neither
\* touches the remembered request.
Inhibit(g, on) == [g EXCEPT !.inhibited = on, !.output = 0]

BlockNegative(g, on) ==
  [g EXCEPT !.blocked = on, !.output = IF on /\ @ < 0 THEN 0 ELSE @]
=============================================================================
