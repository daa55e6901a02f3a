--------------------------- MODULE SafetyManager ---------------------------
(***************************************************************************)
(* The fault manager and the safety manager: firmware/safety/              *)
(* fault_manager.c and safety_manager.c.  They are pure functions of a     *)
(* safety record; the runtime calls them inside a critical section.        *)
(* Times are in ticks of 10 ms, modulo TimeMod (the firmware's             *)
(* milliseconds wrap at 2^32).  The purely reported fields (fault time and *)
(* source mask, candidate_ms, detection_ms, zero_ms, the pwm copies and    *)
(* the watchdog count) are left out: no decision reads them.  A start time *)
(* or position that nothing will read again is kept at 0.                  *)
(***************************************************************************)
EXTENDS Integers

CONSTANTS
  TimeMod,       \* ticks before the millisecond counter wraps
  StartupGrace,  \* ticks after start during which missing health is not latched
  StallTimeout,  \* ticks of qualifying observations that make a stall
  StallPwm,      \* smallest |duty| the stall detector watches, in tenths
  RecoveryCounts \* encoder displacement that proves recovery after a stall

ASSUME SafetyAssumption ==
  /\ TimeMod \in Nat \ {0} /\ StartupGrace \in Nat /\ StallTimeout \in Nat
  /\ StallPwm \in Nat /\ RecoveryCounts \in Nat

\* Unsigned subtraction of two times.
Elapsed(later, earlier) == (later - earlier) % TimeMod

Abs(x) == IF x < 0 THEN -x ELSE x

FaultCodes == {"NONE", "POSITIVE_LIMIT", "NEGATIVE_LIMIT", "NO_MOTION",
               "WATCHDOG", "INTERNAL", "HOMING_TIMEOUT"}

SafetyStates == {"IDLE", "FAULT", "ESTOP"}

Inputs == [estop: BOOLEAN, positive: BOOLEAN, negative: BOOLEAN]

NoInputs == [estop |-> FALSE, positive |-> FALSE, negative |-> FALSE]

SafetyRecord(counts) ==
  [state: SafetyStates, code: FaultCodes, condition: BOOLEAN, history: FaultCodes,
   inputs: Inputs, valid: BOOLEAN, healthy: BOOLEAN, homeContact: BOOLEAN,
   candidate: BOOLEAN, candidateStart: 0 .. TimeMod - 1,
   recovery: BOOLEAN, faultPosition: counts, internal: BOOLEAN, aborted: Nat]

\* safety_init zeroes the record: no input has been read and health is false.
SafetyInit ==
  [state |-> "IDLE", code |-> "NONE", condition |-> FALSE, history |-> "NONE",
   inputs |-> NoInputs, valid |-> FALSE, healthy |-> FALSE, homeContact |-> FALSE,
   candidate |-> FALSE, candidateStart |-> 0,
   recovery |-> FALSE, faultPosition |-> 0, internal |-> FALSE, aborted |-> 0]

----------------------------------------------------------------------------
\* Mutant: a later fault overwrites the first.
FaultRaiseLatest(s, code) == [s EXCEPT !.code = code, !.condition = TRUE]

\* The fault manager keeps the first fault until it is reset.
FaultRaise(s, code) ==
  IF s.code = "NONE" THEN [s EXCEPT !.code = code, !.condition = TRUE] ELSE s

FaultReset(s) ==
  [s EXCEPT !.history = IF s.code # "NONE" THEN s.code ELSE @,
            !.code = "NONE", !.condition = FALSE]

\* Mutant: a trip leaves the departure allowance in force.
TripKeepsAllowance(s, code) ==
  [FaultRaise(s, code) EXCEPT !.state = IF @ = "IDLE" THEN "FAULT" ELSE @]

Trip(s, code) ==
  [FaultRaise(s, code) EXCEPT !.homeContact = FALSE,
                              !.state = IF @ = "IDLE" THEN "FAULT" ELSE @]

\* Mutant: E-stop does not outrank a standing fault.
EstopUnlessFault(s) ==
  [s EXCEPT !.homeContact = FALSE, !.state = IF @ = "FAULT" THEN @ ELSE "ESTOP"]

Estop(s) == [s EXCEPT !.homeContact = FALSE, !.state = "ESTOP"]

InternalFault(s) == Trip([s EXCEPT !.internal = TRUE], "INTERNAL")

HomingTimeoutFault(s) == Trip(s, "HOMING_TIMEOUT")

When(condition, changed, same) == IF condition THEN changed ELSE same

\* safety_evaluate up to the NEGATIVE_LIMIT exception: store the observation,
\* then take GPIO failure, E-stop, positive limit and switch release in turn.
Record(s, inputs, valid, healthy) ==
  [s EXCEPT !.inputs = inputs, !.valid = valid, !.healthy = healthy]

SeeGpio(s)     == When(~s.valid, InternalFault(s), s)
SeeEstop(s)    == When(s.inputs.estop, Estop(s), s)
SeePositive(s) == When(s.inputs.positive, Trip(s, "POSITIVE_LIMIT"), s)
SeeRelease(s)  == When(s.valid /\ ~s.inputs.negative, [s EXCEPT !.homeContact = FALSE], s)

Observe(s, inputs, valid, healthy) ==
  SeeRelease(SeePositive(SeeEstop(SeeGpio(Record(s, inputs, valid, healthy)))))

ExpectedHome(s, m) == m.state = "HOMING" /\ s.state = "IDLE"

Departing(m, position, pwm) == m.state = "MOVING" /\ m.target > position /\ pwm >= 0

Parked(m, pwm) == m.state \in {"IDLE", "STOPPING"} /\ pwm = 0

\* An active negative switch is tolerated in two cases only.
ContactAllowed(s, m, position, pwm) ==
  \/ ExpectedHome(s, m)
  \/ s.homeContact /\ (Parked(m, pwm) \/ Departing(m, position, pwm))

\* The stall detector: m is the motion state last published, position a fresh
\* encoder reading (always valid once the driver is initialised).
Stall(s, now, m, position, pwm, expectedHome) ==
  LET qualifying == /\ s.state = "IDLE"
                    /\ m.state \in {"MOVING", "HOMING"}
                    /\ ~(expectedHome /\ s.inputs.negative)
                    /\ Abs(pwm) >= StallPwm
                    /\ m.slow
      begun      == When(~s.candidate,
                         [s EXCEPT !.candidate = TRUE, !.candidateStart = now], s)
      stalled    == Elapsed(now, begun.candidateStart) >= StallTimeout
  IN  CASE qualifying /\ stalled ->
             Trip([begun EXCEPT !.recovery = TRUE, !.faultPosition = position], "NO_MOTION")
        [] qualifying /\ ~stalled -> begun
        [] OTHER -> [s EXCEPT !.candidate = FALSE, !.candidateStart = 0]

\* What still stands in the way of a recovery.
ConditionActive(s) ==
  /\ s.code # "NONE"
  /\ \/ ~s.valid \/ s.inputs.positive \/ s.inputs.negative
     \/ ~s.healthy \/ s.recovery \/ s.internal

\* The steps of safety_evaluate after the observation; s is the record so far.
SeeNegative(s, m, position, pwm) ==
  When(s.inputs.negative /\ ~ContactAllowed(s, m, position, pwm),
       Trip(s, "NEGATIVE_LIMIT"), s)

SeeHealth(s, now) == When(~s.healthy /\ now >= StartupGrace, Trip(s, "WATCHDOG"), s)

SeeRecovery(s, position) ==
  When(s.recovery /\ Abs(position - s.faultPosition) >= RecoveryCounts,
       [s EXCEPT !.recovery = FALSE, !.faultPosition = 0], s)

Settle(s) == [s EXCEPT !.condition = ConditionActive(s)]

\* safety_evaluate: inputs and valid are the GPIO reading, m the published
\* motion snapshot, position the encoder, pwm the applied output.
Evaluate(s, now, inputs, valid, m, position, pwm, healthy) ==
  LET seen  == Observe(s, inputs, valid, healthy)
      moved == SeeRecovery(SeeHealth(SeeNegative(seen, m, position, pwm), now), position)
  IN  Settle(Stall(moved, now, m, position, pwm, ExpectedHome(seen, m)))

\* safety_reset refuses while any hazard is present, whatever the first fault was.
CanReset(s) ==
  /\ s.valid /\ ~s.inputs.estop /\ ~s.inputs.positive /\ ~s.inputs.negative
  /\ s.healthy /\ ~s.recovery /\ ~s.internal
  /\ ~s.condition

Reset(s) == [FaultReset(s) EXCEPT !.state = "IDLE", !.candidate = FALSE,
                            !.candidateStart = 0]
=============================================================================
