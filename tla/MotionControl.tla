--------------------------- MODULE MotionControl ---------------------------
(***************************************************************************)
(* The motion controller and the homing seek: firmware/control/            *)
(* motion_controller.c and homing.c.  The operators act on a "world" w, a  *)
(* record with at least the controller's private record w.motion, the      *)
(* motor gate w.gate and the encoder's reported count w.count.  The PID is *)
(* abstracted to the set of duties it may return; velocity to whether it   *)
(* is "slow", |velocity| <= 25 counts/s, the one thing anybody compares it *)
(* with.  previous_count equals the position whenever the estimator has    *)
(* been seeded, so it needs no field of its own.  The half-range encoder   *)
(* jump of motion_sample (2^31 counts between two samples) is left out.    *)
(* elapsed_ms is only reported; started_ms, read by a running seek alone,  *)
(* is kept at 0 once the seek has ended.                                   *)
(***************************************************************************)
EXTENDS MotorGate, SafetyManager

CONSTANTS
  DwellCycles,   \* consecutive in-band samples that complete a move
  Tolerance,     \* position error that still counts as in band
  MinTarget,     \* travel limits of a target
  MaxTarget,
  SlowGap,       \* ticks that one count must take to be slow
  SampleGapMax,  \* longest gap between samples the estimator accepts
  HomingPwm,     \* the fixed duty of the seek
  HomingTimeout  \* ticks after which a seek is given up

ASSUME MotionAssumption ==
  /\ DwellCycles \in Nat \ {0} /\ Tolerance \in Nat
  /\ MinTarget \in Int /\ MaxTarget \in Int
  /\ SlowGap \in Nat /\ SampleGapMax \in Nat
  /\ HomingPwm \in Duty /\ HomingPwm < 0 /\ HomingTimeout \in Nat

ActiveStates == {"MOVING", "STOPPING", "HOMING"}

MotionStates == {"IDLE", "FAULT", "ESTOP"} \cup ActiveStates

HomingResults == {"NONE", "RUNNING", "COMPLETE", "STOPPED", "ESTOPPED", "FAULTED", "TIMEOUT"}

Results == {"ACCEPTED", "INVALID_STATE", "OUT_OF_RANGE", "NOT_IMPLEMENTED", "INPUT_ERROR"}

MotionRecord(counts) ==
  [state: MotionStates, position: counts, target: counts, slow: BOOLEAN,
   stable: Nat, completed: Nat, valid: BOOLEAN, sampled: BOOLEAN,
   result: HomingResults, started: 0 .. TimeMod - 1, homed: Nat, referenced: BOOLEAN]

MotionInit ==
  [state |-> "IDLE", position |-> 0, target |-> 0, slow |-> TRUE, stable |-> 0,
   completed |-> 0, valid |-> FALSE, sampled |-> FALSE, result |-> "NONE",
   started |-> 0, homed |-> 0, referenced |-> FALSE]

----------------------------------------------------------------------------
\* fail(): drop the feedback and leave the controller idle.
Fail(w) ==
  [w EXCEPT !.gate = Disable(@),
            !.motion = [@ EXCEPT !.state = "IDLE", !.valid = FALSE,
                                 !.stable = 0, !.sampled = FALSE]]

\* motion_sample, gap ticks after the previous one: dt must lie in (0, 1 s].
SampleOK(gap) == gap > 0 /\ gap <= SampleGapMax

Slow(m, count, gap) == ~m.sampled \/ Abs(count - m.position) * SlowGap <= gap

Sample(w, gap) ==
  IF SampleOK(gap)
  THEN [w EXCEPT !.motion = [@ EXCEPT !.slow = Slow(w.motion, w.count, gap),
                                      !.position = w.count,
                                      !.sampled = TRUE, !.valid = TRUE]]
  ELSE Fail(w)

----------------------------------------------------------------------------
\* motion_command: STOP, MOVE and MOVE_REL; anything else is not implemented.
\* Every command operator returns the changed world and the result.
Answer(w, result) == [world |-> w, result |-> result]

\* Mutant: the upper travel limit is not checked.
InTravelLow(target) == target >= MinTarget

InTravel(target) == target \in MinTarget .. MaxTarget

Target(m, command) ==
  IF command.type = "MOVE_REL" THEN m.position + command.value ELSE command.value

\* Mutant: STOP leaves the drive to the next update.
StoppedLater(w) ==
  [w EXCEPT !.motion = IF @.state = "MOVING"
                       THEN [@ EXCEPT !.state = "STOPPING", !.stable = 0] ELSE @]

Stopped(w) ==
  [w EXCEPT !.gate = Disable(@),
            !.motion = IF @.state = "MOVING"
                       THEN [@ EXCEPT !.state = "STOPPING", !.stable = 0] ELSE @]

MotionCommand(w, command) ==
  LET m      == w.motion
      target == Target(m, command)
  IN  CASE ~m.valid -> Answer(w, "INPUT_ERROR")
        [] m.valid /\ command.type = "STOP" -> Answer(Stopped(w), "ACCEPTED")
        [] m.valid /\ command.type \in {"MOVE", "MOVE_REL"} ->
             IF m.state # "IDLE" THEN Answer(w, "INVALID_STATE")
             ELSE IF ~InTravel(target) THEN Answer(w, "OUT_OF_RANGE")
             ELSE Answer([w EXCEPT !.motion = [@ EXCEPT !.target = target,
                                                        !.state = "MOVING", !.stable = 0]],
                         "ACCEPTED")
        [] OTHER -> Answer(w, "NOT_IMPLEMENTED")

----------------------------------------------------------------------------
\* motion_update with the PID's answer duty; ok is its
\* return value.
\* Mutants: at the target but not at rest; a stop held to its target.
InBandMoving(m) ==
  m.state = "STOPPING" \/ Abs(m.target - m.position) <= Tolerance

InBandAtTarget(m) ==
  m.slow /\ Abs(m.target - m.position) <= Tolerance

InBand(m) ==
  m.slow /\ (m.state = "STOPPING" \/ Abs(m.target - m.position) <= Tolerance)

Dwell(m) ==
  LET stable == IF InBand(m) THEN m.stable + 1 ELSE 0
      done   == stable >= DwellCycles
  IN  IF m.state \notin {"MOVING", "STOPPING"} THEN m
      ELSE [m EXCEPT !.stable = stable,
                     !.completed = IF done /\ m.state = "MOVING" THEN @ + 1 ELSE @,
                     !.state = IF done THEN "IDLE" ELSE @]

MotionUpdate(w, duty) ==
  LET dwelt  == [w EXCEPT !.motion = Dwell(@)]
      driven == [dwelt EXCEPT !.gate = SetOutput(@, duty)]
  IN  CASE ~w.motion.valid -> [world |-> Fail(w), ok |-> FALSE]
        [] w.motion.valid /\ dwelt.motion.state # "MOVING" ->
             [world |-> [dwelt EXCEPT !.gate = Disable(@)], ok |-> TRUE]
        [] w.motion.valid /\ dwelt.motion.state = "MOVING" ->
             IF Refuses(w.gate, duty) THEN [world |-> Fail(driven), ok |-> FALSE]
                                      ELSE [world |-> driven, ok |-> TRUE]

----------------------------------------------------------------------------
\* Homing.
ClearControl(w) ==
  [w EXCEPT !.gate = Disable(@),
            !.motion = [@ EXCEPT !.target = w.motion.position, !.stable = 0]]

HomingBegin(w, now) ==
  IF ~w.motion.valid THEN Answer(w, "INPUT_ERROR")
  ELSE IF w.motion.state # "IDLE" THEN Answer(w, "INVALID_STATE")
  ELSE LET cleared == ClearControl(w)
       IN  Answer([cleared EXCEPT !.motion = [@ EXCEPT !.result = "RUNNING", !.started = now,
                                                       !.referenced = FALSE,
                                                       !.state = "HOMING"]],
                  "ACCEPTED")

HomingAbort(w, result) ==
  LET cleared == ClearControl(w)
      m       == cleared.motion
  IN  [cleared EXCEPT !.motion =
       [m EXCEPT !.result = IF m.result = "RUNNING" THEN result ELSE m.result, !.started = 0]]

\* Mutant: the encoder's reference is not set.
ReferenceEstimatorOnly(w) ==
  LET cleared == ClearControl(w)
  IN  [cleared EXCEPT !.motion = [@ EXCEPT !.position = 0, !.target = 0, !.slow = TRUE,
                                           !.sampled = FALSE, !.result = "COMPLETE",
                                           !.started = 0,
                                           !.referenced = TRUE, !.homed = w.motion.homed + 1,
                                           !.state = "IDLE"]]

\* The switch was seen: the encoder and the estimator restart from zero.
Reference(w) ==
  LET cleared == ClearControl(w)
  IN  [cleared EXCEPT !.count = 0,
                      !.motion = [@ EXCEPT !.position = 0, !.target = 0, !.slow = TRUE,
                                           !.sampled = FALSE, !.result = "COMPLETE",
                                           !.started = 0,
                                           !.referenced = TRUE, !.homed = w.motion.homed + 1,
                                           !.state = "IDLE"]]

\* Mutant: a deadline computed by addition, which the wrap defeats.
SeekExpiredAbsolute(m, now) == now >= m.started + HomingTimeout

SeekExpired(m, now) == Elapsed(now, m.started) >= HomingTimeout

\* homing_update: one bounded step of the seek; now is the cycle's timestamp.
HomingUpdate(w, inputs, now) ==
  LET m       == w.motion
      ready   == m.valid /\ m.state = "HOMING"
      hazard  == inputs.estop \/ inputs.positive
  IN  IF ~ready THEN [world |-> w, ok |-> FALSE]
      ELSE IF hazard THEN [world |-> ClearControl(w), ok |-> FALSE]
      ELSE IF SeekExpired(m, now) THEN [world |-> HomingAbort(w, "TIMEOUT"), ok |-> TRUE]
      ELSE IF inputs.negative THEN [world |-> Reference(w), ok |-> TRUE]
      ELSE [world |-> [w EXCEPT !.gate = SetOutput(@, HomingPwm)],
            ok |-> ~Refuses(w.gate, HomingPwm)]
=============================================================================
