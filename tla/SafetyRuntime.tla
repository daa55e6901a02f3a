--------------------------- MODULE SafetyRuntime ---------------------------
(***************************************************************************)
(* The adapter that joins the safety manager, the motion controller and    *)
(* the motor gate: firmware/rtos/safety_runtime.c.  Every function runs    *)
(* inside a critical section of its caller, so each is a function of the   *)
(* world                                                                   *)
(*   w = [gate, safety, motion, pub, report, count]                        *)
(* where pub is what Safety reads of runtime_data.motion, report is        *)
(* runtime_data.state and count the encoder.  env = [now, inputs, healthy] *)
(* is what the section reads from outside: the clock (ticks are masked, so *)
(* it stands still), the GPIO inputs and whether every heartbeat is fresh. *)
(***************************************************************************)
EXTENDS MotionControl

Published(counts) == [state: MotionStates, target: counts, slow: BOOLEAN]

Reports == MotionStates \cup {"BOOT", "INITIALIZING"}

Worlds(counts) ==
  [gate: Gate, safety: SafetyRecord(counts), motion: MotionRecord(counts),
   pub: Published(counts), report: Reports, count: counts]

Snapshot(m) == [state |-> m.state, target |-> m.target, slow |-> m.slow]

Publish(w) == [w EXCEPT !.pub = Snapshot(w.motion)]

----------------------------------------------------------------------------
\* runtime_safety_enforce: drive the gate from the safety record and the
\* motion state last published.
HomeStop(w) ==
  /\ w.safety.valid /\ w.safety.inputs.negative
  /\ \/ w.pub.state = "HOMING"
     \/ w.safety.homeContact /\ w.pub.state # "MOVING"

\* Mutant: E-stop forgotten.
UnsafeFaultOnly(w) == w.safety.state = "FAULT" \/ ~w.safety.healthy \/ HomeStop(w)

Unsafe(w) == w.safety.state # "IDLE" \/ ~w.safety.healthy \/ HomeStop(w)

\* Mutant: the directional guard is never raised.
GuardedNever(w) == BlockNegative(w.gate, FALSE)

Guarded(w) ==
  BlockNegative(w.gate,
                w.safety.homeContact /\ w.safety.valid /\ w.safety.inputs.negative)

Enforce(w) ==
  LET guarded == Guarded(w)
  IN  [w EXCEPT !.gate = IF Unsafe(w) # guarded.inhibited
                         THEN Inhibit(guarded, Unsafe(w)) ELSE guarded,
                !.report = IF w.safety.state # "IDLE" THEN w.safety.state ELSE @]

\* runtime_safety_evaluate.  gpio_read_inputs cannot fail once initialised.
EvaluateNow(w, env) ==
  Enforce([w EXCEPT !.safety = Evaluate(@, env.now, env.inputs, TRUE, w.pub, w.count,
                                        w.gate.output, env.healthy)])

----------------------------------------------------------------------------
\* runtime_safety_sync: Motion adopts an unsafe state and discards its target.
Abandon(w) == [w EXCEPT !.safety.aborted = @ + 1]

EndSeek(w) ==
  HomingAbort(w, IF w.safety.state = "ESTOP" THEN "ESTOPPED" ELSE "FAULTED")

Sync(w) ==
  LET counted == IF w.motion.state \in ActiveStates THEN Abandon(w) ELSE w
      ended   == IF w.motion.state = "HOMING" THEN EndSeek(counted) ELSE counted
  IN  IF w.safety.state = "IDLE" THEN w
      ELSE [ended EXCEPT !.motion = [@ EXCEPT !.state = w.safety.state,
                                              !.target = w.motion.position, !.stable = 0]]

EvaluateSync(w, env) == Sync(EvaluateNow(w, env))

----------------------------------------------------------------------------
\* runtime_safety_command, one branch per command.
CommandEstop(w) ==
  Answer(Sync(Enforce([w EXCEPT !.safety = Estop(@)])), "ACCEPTED")

\* RESET, from the world w of the command to the world seen by its evaluation.
Freed(seen) ==
  [seen EXCEPT !.safety = Reset(@),
               !.gate = Inhibit(Disable(@), FALSE),
               !.motion = [@ EXCEPT !.state = "IDLE", !.target = seen.motion.position,
                                    !.stable = 0]]

ResetAfter(w, seen) ==
  IF w.safety.state = "IDLE" /\ w.motion.state # "IDLE" THEN Answer(w, "INVALID_STATE")
  ELSE IF CanReset(seen.safety) THEN Answer(Freed(seen), "ACCEPTED")
  ELSE Answer(seen, "INVALID_STATE")

\* Mutant: RESET trusts the last periodic observation.
CommandResetStale(w, env) == ResetAfter(w, w)

CommandReset(w, env) == ResetAfter(w, EvaluateNow(w, env))

CommandStopHoming(w) ==
  LET ended == Abandon(HomingAbort(w, "STOPPED"))
  IN  Answer(Publish([ended EXCEPT !.motion.state = "STOPPING"]), "ACCEPTED")

CommandHome(w, env) ==
  LET begun == HomingBegin(w, env.now)
      pub   == Publish(begun.world)
  IN  IF begun.result = "ACCEPTED" THEN Answer(EvaluateSync(pub, env), "ACCEPTED")
                                   ELSE Answer(pub, begun.result)

\* A departure from the home switch: only a positive move is considered.
CommandDepart(w, command, env) ==
  LET moved == MotionCommand(w, command)
  IN  IF Target(w.motion, command) <= w.motion.position THEN Answer(w, "INVALID_STATE")
      ELSE Answer(EvaluateSync(Publish(moved.world), env), moved.result)

ParkedHome(w) ==
  w.safety.state = "IDLE" /\ w.safety.healthy /\ w.safety.homeContact /\ w.motion.state = "IDLE"

SafetyCommand(w, command, env) ==
  CASE command.type = "ESTOP" -> CommandEstop(w)
    [] command.type = "RESET" -> CommandReset(w, env)
    [] command.type \notin {"ESTOP", "RESET"} ->
       IF w.safety.state = "IDLE" /\ w.motion.state = "HOMING" /\ command.type = "STOP"
       THEN CommandStopHoming(w)
       ELSE IF (w.safety.state # "IDLE" \/ w.gate.inhibited) /\ ~ParkedHome(w)
       THEN Answer(w, IF command.type = "STOP" THEN "ACCEPTED" ELSE "INVALID_STATE")
       ELSE IF command.type = "HOME" THEN CommandHome(w, env)
       ELSE IF w.motion.state = "HOMING" THEN Answer(w, "INVALID_STATE")
       ELSE IF w.safety.homeContact /\ command.type \in {"MOVE", "MOVE_REL"}
       THEN CommandDepart(w, command, env)
       ELSE MotionCommand(w, command)

----------------------------------------------------------------------------
\* runtime_control_update.  inputs is the first GPIO reading of the section,
\* env.inputs what the evaluations of the same section read after it; now is
\* the timestamp Motion took when its cycle began.
RegularUpdate(w, duty, env) ==
  MotionUpdate(IF w.safety.homeContact THEN EvaluateSync(Publish(w), env) ELSE w, duty)

FinishSeek(w, env) ==
  CASE w.motion.result = "TIMEOUT" ->
         Sync(Enforce([w EXCEPT !.safety = HomingTimeoutFault(@)]))
    [] w.motion.result = "COMPLETE" ->
         EvaluateNow(Publish([w EXCEPT !.safety.homeContact = TRUE]), env)
    [] OTHER -> w

SeekUpdate(w, now, inputs, env) ==
  LET alarm  == inputs.estop \/ inputs.positive \/ inputs.negative
      seen   == IF alarm THEN EvaluateSync(Publish(w), env) ELSE w
      sought == HomingUpdate(seen, inputs, now)
  IN  IF alarm /\ seen.safety.state # "IDLE" THEN [world |-> seen, ok |-> TRUE]
      ELSE IF ~sought.ok THEN sought
      ELSE [world |-> FinishSeek(sought.world, env), ok |-> TRUE]

ControlUpdate(w, duty, now, inputs, env) ==
  IF w.motion.state = "HOMING" THEN SeekUpdate(w, now, inputs, env)
                               ELSE RegularUpdate(w, duty, env)
=============================================================================
