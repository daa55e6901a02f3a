------------------------------ MODULE LiveLoop ------------------------------
(***************************************************************************)
(* ControlLoop with the scheduling it may count on.  Safety and Motion are *)
(* periodic tasks of a preemptive priority scheduler: Safety, the highest  *)
(* priority, is released every 20 ms whatever the others do, and Motion    *)
(* (firmware/tasks/motion_task.c) finishes every section it starts, since  *)
(* no section waits.  A release of Safety may find nothing to change, so   *)
(* its heartbeat count, modulo 2, makes the release itself visible.        *)
(***************************************************************************)
EXTENDS ControlLoop

VARIABLE beat  \* health[HEALTH_SAFETY].count modulo 2

liveVars == <<vars, beat>>

LiveInit == Init /\ beat = 0

SafetyRelease == SafetyTask /\ beat' = 1 - beat

Others ==
  /\ Tick \/ PinChange \/ EncoderCount \/ Heartbeats \/ MotionTask
  /\ UNCHANGED beat

LiveNext == SafetyRelease \/ Others

\* Fairness.  Both actions are always possible, so "infinitely often" asks no
\* more than weak fairness would: Motion's pc moves again once a tick passes.
LiveSpec ==
  /\ LiveInit /\ [][LiveNext]_liveVars
  /\ []<><<beat' # beat>>_beat
  /\ []<><<pc' # pc>>_pc

----------------------------------------------------------------------------
\* A seek never runs for ever, switch or no switch: homing_update's deadline
\* is compared on every cycle, across the wrap of the millisecond counter.
SeekEnds == motion.state = "HOMING" ~> motion.state # "HOMING"

\* An E-stop input that stays active is latched and Motion gives its
\* operation up, whichever section it is in when the input rises.
EstopReachesMotion ==
  pins.estop ~> ~pins.estop \/ (safety.state = "ESTOP" /\ motion.state = "ESTOP")

\* A stopping controller comes to IDLE, or is taken over by a latch, unless
\* the encoder keeps moving.
StopSettles ==
  []<><<count' # count>>_count \/ (motion.state = "STOPPING" ~> motion.state # "STOPPING")
=============================================================================
