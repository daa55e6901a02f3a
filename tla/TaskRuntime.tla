---------------------------- MODULE TaskRuntime ----------------------------
(***************************************************************************)
(* The runtime around the tasks: firmware/rtos/runtime.c and periodic.c,   *)
(* the loops of the four tasks, task_health.c, the watchdog, and the       *)
(* harness that steps and stops them (simulator/closed_loop_main.c and     *)
(* simulator/main.c).  What Motion and Safety compute is ControlLoop, what *)
(* Communications handles CommandPath.                                     *)
(*                                                                         *)
(* Either the tasks are periodic and platform time is the tick, or the     *)
(* harness steps Motion and Safety and advances platform time itself.      *)
(* Priorities are strict; Telemetry and the harness share the lowest one.  *)
(* Time is in ticks of 10 ms, configTICK_RATE_HZ, and a time stamp is kept *)
(* as its age, the only thing the code reads of it here.  The watchdog is  *)
(* the target's: it resets the system.  The host's stub only counts.       *)
(***************************************************************************)
EXTENDS Integers

CONSTANTS
  MotionPeriod, SafetyPeriod, TelemetryPeriod,
  CommsPeriod,      \* COMMS_HEALTH_PERIOD_MS, the longest wait of Communications
  MaxAge,           \* HEALTH_MAXIMUM_AGE_MS
  WatchdogTimeout,  \* ticks without a refresh before the reset
  StepTimeout,      \* ticks the harness waits for a step
  Polls,            \* times the harness looks whether all tasks have parked
  SlowTicks         \* bound: ticks in a behaviour that pass while a task works

Critical == {"Motion", "Safety", "Comms"}
Stepped  == {"Motion", "Safety"}
Firmware == Critical \cup {"Telemetry"}
Tasks    == Firmware \cup {"Harness"}

ASSUME RuntimeAssumption ==
  /\ {MotionPeriod, SafetyPeriod, TelemetryPeriod, CommsPeriod, Polls} \subseteq Nat \ {0}
  /\ {MaxAge, WatchdogTimeout, StepTimeout, SlowTicks} \subseteq Nat

\* A tick is one Motion period.  The longest time between two beats leaves room
\* for the overruns that are modelled, and so does the longest wait of a task for
\* the looks of the harness: 60 ms of 150 and 10 ticks of 30 in the firmware.
ASSUME TimingAssumption ==
  /\ MotionPeriod = 1
  /\ \A ticks \in {MotionPeriod, SafetyPeriod, CommsPeriod + 1} : ticks + SlowTicks <= MaxAge
  /\ \A ticks \in {MotionPeriod, SafetyPeriod, CommsPeriod, TelemetryPeriod} :
       ticks + SlowTicks < Polls

VARIABLES
  stepped,    \* stepped_motion
  phase,      \* platform time modulo SafetyPeriod
  at,         \* where each task stands
  due,        \* ticks until its release, its delay or its timeout
  notes,      \* notification counts
  stopping, parked,
  seen, age,  \* health: whether and how long ago each critical task beat
  victim,     \* the task whose beats this scenario drops
  dropping,   \* the heartbeat filter is dropping them
  drive,      \* the applied output is not zero
  inhibited,  \* the output gate, as far as health decides it
  dog,        \* ticks since the watchdog was refreshed
  polls,      \* the harness's looks at tasks_parked
  stepOk,     \* every step so far returned true
  slow        \* ticks that may still pass while a task works

kernel == <<at, due, notes>>
health == <<seen, age, victim, dropping>>
output == <<drive, inhibited>>
vars == <<stepped, phase, kernel, stopping, parked, health, output, dog, polls, stepOk, slow>>

Boot == [t \in Tasks |-> IF t = "Harness" THEN "idle" ELSE "begin"]

\* runtime_init, and the harness's choice between stepped and periodic tasks.
Init ==
  /\ stepped \in BOOLEAN /\ phase = 0
  /\ at = Boot /\ due = [t \in Tasks |-> 0] /\ notes = [t \in Tasks |-> 0]
  /\ stopping = FALSE /\ parked = {}
  /\ seen = {} /\ age = [t \in Critical |-> 0] /\ dog = 0
  /\ victim \in Critical /\ dropping = FALSE /\ (~stepped => victim = "Motion")
  /\ drive = FALSE /\ inhibited = TRUE
  /\ polls = 0 /\ stepOk = TRUE /\ slow = SlowTicks

----------------------------------------------------------------------------
(***************************************************************************)
(* The kernel: who is ready, who runs, notifications and delays.           *)
(***************************************************************************)
\* Mutant: the harness runs above the tasks it steps.
PriorityHarness == [Safety |-> 4, Motion |-> 3, Comms |-> 2, Telemetry |-> 1, Harness |-> 5]

Priority == [Safety |-> 4, Motion |-> 3, Comms |-> 2, Telemetry |-> 1, Harness |-> 1]

WaitsForStep(t) == stepped /\ t \in Stepped /\ at[t] = "begin"

Ready(t) ==
  CASE WaitsForStep(t)                                     -> notes[t] > 0
    [] at[t] \in {"begin", "sleep"} /\ ~WaitsForStep(t)    -> due[t] <= 0
    [] at[t] \in {"wait", "awaitSafety", "awaitMotion"}    -> notes[t] > 0 \/ due[t] <= 0
    [] at[t] \in {"parked", "ended"}                       -> FALSE
    [] at[t] = "idle"                                      -> stepped
    [] OTHER                                               -> TRUE

Preempted(t) == \E u \in Tasks : Ready(u) /\ Priority[u] > Priority[t]

Running(t, place) == at[t] = place /\ Ready(t) /\ ~Preempted(t) /\ at["Harness"] # "ended"

Go(t, place) == at' = [at EXCEPT ![t] = place]

Give(t) == notes' = [notes EXCEPT ![t] = @ + 1]

\* Of its own count Communications only reports the value.
Signal == notes' = [notes EXCEPT !["Comms"] = 1]

Take(t) == notes' = [notes EXCEPT ![t] = 0]

Delay(t, ticks) == due' = [due EXCEPT ![t] = ticks]

Hung == {t \in Tasks : at[t] = "hung"}

\* Only a release may fall behind, and no further than a period matters.
Countdown ==
  LET behind == [Motion |-> MotionPeriod, Safety |-> SafetyPeriod, Telemetry |-> TelemetryPeriod,
                 Comms |-> 0, Harness |-> 0]
      counts(t) == at[t] \notin {"parked", "hung"} /\ ~(stepped /\ t \in Stepped)
  IN  [t \in Tasks |-> IF counts(t) /\ due[t] > -behind[t] THEN due[t] - 1 ELSE due[t]]

\* Nothing but a task that spins, or the harness at its computation, has the
\* processor; or a task takes longer than a tick.
TickComes ==
  \/ /\ \A t \in Tasks : Ready(t) => t \in Hung \/ Preempted(t) \/ at[t] = "idle"
     /\ UNCHANGED slow
  \/ /\ slow > 0 /\ slow' = slow - 1
     /\ \E t \in Firmware : Running(t, "work")

\* Bound: older ages are not told apart.
Oldest == MaxAge + 1 + (IF stepped THEN SafetyPeriod ELSE WatchdogTimeout)

Older == [t \in Critical |-> IF age[t] < Oldest THEN age[t] + 1 ELSE Oldest]

Watched == ~stepped /\ ~stopping

Tick ==
  /\ at["Harness"] # "ended" /\ (Watched => dog < WatchdogTimeout)
  /\ TickComes
  /\ due' = Countdown
  /\ IF Watched THEN age' = Older /\ dog' = dog + 1 ELSE UNCHANGED <<age, dog>>
  /\ UNCHANGED <<stepped, phase, at, notes, stopping, parked, seen, victim, dropping, output, polls, stepOk>>

----------------------------------------------------------------------------
(***************************************************************************)
(* The tasks.  Where no task of lower priority can tell the difference, a  *)
(* stretch without a wait is one step; ticks that fall into it are those   *)
(* of the work.                                                            *)
(***************************************************************************)
\* runtime_heartbeat with task_health_beat, behind the harness's filter.
Beat(t) ==
  IF dropping /\ t = victim THEN UNCHANGED <<seen, age>>
  ELSE seen' = seen \cup {t} /\ age' = [age EXCEPT ![t] = 0]

\* runtime_checkpoint of a stopping system.
Park(t) ==
  /\ stopping /\ parked' = parked \cup {t}
  /\ Go(t, IF t = "Motion" THEN "disable" ELSE "parked")

\* Mutant: a stepped task does not wait for its step.
WaitIsPeek(t) == UNCHANGED notes

\* The wait in front of a stepped cycle.
TakeStep(t) == IF WaitsForStep(t) THEN Take(t) ELSE UNCHANGED notes

\* Mutant: Communications waits for input without a timeout.
ListenForever(t) == Go(t, "wait") /\ Delay(t, 2 * MaxAge)

\* ulTaskNotifyTake, at most COMMS_HEALTH_PERIOD_MS.
Listen(t) == Go(t, "wait") /\ Delay(t, CommsPeriod)

\* runtime_safety_begin or runtime_motion_begin, then runtime_checkpoint;
\* Safety, Communications and Telemetry have their beat before their work.
Begin(t) ==
  /\ Running(t, "begin")
  /\ TakeStep(t)
  /\ \/ Park(t) /\ UNCHANGED <<due, seen, age>>
     \/ /\ ~stopping /\ UNCHANGED parked
        /\ IF t \in {"Safety", "Comms"} THEN Beat(t) ELSE UNCHANGED <<seen, age>>
        /\ IF t = "Comms" THEN Listen(t)
                          ELSE Go(t, "work") /\ UNCHANGED due
  /\ UNCHANGED <<stepped, phase, stopping, victim, dropping, output, dog, polls, stepOk, slow>>

\* Mutant: it suspends itself with the output as it is.
DisableNothing == UNCHANGED drive

\* platform_motor_disable.
MotorOff == drive' = FALSE

\* A parking Motion switches the motor off before it suspends itself.
Disable ==
  /\ Running("Motion", "disable")
  /\ Go("Motion", "parked")
  /\ MotorOff
  /\ UNCHANGED <<stepped, phase, due, notes, stopping, parked, health, inhibited, dog, polls,
                 stepOk, slow>>

\* Mutants: a beat counts for ever; the watchdog is refreshed whatever the health.
FreshOnceSeen(t) == t \in seen

RefreshAlways(healthy) == dog' = 0

\* task_health_fresh.
Fresh(t) == t \in seen /\ age[t] <= MaxAge

\* What an evaluation finds, of Safety's or in a section of Motion's.
Healthy == \A t \in Critical : Fresh(t)

\* watchdog_refresh, behind its condition.
Refresh(healthy) == dog' = IF healthy THEN 0 ELSE dog

\* Safety's section: the gate follows health, and so does the watchdog.  What
\* else keeps the gate shut, SafetyManager's faults, only takes drive away.
SafetyWork ==
  /\ Running("Safety", "work")
  /\ inhibited' = ~Healthy
  /\ drive' = (drive /\ Healthy)
  /\ Refresh(Healthy)
  /\ Go("Safety", "end")
  /\ UNCHANGED <<stepped, phase, due, notes, stopping, parked, health, polls, stepOk, slow>>

\* Motion's sections: a command or an update may evaluate, which sets the gate
\* as Safety would; they drive as far as the gate lets them.  Then its beat.
MotionWork ==
  /\ Running("Motion", "work")
  /\ inhibited' \in {inhibited, ~Healthy}
  /\ drive' \in {FALSE, ~inhibited'}
  /\ Beat("Motion")
  /\ Go("Motion", "end")
  /\ UNCHANGED <<stepped, phase, due, notes, stopping, parked, victim, dropping, dog, polls,
                 stepOk, slow>>

\* runtime_periodic_wait: until the next release, or one tick when it is past.
PeriodicWait(t, period) ==
  /\ Delay(t, IF due[t] + period > 0 THEN due[t] + period ELSE 1)
  /\ Go(t, "begin")

\* runtime_safety_end and runtime_motion_end.
End(t, period) ==
  /\ Running(t, "end")
  /\ IF stepped THEN Give("Harness") /\ Go(t, "begin") /\ UNCHANGED due
                ELSE PeriodicWait(t, period) /\ UNCHANGED notes
  /\ UNCHANGED <<stepped, phase, stopping, parked, health, output, dog, polls, stepOk, slow>>

TelemetryWork ==
  /\ Running("Telemetry", "work")
  /\ PeriodicWait("Telemetry", TelemetryPeriod)
  /\ UNCHANGED <<stepped, phase, notes, stopping, parked, health, output, dog, polls, stepOk, slow>>

\* Communications was notified or has waited for CommsPeriod; its second
\* checkpoint is behind the wait.
Heard ==
  /\ Running("Comms", "wait")
  /\ Take("Comms")
  /\ Park("Comms") \/ (~stopping /\ Go("Comms", "work") /\ UNCHANGED parked)
  /\ UNCHANGED <<stepped, phase, due, stopping, health, output, dog, polls, stepOk, slow>>

\* A batch; with frames left Communications signals itself and rests a tick.
CommsWork ==
  /\ Running("Comms", "work")
  /\ Go("Comms", "begin")
  /\ \/ UNCHANGED notes /\ Delay("Comms", 0)
     \/ Signal /\ Delay("Comms", 1)
  /\ UNCHANGED <<stepped, phase, stopping, parked, health, output, dog, polls, stepOk, slow>>

\* runtime_input_ready_from_isr.  Only Communications reads its notifications,
\* so one that comes earlier is the same as one that comes when it may run.
Interrupt ==
  /\ ~stepped /\ at["Comms"] = "wait" /\ notes["Comms"] = 0
  /\ ~Preempted("Comms") /\ at["Harness"] # "ended"
  /\ Signal
  /\ UNCHANGED <<stepped, phase, at, due, stopping, parked, health, output, dog, polls, stepOk, slow>>

----------------------------------------------------------------------------
(***************************************************************************)
(* The harness.                                                            *)
(***************************************************************************)
\* cycle(): the plant and the timer advance, Communications is signalled, and
\* on every second interval Safety is stepped before Motion.
Cycle ==
  /\ stepped /\ Running("Harness", "idle")
  /\ phase' = (phase + MotionPeriod) % SafetyPeriod /\ age' = Older
  /\ Signal
  /\ Go("Harness", IF phase' = 0 THEN "stepSafety" ELSE "stepMotion")
  /\ UNCHANGED <<stepped, due, stopping, parked, seen, victim, dropping, output, dog, polls, stepOk, slow>>

\* runtime_step_safety and runtime_step_motion: release the task ...
Release(t, place, await) ==
  /\ Running("Harness", place)
  /\ Give(t)
  /\ Delay("Harness", StepTimeout) /\ Go("Harness", await)
  /\ UNCHANGED <<stepped, phase, stopping, parked, health, output, dog, polls, stepOk, slow>>

\* ... and wait for its answer.  A false return ends the scenario.
Return(await, next) ==
  /\ Running("Harness", await)
  /\ Take("Harness") /\ Delay("Harness", 0)
  /\ stepOk' = (stepOk /\ notes["Harness"] = 1)
  /\ Go("Harness", IF stepOk' THEN next ELSE "stop")
  /\ UNCHANGED <<stepped, phase, stopping, parked, health, output, dog, polls, slow>>

\* drop_heartbeats.
DropHeartbeats ==
  /\ stepped /\ Running("Harness", "idle")
  /\ dropping' = ~dropping
  /\ UNCHANGED <<stepped, phase, kernel, stopping, parked, seen, age, victim, output, dog, polls, stepOk, slow>>

\* The scenario is over: runtime_request_stop, here its section ...
Conclude ==
  /\ Running("Harness", "idle") \/ Running("Harness", "stop")
     \/ (~stepped /\ at["Harness"] = "idle" /\ ~Preempted("Harness"))
  /\ Hung = {}
  /\ stopping' = TRUE
  /\ Go("Harness", IF stepped THEN "wakeMotion" ELSE "poll")
  /\ UNCHANGED <<stepped, phase, due, notes, parked, health, output, dog, polls, stepOk, slow>>

\* Mutant: tasks that wait for a step are not woken.
WakeNobody(t) == UNCHANGED notes

WakeForStop(t) == Give(t)

\* ... and here the two notifications.
WakeStepped(t, place, next) ==
  /\ Running("Harness", place)
  /\ WakeForStop(t) /\ Go("Harness", next)
  /\ UNCHANGED <<stepped, phase, due, stopping, parked, health, output, dog, polls, stepOk, slow>>

\* The harness looks for parked tasks, a tick apart, and ends the scheduler.
Poll ==
  /\ Running("Harness", "poll") \/ Running("Harness", "sleep")
  /\ IF parked = Firmware \/ polls = Polls
     THEN Go("Harness", "ended") /\ UNCHANGED <<due, polls>>
     ELSE Go("Harness", "sleep") /\ Delay("Harness", 1) /\ polls' = polls + 1
  /\ UNCHANGED <<stepped, phase, notes, stopping, parked, health, output, dog, stepOk, slow>>

----------------------------------------------------------------------------
(***************************************************************************)
(* A fault: a critical task spins for ever.  The watchdog resets.          *)
(***************************************************************************)
Hang(t) ==
  /\ Watched /\ Hung = {} /\ Running(t, "work")
  /\ Go(t, "hung")
  /\ UNCHANGED <<stepped, phase, due, notes, stopping, parked, health, output, dog, polls, stepOk, slow>>

Reset ==
  /\ Watched /\ dog = WatchdogTimeout
  /\ at' = Boot /\ due' = [t \in Tasks |-> 0] /\ notes' = [t \in Tasks |-> 0]
  /\ dog' = 0 /\ seen' = {} /\ age' = [t \in Critical |-> 0]
  /\ drive' = FALSE /\ inhibited' = TRUE
  /\ UNCHANGED <<stepped, phase, stopping, parked, victim, dropping, polls, stepOk, slow>>

----------------------------------------------------------------------------
SafetyTask == Begin("Safety") \/ SafetyWork \/ End("Safety", SafetyPeriod)

MotionTask == Begin("Motion") \/ MotionWork \/ End("Motion", MotionPeriod) \/ Disable

CommsTask == Begin("Comms") \/ Heard \/ CommsWork

TelemetryTask == Begin("Telemetry") \/ TelemetryWork

HarnessTask ==
  \/ Release("Safety", "stepSafety", "awaitSafety") \/ Return("awaitSafety", "stepMotion")
  \/ Release("Motion", "stepMotion", "awaitMotion") \/ Return("awaitMotion", "idle")
  \/ WakeStepped("Motion", "wakeMotion", "wakeSafety")
  \/ WakeStepped("Safety", "wakeSafety", "poll")
  \/ Poll

Next ==
  \/ SafetyTask \/ MotionTask \/ CommsTask \/ TelemetryTask \/ HarnessTask
  \/ Cycle \/ DropHeartbeats \/ Conclude
  \/ Tick \/ Interrupt \/ Reset
  \/ \E t \in Critical : Hang(t)

Spec == Init /\ [][Next]_vars

\* The processor is given to whoever the priorities name, Telemetry and the
\* harness take turns, and time passes.
Fairness ==
  /\ WF_vars(SafetyTask) /\ WF_vars(MotionTask) /\ WF_vars(CommsTask)
  /\ SF_vars(TelemetryTask) /\ SF_vars(HarnessTask)
  /\ SF_vars(Tick) /\ WF_vars(Reset)

LiveSpec == Spec /\ Fairness

----------------------------------------------------------------------------
TypeOK ==
  /\ stepped \in BOOLEAN /\ phase \in 0 .. SafetyPeriod - 1
  /\ notes \in [Tasks -> 0 .. 1] /\ due \in [Tasks -> Int]
  /\ stopping \in BOOLEAN /\ parked \subseteq Firmware
  /\ seen \subseteq Critical /\ age \in [Critical -> 0 .. Oldest]
  /\ victim \in Critical /\ dropping \in BOOLEAN /\ drive \in BOOLEAN /\ inhibited \in BOOLEAN
  /\ dog \in 0 .. WatchdogTimeout /\ polls \in 0 .. Polls
  /\ stepOk \in BOOLEAN /\ slow \in 0 .. SlowTicks

\* runtime.c:101-135.  A step returns true and has then run exactly its cycle:
\* when the harness is not waiting, nobody has a notification left over and
\* both tasks are back at their begin, even if the answer came after the
\* one-second timeout.
StepsAreWhole ==
  stepped /\ ~stopping =>
    /\ stepOk
    /\ at["Harness"] \notin {"awaitSafety", "awaitMotion"} =>
         /\ notes["Harness"] = 0
         /\ \A t \in Stepped : at[t] = "begin" /\ notes[t] = 0

\* safety_runtime.c:29-43, safety_task.c:15-19.  The output is applied only
\* while every critical task is known to live: one that stops beating loses the
\* drive one Safety period after MaxAge, and when it is Safety itself that
\* hangs, or a task above Safety's work, the watchdog takes it.
DriveIsSupervised ==
  drive /\ ~stopping =>
    \A t \in Critical :
      age[t] <= MaxAge + (IF "Safety" \in Hung THEN WatchdogTimeout ELSE SafetyPeriod + (IF stepped THEN 0 ELSE SlowTicks))

\* The periods leave room for overruns: a task that neither hangs nor is held
\* up by one that does never looks dead to Safety.
NoFalseAlarm ==
  ~stepped /\ ~stopping /\ Hung = {} => \A t \in seen : Fresh(t)

\* What Safety believes of the tasks is true in both directions.
HealthIsExact == DriveIsSupervised /\ NoFalseAlarm

\* runtime.c:63-75 and 91-97, simulator/main.c:101-105.  From whatever place the
\* tasks are stopped in, a wait for a step or for input among them, all of them
\* park before the harness's patience ends, and then the motor is off.
AllParkInTime ==
  at["Harness"] = "ended" =>
    /\ \A t \in Firmware : at[t] = "parked"
    /\ ~drive

\* A critical task that hangs is answered by a reset.
HangIsReset == Hung # {} ~> Hung = {}
=============================================================================
