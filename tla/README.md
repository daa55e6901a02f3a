# Verification of the embedded motion controller

TLA+ models, TLC runs and TLAPS proofs for the firmware in `src/firmware`, a
single-axis motion controller on FreeRTOS (host simulation and STM32F407) with
an independent safety task that owns the final say over the motor output, and for
the simulated plant in `src/simulator` that closes its loop.

## 1. Inventory of the system

### Components

| Component | Source | State it keeps | Operations |
| --- | --- | --- | --- |
| Motor gate | `platform/*/motor*.c` | requested and applied duty, full inhibit, negative block | set_output, disable, safety_inhibit, safety_block_negative |
| Fault manager | `safety/fault_manager.c` | first fault, its condition, history | raise, reset |
| Safety manager | `safety/safety_manager.c` | IDLE/FAULT/ESTOP, last inputs, health, home-contact allowance, stall candidate, recovery evidence | evaluate, estop, internal_fault, homing_timeout, reset |
| Motion controller | `control/motion_controller.c` | state, position, target, velocity, dwell counter, feedback validity | sample, command, update |
| Homing | `control/homing.c` | result, start time, referenced | begin, update, abort |
| PID | `control/pid.c` | integral, last measurement | init, reset, update |
| Safety runtime adapter | `rtos/safety_runtime.c` | `runtime_data.safety`, `.state`, `.motion` | enforce, evaluate, sync, command, control_update |
| Safety task | `tasks/safety_task.c` | none of its own | evaluation every 20 ms, watchdog refresh |
| Motion task | `tasks/motion_task.c`, `app/application.c` | startup application object, cycle timestamps | sample, reconcile, up to two commands, update, publish, every 10 ms |
| Task health, watchdog | `health/task_health.c`, `platform/*/watchdog*` | count, last beat, seen | beat, fresh, refresh |
| Encoder | `platform/*/encoder*.c` | register, reference offset | get_count, set_reference |
| Command bus | `rtos/command_bus.c` | bounded queue, counters, high-water mark | send, receive |
| Communications, UART | `tasks/comms_task.c`, `platform/stm32/uart.c`, `platform/host/input_host.c` | partial frame, frame queue, notification count | byte ISR, batch of four frames, write |
| Command parser | `protocol/command.c` | none | parse |
| Diagnostics, Telemetry | `rtos/diagnostics.c`, `tasks/telemetry_task.c`, `platform/*/telemetry*.c`, `tiny_format.c` | bounded record queue, drop count, the snapshot being printed | send, receive, drain, snapshot, print |
| Runtime | `rtos/runtime.c`, `rtos/periodic.c` | stop flag, stepping owner, parked mask | init, checkpoint, step, request_stop, periodic wait |
| Plant and scenarios | `simulator/` | position, velocity, switches, metrics of the running command | step, reset, stall, freeze, scenario drivers |

### How they interact

Bytes become frames in the UART ISR, frames become commands in Comms, commands
cross the command bus to Motion.  Motion (priority 3) owns the controller object
and is the only task that asks for a duty.  Safety (priority 4) preempts it
anywhere outside a critical section, reads GPIO, the encoder, the applied duty,
the heartbeats and the motion state Motion *last published*, and sets the gate's
inhibit and directional block.  Motion learns of a latch only when it reaches a
section that calls `runtime_safety_sync`.  Everything they share is
`runtime_data` and the motor gate, each touched inside `taskENTER_CRITICAL`.

### What is hard

* Safety latches between two sections of a Motion cycle, which then continues
  with the state it had.
* Safety decides from a published motion state that is a cycle old.
* The home switch is at once a goal (HOME), a tolerated condition (the
  departure allowance) and a fault, and may bounce between two readings.
* One fault masks another; RESET must see through the mask.
* One operation has several places that may end it: dwell, STOP, stall, E-stop,
  limit, deadline, failed sample.
* All times are unsigned milliseconds that wrap; timestamps of the same cycle are
  taken at different moments.
* A notification is a hint, the frame queue the truth: a frame may arrive between
  any two of Communications' steps, and one notification may stand for many.
* Motion preempts Communications between two sections of the same command.
* The receive interrupt keeps two flags from byte to byte, and errors fall
  anywhere among them.
* The harness steps tasks that outrank it, with a timeout on every step, and stops
  them from wherever they wait.
* Safety's own work is what refreshes the watchdog, so a task that spins must be
  answered also when it starves Safety.
* Records are queued by three tasks that preempt each other and drained by a fourth
  that may hang in its output.
* Thresholds meet exactly: the homing duty is the stall threshold, the smallest
  positive count above the range is one digit away, a line of the write limit fits.

### What makes each component correct

| Component | Property |
| --- | --- |
| Motor gate and adapter | a latch or missing health shuts the gate between any two sections; nothing drives into an observed home switch; releasing the gate never replays an old request |
| Safety manager | every recorded hazard keeps the latch, masked or not; E-stop outranks FAULT; the latch is left only by a RESET that saw no hazard in its own section |
| Motion controller | a completion is reported only at rest on the target and never in the step that aborts it; drive has a live operation behind it; a stop settles |
| Homing | the reference is taken only at the switch with the drive off; a seek ends by its deadline across the clock's wrap |
| Allowance | held only after a completed HOME, without latch, while the contact has persisted |
| Tasks | a published state never hides a latch; a held E-stop reaches Motion |
| Estimator, encoder | no wrap of the register and no new reference shifts position or velocity; a homed axis knows its distance from the switch |
| PID, plant, supervision | a working axis reaches its target within the tolerance and without a fault; a stuck one is caught |
| UART reception | the frames queued are the clean lines of the input, each once, in order and clipped, less those counted as dropped |
| Communications | never waits on queued input without a wake-up due; every frame meets its fate without the 50 ms timeout |
| Command bus | every command is in one place or one counter, in order, and leaves within a bounded number of cycles; the high-water mark is exact |
| Parser, printing | the argument is accepted exactly when it is a decimal of the 32-bit range; what is printed is whole and is read back as the same value |
| Health, watchdog | a healthy system is never taken for dead, a task that stops beating loses the drive, one that hangs is reset |
| Stepping, shutdown | a step that returns true ran exactly its cycle; every task parks from wherever it waits, Motion with the motor off |
| Diagnostics | no record is lost uncounted; a name follows its text; no producer waits for the output |
| Telemetry | the lines of a group are made of one consistent snapshot |

The rest of the list, per source line, is `hazards` in `PROJECT.json`.

## 2. The model

### Modules

```
MotorGate  SafetyManager        pure functions of the gate and of the safety record
      \      /
   MotionControl                motion_controller.c and homing.c, functions of a world
        |
   SafetyRuntime                safety_runtime.c, functions of a world
        |
   ControlLoop                  Motion, Safety and the environment as actions
     /      \
 LiveLoop   (instance of) SafetyLatch, the abstract promise

   UartFraming                  bytes to frames, in the receive interrupt
   LineProtocol                 lines to commands, and numbers and lines to the wire
   CommandPath                  frames to Motion: queues, notification, bus
        \
   (instance of) CommandPipe, the abstract promise

   TaskRuntime                  periods, steps, health, watchdog, shutdown
   Reports                      records and snapshots on their way to the output
   Axis                         plant, encoder, PID and supervision with real numbers
```

The modules meet at a few objects.  The queue `rx` is the same in
`UartFraming`, where bytes fill it, and in `CommandPath`, where whole frames do; the
verdict that `CommandPath` gives a frame is `command_parse` of `LineProtocol`; a
command that `CommandPath` hands to Motion in `Answer` is one that `ControlLoop`
receives in `CommandSection`, which takes any command of the instance; and
`Release`/`Block` in `CommandPath` are `BeginCycle` and `CommandsDone` in
`ControlLoop`.  `TaskRuntime` produces the heartbeats that `ControlLoop` takes from its
environment (`Heartbeats`) and wakes Communications as `CommandPath` does.  `Axis`
plays single commands of the same controller where `ControlLoop` has a
nondeterministic duty and encoder: what `ControlLoop` shows for any duty and any
movement holds for those of `Axis`; what `Axis` shows depends on the numbers.  Each part
is checked apart because it reads nothing else of the others' state.

| Module | Code | Correspondence |
| --- | --- | --- |
| `MotorGate` | `motor_host.c` (and the same logic in `motor.c`) | record `output, requested, inhibited, blocked`; one operator per driver call |
| `SafetyManager` | `fault_manager.c`, `safety_manager.c` | `Evaluate` keeps the order of `safety_evaluate`: GPIO failure, E-stop, positive limit, switch release, negative limit with its two exceptions, watchdog, recovery evidence, stall |
| `MotionControl` | `motion_controller.c`, `homing.c` | operators on a world `w` with `w.motion`, `w.gate`, `w.count` |
| `SafetyRuntime` | `safety_runtime.c` | each function runs inside its caller's critical section, so it is a function of the world and of `env`, what the section reads from outside |
| `ControlLoop` | `motion_task.c`, `safety_task.c`, `application.c` | the critical sections are the actions: `BeginCycle` (start-up step, timestamp, sample), `SyncSection`, `CommandSection`, `CommandsDone`, `UpdateSection`; `SafetyTask` is one release of Safety; `Tick`, `PinChange`, `EncoderCount`, `Heartbeats` are the environment |
| `LiveLoop` | scheduling of the two tasks | adds the Safety heartbeat's parity and fairness |
| `UartFraming` | `platform/stm32/uart.c` | one action per path through the interrupt handler: `BadByte`, `SecondHalf` (the LF of CR LF), `Delimiter`, `TextByte`; `ReadLine` is `uart_try_read_line` |
| `CommandPath` | `input_host.c`, `comms_task.c`, `command_bus.c`, receipt in `motion_task.c` | `comms.at` is the line of `comms_task` it stands at; `BusSend` and `BusReceive` are the bus's critical sections; `Interrupt` is the UART interrupt or the host's tick hook, `Submit` and `InputReady` the simulator's harness |
| `CommandPipe` | `docs/real-time-design.md`, `docs/phase-2.md` | a pipe that may lose a frame anywhere, counts it, and hands on the rest once and in order |
| `LineProtocol` | `protocol/command.c`, `telemetry_host.c`, `stm32/telemetry.c`, `tiny_format.c` | `command_parse` by scanning, as the code does, against `Meaning`, by words and numerals, as `docs/protocol.md` does; `HostPrint` and `TargetPrint` are the two `uart_print` |
| `TaskRuntime` | `runtime.c`, `periodic.c`, the task loops, `task_health.c`, `simulator/main.c` | `at` is the place of a task in its loop; every wait of the code is a place; `Preempted` is the strict priority of the kernel |
| `Reports` | `diagnostics.c`, `telemetry_task.c`, the emitters | `Send` and `CountDrop` are the two sections of `send_record`; `StatusSnapshot` is the snapshot that STATUS takes inside the drain |
| `Axis` | `plant_model.c`, `encoder_host.c`, `pid.c`, the single-command behaviour of `motion_controller.c`, `homing.c` and `safety_manager.c`, `control_metrics.c`, `closed_loop_main.c`, `plant_main.c` | one step is `cycle()`: ten plant steps, Safety on every other cycle, Motion; `Scenarios` are the drivers' command plans |
| `SafetyLatch` | `safety_manager.h`, `fault_manager.c`, `docs/safety.md` | what the safety layer promises, without tasks, sensors or time |

A world is `[gate, safety, motion, pub, report, count]`: the driver, Safety's
record, Motion's private controller, the motion snapshot last published (only
what Safety reads of it), `runtime_data.state` and the encoder.

### Abstractions

* Time is in ticks of 10 ms modulo `TimeMod` (2^32 ms in the firmware).
* Duty is in tenths.  The PID may answer any duty of the set `Duty`; it is
  limited to +-8 tenths, so the driver's clamp and non-finite branch never act.
* Velocity is kept as *slow* (at most 25 counts/s) or not, the one comparison
  anybody makes with it.
* The GPIO and the encoder read cannot fail once initialised, which is what both
  platforms' drivers do; a failed *sample* (a gap above 1 s or of 0) is modelled.
* Reporting fields that no decision reads are left out (`detection_ms`,
  `zero_ms`, fault time and source mask, `elapsed_ms`, the watchdog count).
* Several inputs may change between two sections, one inside the closing
  section, because the target reads the pins twice there.
* A section that only masks interrupts sees one clock value.
* A frame is its number of arrival and the parser's verdict; a received byte is a
  delimiter, a text byte or a byte with an error flag, whose value the code drops.
* In the command path priorities are strict: Communications moves only while Motion
  is blocked, the harness only while both are; interrupts come at any time.
* In `LineProtocol` a name is one character (`V` takes an argument, `N` does not),
  because only whole names are compared, and the range is -16..15 instead of 32 bits:
  the overflow test reads only the limit, the value so far and a digit.
* In `TaskRuntime` a timestamp is its age; a stretch of a task without a wait is one
  step where nothing below it can tell the difference.  The harness's step timeout is
  one tick, so that it does race with answers.  The watchdog is the target's; the
  host's stub only counts.
* In `Reports` a record is its kind and number, and the runtime is two facts that a
  group must agree on (Safety's state, an applied output).  Both tasks may latch.
* In `Axis` lengths are integers of 1e-5 units and duties of 1e-6; the program
  computes in `float` and `double`.  The rounding is coarse enough to be different and
  fine enough to reproduce the published figures it is compared with, digit for digit: of
  moves the final count, completion, settling and overshoot, of homings the count and the
  time, of the bench the position, velocity and raw count.  The greatest duty, the
  observation times, the homings that begin at the switch and the times at which an
  interruption or a failure was reported are not compared.  The
  driver rests 200 cycles after every command, 10 of which it takes in the code after a
  homing.  The encoder register has 65536 values instead of 2^32.  Gate, RESET and
  E-stop are `ControlLoop`'s.
* Statistics that nothing on the path reads (`input_notifications`,
  `received_by_type`, `last_command`) and the text records are left out, and so is
  `UART_TOO_LONG`, which neither driver can return for the frames it queues.

## 3. The runs

| Run | Question | Instance | Properties |
| --- | --- | --- | --- |
| `move` | does a latch hold and only a clean RESET leave it, whatever Motion was doing? | MOVE/STOP/ESTOP/RESET, two commands a cycle, E-stop pin, stalls | `LatchHoldsGate`, `HazardKeepsLatch`, `DriveHasOwner`, `LatchLeftByReset`, `CompletionIsHonest` |
| `home` | does a seek with a bouncing switch respect it, and the departure after it? | HOME, then a departing move or HOME again, home switch, deadline, duties of both signs | `TypeOK`, `NoDriveIntoContact`, `AllowanceEarned`, `DriveStartsInUpdate`, `ReferenceNeedsContact` |
| `supervise` | does the loop keep the abstract promise when heartbeats fail and cycles overrun? | MOVE/RESET, positive limit, stale heartbeats, gaps too long for the estimator | `LatchIsReported`, `ImplementsLatch` |
| `live` | do seeks, stops and E-stops come to an end? | HOME/STOP, E-stop pin, fairness | `SeekEnds`, `EstopReachesMotion`, `StopSettles` |
| `frames` | are the frames the lines of the input, and the commands what the lines say? | all sequences of 6 bytes, errors among them, reads at any time; all lines of 6 of 9 characters | `LinesArrive`, `ParserIsExact`, `PrintsAreRead` |
| `path` | is a frame ever lost uncounted, left asleep, reordered or starved on its way to Motion? | 5 frames in bursts of 2, queues of 2, interrupts between any two steps, fairness | `TypeOK`, `NoSleepOnInput`, `CountersAgree`, `WaitBounded`, `ReportsAreTrue`, `ImplementsPipe`, `FramesEnd` |
| `runtime` | are steps whole, is health exact, do all tasks park, is a hang answered? | periodic and stepped tasks, a dropped heartbeat, an overrun, a task that hangs, a stop at any moment, fairness | `TypeOK`, `StepsAreWhole`, `HealthIsExact`, `AllParkInTime`, `HangIsReset` |
| `reports` | is a record ever lost uncounted, a group mixed, a producer blocked? | three producers over a queue of 2, 5 records, STATUS groups inside the drain | `TypeOK`, `NothingIsLost`, `GroupsAreCoherent`, `NameFollowsText`, `SendsFinish` |
| `axis` | do the numbers work: no false fault, no stall overlooked, the published times and counts? | 22 scenarios with STOPs and failures at many moments | `TypeOK`, `EstimateIsTrue`, `MovesEndWell`, `FiguresHold`, `SupervisionIsRight` |

Distinct states: `axis` 1.5 million, `move` 1.2 million, `home` 1.1 million,
`supervise` 1.0 million, `frames` 620,000, `reports` 530,000, `runtime` 290,000,
`path` 190,000.  Three more runs (`early_timeout`, `outcomes`, `error_pair`) each show
one finding (section 6).

Some properties are conjunctions of named parts that answer one question:
`LinesArrive` of `FramesAreLines` and `NothingInvented`; `PrintsAreRead` of `PrintedIsRead`
and `NothingTruncated`; `ReportsAreTrue` of `AcksAreTrue` and of the truth of the
high-water mark; `HealthIsExact` of `DriveIsSupervised` and `NoFalseAlarm`; `NothingIsLost`
of `SnapshotCountsAll` and `DrainCoversQueue`; `EstimateIsTrue` of `ReferenceIsTrue` and
`EstimatorIsTrue`; `MovesEndWell` of `NormalMotionIsNoFault` and `SettlesInTolerance`;
`SupervisionIsRight` of `StuckIsCaught`, `NoFalseStall`, `SeekIsInTime`, `SwitchIsSafetys` and
`DeparturePushesOff`.

### Bounds

| Bound | Value | Why it is enough |
| --- | --- | --- |
| `TimeMod` | 3 or 4 ticks | the clock wraps many times in every run; ages above `TimeMod` are never compared because a section resets them first |
| `CountMin..CountMax` | 0..1 | one position at the switch and one away from it; a stall, a recovery, a coast and a completed move all need one count |
| `MinTarget..MaxTarget` | 0..1 | one move in travel and, with MOVE_REL, one out of it |
| `DwellCycles` | 1 (20) | the dwell counter restarts on every sample out of band; a longer dwell only repeats the state before completion |
| `StallTimeout`, `HomingTimeout` | 2 ticks | a candidate is opened, kept for a tick, then trips; a seek drives for two cycles |
| `CommandsPerCycle` | 1 or 2 (2) | 2 where two commands in a cycle interact (STOP then RESET, HOME then STOP) |
| `TickBound` | ticks in one Motion cycle: 1, and 2 where an overrun matters | a gap of 2 with `SampleGapMax` 1 is the one-second gap the estimator refuses |
| `MaxOps` | 1 or 2 accepted operations | 2 where the second depends on the first (HOME, then a departure); bounds the completion, homing and abort counters, which have no other bound |
| `Duty` | {-3,0,8}, {-3,0} | one duty of each sign and zero; -3 is the homing duty |
| `RxCapacity`, `BusCapacity` | 2 and 2 (16, 8) | a queue is empty, neither, and full; a burst meets room for all, one or none of it |
| `Batch` | 1 (4) | the batch ends with frames left, which is what the pending check is for |
| `CommandsPerCycle` in `path` | 1 (2) | Motion leaves commands behind; `WaitBounded` is proved for every value |
| `MaxFrames`, `BurstMax` | 5 and 2 | more frames than both queues and Communications hold together, so each of the queues overflows |
| `NoticeMax` | 1 | the harness may signal without input, before or after a real signal; the count has no limit in the code that a run could reach |
| `Alphabet`, `MaxLine`, `CommandCapacity` | 9 characters, 6, 6 | space, both names, an unknown letter, both signs, and the digits 1, 5, 6 around the limits 15 and 16; a line that fills the receiver's buffer |
| `IntMax`, `MaxWrite` | 15, 3 | the last value in and the first out of range on either side, with two digits; a line shorter than, at and longer than the write limit |
| `MotionPeriod`, `SafetyPeriod`, `TelemetryPeriod`, `CommsPeriod` | 1, 2, 2, 2 ticks (1, 2, 10, 5) | Safety at every second Motion cycle, as in the code; the slower two are released more often than in the firmware, which only adds interleavings |
| `MaxAge`, `WatchdogTimeout` | 4 and 6 ticks (15, 100) | more than any period plus an overrun, in the order of the code |
| `StepTimeout`, `Polls` | 1 tick (100), 4 looks (30) | a step may time out while its task runs; the looks span two of the longest periods here, three in the firmware |
| `SlowTicks` | 1 | a tick may fall into the work of any task; the margin of `MaxAge` over the periods is what bounds how many may |
| `Capacity`, `MaxRecords` | 2 (32), 5 | a full queue with more records to come from two producers, and a drain that meets new ones |
| `Word` | 65536 | the register passes zero in every homing of a displaced reference; travel is a thirteenth of it |
| `StopEvery`, `BreakEvery` | 130 and 210 cycles | a STOP in acceleration, at full speed, while braking and in the final creep of the longer moves; not more, because each starts a behaviour of its own |
| `Patience` | 110 cycles | more than the 102 that a stalled move may take: 50 for an integral that works against it, two of Safety's period, the 50 of the stall timeout |
| `PostCycles`, `MaxMoveCycles` | 200, 2000 | the scenario driver's own numbers |
| `Scenarios` | 22 | those of `closed_loop_main.c` that move or home, except the home that begins at the switch (`homing-already`), the two of `plant_main.c`, and moves from one count to the whole travel |
| `MaxBytes`, `LineCapacity` | 6, 2 | an error between CR and LF and the whole line after it; a line one byte too long; a full queue of two |

`StallPwm` is 9 in `supervise` to keep the stall detector, which `move` covers,
out of the product with failing heartbeats.

### Fairness

`LiveSpec` assumes that Safety is released infinitely often and that Motion's
program counter moves infinitely often.  Both are what a preemptive scheduler
gives to the two highest priorities: every section terminates without waiting
for anything, Safety is released by the tick every 20 ms whatever Motion does,
and Motion sleeps at least one tick between two cycles (`xTaskDelayUntil`, or
`vTaskDelay(1)` after an overrun).  They are stated as `[]<>` of a visible change;
both actions are always possible again after a tick, so this asks no more than
weak fairness would.  Nothing is assumed of commands, inputs, encoder or
heartbeats.  `StopSettles` excludes an encoder that never comes to rest.

`CommandPath!LiveSpec` assumes weak fairness of Motion's release and of its cycle
(the tick and the highest priority on the path), strong fairness of
Communications' step and of the harness's signal after a submission.  Strong,
because Motion takes the processor away every cycle: both get it back again and
again, as the cycles end, and that is all that is assumed.  `TimeOut` has no fairness:
`FramesEnd` shows that the code does not lean on its 50 ms timeout.

`TaskRuntime!LiveSpec` assumes weak fairness of Safety, Motion and Communications,
which a strict-priority kernel runs whenever they are ready, and of the watchdog's
reset; strong fairness of Telemetry and of the harness, which share the lowest
priority and are preempted again and again; and strong fairness of the tick.  `Reports!Spec`
assumes only that a producer that has begun to report goes on (weak fairness of
`Reporting`); nothing is assumed of Telemetry, which may hang in its output for ever.

## 4. The refinement

`ControlLoop` implements `SafetyLatch` under `latch <- safety.state`,
`fault <- safety.code`, `drive <- gate.output` (property `ImplementsLatch` of run
`supervise`): every section of every task is a change of drive with nothing
latched, a trip, a reset, or invisible.  `SafetyLatch` says that a trip zeroes the
drive in the same step, keeps the first fault and never steps down from ESTOP,
and that the only way back to IDLE is a reset to a standstill.

`CommandPath` implements `CommandPipe` (property `ImplementsPipe` of run `path`): the
pipe is Motion's command, the bus, the frame in the parser's hands and the receive
queue, in that order; `lost` is the sum of the three loss counters.  A burst larger
than the room, a refused frame and a full bus are losses; waking, checking,
signalling and reporting are invisible.

Both refinements are also proved for every value of the constants (`LatchPromiseKept`,
`PipePromiseKept`); the runs found the mappings cheaply and keep the mutants honest.

## 5. What is proved

`RuntimeProofs`, `ControlLoopProofs` and `OperationProofs` hold the proofs about the
control loop, `CommandPathProofs` those about the command path, `ReportsProofs` those about
the reports, `TaskRuntimeProofs` those about the runtime around the tasks, `ProtocolProofs`
those about reception, parsing and printing, and `AxisProofs` those about the loop with its
numbers, for every value of the constants that satisfies the assumptions.

| Theorem | Statement |
| --- | --- |
| `TypeCorrect` | `Spec => []TypeOK` |
| `LatchShutsGate` | `Spec => []LatchHoldsGate` |
| `ContactBlocksDrive` | `Spec => []NoDriveIntoContact` |
| `HazardsKeepLatch` | `Spec => []HazardKeepsLatch` |
| `LatchIsSeen` | `Spec => []LatchIsReported` |
| `OnlyResetReleases` | `Spec => LatchLeftByReset` |
| `LatchPromiseKept` | `Spec => ImplementsLatch`: the control loop implements `SafetyLatch` |
| `DriveIsOwned` | `Spec => []DriveHasOwner` |
| `AllowanceIsEarned` | `Spec => []AllowanceEarned` |
| `OnlyUpdatesDrive` | `Spec => DriveStartsInUpdate` |
| `ReferenceIsOnContact` | `Spec => ReferenceNeedsContact` |
| `CompletionsAreHonest` | `Spec => CompletionIsHonest` |
| `PathTypeCorrect` | `Spec => []TypeOK` (of `CommandPath`) |
| `NoFrameLeftAsleep` | `Spec => []NoSleepOnInput` |
| `FramesAreAccountedFor` | `Spec => []CountersAgree` |
| `CommandsWaitBoundedly` | `Spec => []WaitBounded` |
| `PipePromiseKept` | `Spec => ImplementsPipe`: the command path implements `CommandPipe` |
| `ReportsHold` | `Spec => ReportsAreTrue` (of `CommandPath`) |
| `ReportsTypeCorrect` | `Spec => []TypeOK` (of `Reports`) |
| `NothingLost` | `Spec => []NothingIsLost` |
| `GroupsCoherent` | `Spec => []GroupsAreCoherent` |
| `NamesFollow` | `Spec => NameFollowsText` |
| `TasksAreTyped` | `Spec => []TypeOK` (of `TaskRuntime`) |
| `StepsRunWhole` | `Spec => []StepsAreWhole` |
| `HealthStaysExact` | `Spec => []HealthIsExact` |
| `AllTasksPark` | `Spec => []AllParkInTime` |
| `LinesDoArrive` | `Spec => []LinesArrive` (of `UartFraming`) |
| `ParserStaysExact` | `LineSpec => []ParserIsExact` |
| `PrintsStayTrue` | `LineSpec => []PrintsAreRead` |
| `AxisIsTyped` | `Spec => []TypeOK` (of `Axis`) |
| `EstimateStaysTrue` | `Spec => EstimateIsTrue` |
| `StallsAreCaught` | `Spec => []StuckIsCaught`, with `Patience` at least 103 |
| `NoStallIsFalse` | `Spec => []NoFalseStall`: an axis that works is never told that it does not move |
| `SeeksAreInTime` | `Spec => []SeekIsInTime`: no working seek of a travel of 5600 counts times out |
| `PositiveSwitchIsSafetys` | `Spec => []SwitchIsSafetys` |
| `DeparturesPushOff` | `Spec => []DeparturePushesOff` |
| `SupervisionStaysRight` | `Spec => []SupervisionIsRight`, with `Patience` at least 103 |

**Assumptions.**  `DutyAssumption` (duties are integers, zero among them),
`SafetyAssumption`, `MotionAssumption` and `LoopAssumption` (thresholds are naturals,
the homing duty is negative, commands carry integers, the encoder's range covers
zero and the travel).  In the control loop no assumption relates periods or timeouts to
each other: its safety theorems hold for any timing.

`PathAssumption` asks only that capacities, batch, burst and commands per cycle are
positive, `ReportsAssumption` that the diagnostic queue has a place and that the number
of records is a natural.

`RuntimeAssumption` asks that the periods and the number of looks are positive.
`TimingAssumption` is the one place where numbers of the code are related: a tick is one
Motion period; the longest time between two beats of a task, plus the overruns the model
allows, is at most `MaxAge`; the longest wait of a task, plus those overruns, is less than
the looks of the harness.  In the firmware these are 60 ms (Communications' 50 and its
pause of one tick, `runtime.h:16-20`) against 150 ms, and the 100 ms of Telemetry against
30 looks of one tick (`simulator/main.c:101-105`).  Without the first, a living system would inhibit
itself; without the second, a task asleep in its period would be given up.

`FramingAssumption` keeps the delimiters and the error mark apart from the text and gives
the line and the queue a place each.  `ProtocolAssumption` asks that every digit is a
number of the range (`IntMax >= 9`) and that a command has room for a character.
`AxisAssumption` asks for a register of an even number of values and positive bounds;
`ScenarioAssumption` that an axis starts on its travel, that its plan consists of steps the
drivers know, and that the travel is less than half the register: 5000 counts of 2^32 in
the firmware.  Without the last, a count would not tell where the axis is.  `NoFalseStall` also
asks, as a hypothesis on the scenario, that no count of the travel lies beyond the signed
register (`HasRoom`; 5000 of 2^31): the PID would take the jump of a wrapped count for an error.

**Argument, control loop.**  None of the state properties is inductive.  Motion's next duty is judged by the
gate's *flags*, not by what Safety last decided, so the invariant `GateInv` says
that the flags themselves are right in every state: the output obeys the flags
(`SafeGate`), a latch or missing health implies the full inhibit, and an observed
home switch implies one of the two flags (`GateAgrees`); that the latch stands for what
the safety record remembers and for the inputs it last saw (`Honest`); and that a latch
is what everyone is told (`Reported`).  It is kept because

1. every function of the motion side leaves the flags and the safety record
   alone and only lowers the output or passes the driver's check (`Kept`, a
   transitive relation: `SampleKept`, `MotionUpdateKept`, `HomingUpdateKept`, ...);
2. every function of the safety side ends in `Enforce`, which re-establishes the
   agreement provided an active switch is accounted for (`EnforceGood`), and an
   evaluation leaves it accounted for: with nothing latched, a seek is published
   or the allowance stands (`EvaluateFacts`, which follows `safety_evaluate`
   step by step);
3. RESET, the one operation that opens the gate by hand, does so only when the
   evaluation of its own section found health and no active input
   (`CommandResetGood`).

**Argument, latch.**  `Upholds` relates two safety records when a latch was kept or
raised and the first fault retained; it is reflexive and transitive.  Every function of
the safety manager and of the adapter is `Firm`: it keeps the invariant's part (`Good`)
and upholds the latch.  The one exception is the accepted branch of RESET, which is
`Released`: it was taken with the cause gone and the drive at zero.  An action of the
loop is a composition of such functions, so each step is a change of drive with nothing
latched, a trip, a reset to a standstill, or a stutter of `SafetyLatch`.

**Argument, operations.**  `LoopInv` adds to `GateInv` that the world is `Fit`.  `Owned`:
a drive belongs to MOVING or HOMING, and in HOMING it is the homing duty.  `Earned`: an
allowance stands only in IDLE with valid inputs and the switch seen, after a counted HOME.
The allowance is granted by Motion's publication on the strength of the result COMPLETE
alone, so `Earned` must also say that this result implies a reference, which is what the
property itself does not say.  Every section but the
control update is `Sound`: it keeps both, counts no outcome, and leaves the output as it
was or zero; this composes, which is what carries it through a whole section with its
synchronisations and a trip in between.  For the update the cases of `homing_update` and of the
move's dwell are followed to the counter they raise, and the safety evaluation ahead of
them, in the same section, supplies the switch and the absence of a latch.

**Argument, command path.**  `NoSleepOnInput` needs one more fact, `SleepsOnNotice`:
during its one-tick rest Communications has its own notification pending, so that
nothing that happens in the rest can leave it without one.  An interrupt that finds
the queue full gives no notification; it finds the queue not empty, so the wake-up
it relies on is already due.  `CountersAgree` is inductive over the type invariant.
`WaitBounded` follows from `Progress`: for the command at place `i` of the bus,
`waited * CommandsPerCycle + i` is at most the capacity plus what is left of Motion's
budget.  A release adds a cycle to each and refills the budget, a receipt moves every
command one place forward and takes one from the budget, and a cycle ends early only
with an empty bus.  For the firmware's 8 places and 2 commands a cycle a queued ESTOP
is taken in its fourth cycle at the latest.

**Argument, pipe.**  `Way`, the concatenation of what Motion holds, the bus, what
Communications holds and the receive queue, is the abstract pipe.  An arrival extends
its end as far as there is room, an answer takes its head, a refused frame or a full bus
takes one frame out of the middle (`WithoutOne`) and adds one to a loss counter; every
other action moves a frame between two neighbours and leaves `Way` as it is.

**Argument, acknowledgements.**  Frames are numbered as they arrive.  `Numbered` says
that what the bus admitted came before what Communications holds, and that before what
is queued; a command that is sent therefore has a number the bus never saw, and
`Reported` follows: exactly the admitted commands are acknowledged, except the one whose
acknowledgement Communications still owes.  `MarkHolds` says that the high-water
mark is never below the level of the bus, so that it rises only to a level just reached.

**Argument, reports.**  `Accounts` sets the records made equal to those queued, taken,
dropped, and refused but not yet counted; `Counted` says that a snapshot in use was
taken with none of the last sort, which the priorities of the tasks guarantee, and
`Covers` that each record within a snapshot's mark is still within reach of the drain
that follows.  `Coherent` ties the lines of a group to one snapshot.  `Paired` says that
while Safety owes the name of a fault nobody else touches the queue, so that the text is
the newest record when the name is added, or there is no room for it.

**Argument, task runtime.**  `RuntimeInv` has five parts.  `Handshake` says who has been
notified in each of the three modes (stepped, winding down, periodic).  `StepsAreWhole`
needs it and the priorities: a task that has been released is ready, so it preempts the
harness, so by the time the harness moves, by an answer or by its timeout, the cycle is
over and the answer is there.  The timeout may therefore have any length, zero included.
`Pace` bounds the time to each release by the task's period.  `Beats` gives each critical task a
sum that a tick does not raise above its bound (the age of its last beat, the time to its release and
the ticks that fell into work), with the bound of `TimingAssumption`: no false alarm.
`Supervision` bounds the age of a beat while the drive is on, by platform time when Safety is stepped and else by
both Safety's next release and the watchdog's counter, whichever ends first when Safety
hangs.  `Parking` contains `Patience`: the looks of the harness count
ticks, and each tick takes one from what every task that is not parked may still wait or
work, so that none is left when the looks are used up.

`Patience` and `Beats` are where strict priority matters: a task that is due keeps the harness, and with it the
next look, from running.

**Argument, reception.**  `LinesArrive` compares the frames with the lines of the whole
input, which no action of the handler can see.  `LineInv` adds `Remembered`: what the
handler holds is the line behind the last delimiter, as far as it fits; it discards
exactly when that line is spoiled, and waits for the second half of a pair exactly after a
CR.  The exception is `BrokenPair`, the case of the finding `error_pair`.  Each path
through the handler then extends the input by a byte, and the lines of the longer input by
what that byte ends.

**Argument, parsing.**  `WordAround` and `WordsDisjoint` make the words of `Meaning` maximal runs
without a space, and `ScanFirst`, `ScanRest` and `ScanOthers` place the pointers of the
scanner at their ends.  `Number` is followed by induction over the digits: the value so far is
the numeral read so far (`Worth`), and the test before each multiplication, which must not
overflow itself, is exactly the question whether the next value leaves the range.

**Argument, printing.**  `Decimal` exists for every natural number, because each number needs
only finitely many divisions; `NumeralsAreRead` inverts it digit by digit, the least
integer included, whose magnitude the type does not hold.

**Argument, axis.**  `AxisInv` has five parts: the axis is on its travel (`OnTravel`), its
record is well typed and a dwell that runs has cycles left (`Sound`), nobody but the
controller drives outside the bench (`InCharge`), the register shows the axis and the last
sample what the register showed then (`Measured`), and the driver's clock is within its
patience and what it rested (`Paced`).  Every function of the
controller is `Kept` (it leaves plant, register and reference alone) or `Referenced` (the
reference that homing sets at the switch), and the cycle composes them.  The estimate
then is arithmetic modulo the register: two counts on a travel shorter than half of it
differ by what the signed reading of their difference says.

**Argument, stall.**  `StuckInv` follows a failure cycle by cycle.  The register stands still
(`RegisterStands`), so the velocity is zero from the first sample on; the position stands
still as well, so the derivative is silent and the duty is proportional and integral alone.
The integral may have been wound against the error, and gains at least 100 of its 5000 a
cycle (`Winding`); after 50 cycles at the latest an error of 50 counts asks for the duty
that qualifies.  From then on every function that Safety or Motion call either ends the
operation or leaves the candidate open (`Noticed`, `Pursues`), so its age grows with that of
the failure, while Safety lets no candidate pass that is older than the timeout
(`Capped`).  After 103 cycles the two contradict each other.

The argument found the bound: the 50 cycles of the timeout and the observation around them
are not all that a stalled move takes if its integral has to unwind first.

**Argument, no false stall.**  The converse is the harder half: a working axis may show
no count of movement under a qualifying duty for some time, at the start, in a reversal or
between two counts, but not for 500 ms.  Safety looks every other cycle, so the
proof follows the looks.  It turns the axis so that the duty points forward (`Turn`), and keeps
for each look in a row that finds no movement what must be true by then (`LookRung`): the axis
has at least the speed `Speeds[j]` and is at least at the place `Places[j]` between two counts
(`Climbs`), or it is at the stop ahead (`NearStop`).  From one look to the next there are two cycles: a
push under the qualifying duty in which the count may move, of which `Gathers` says what the
ten plant steps add to speed and place, damping and rounding included, and a cycle in which it
does not, under what the PID makes of the count (`Meets`).  If one count
passes between two looks, or none, the axis gains a rung (`PairGains`, `NextRung`).  Two counts need a
speed of 90 counts/s, and the derivative then brakes: each such pair of cycles costs duty
(`Doomed`, `Spent`).  The table has 21 rungs; behind the last one only two counts are left to the
axis, and the duty pays for them four times at the most.  That makes 25 looks in a row, and a
candidate needs 26 to be 500 ms old.

Around the ladder: a look without movement finds the axis calm (`CalmAfter`), because the
position of a faster one would have changed by more than a count, so the first rung needs no history.
Near the stop ahead the push ends there (`RideCloses`), where the switch ends the operation
instead, as a limit or as home.  An axis that departs from the home switch has left
it a cycle later (`ContactEnds`), so that the second look Safety takes inside Motion's section
never finds a candidate.  And a candidate does not outlive the operation it began with
(`RestCycle`): the next command is issued when it is gone.

**Argument, seek.**  `Ahead`, 996 times the velocity plus 4000 times the position above the
switch, is what a plant step at the seek's duty lowers by the same `Approach`, whatever the
velocity: the damping a step takes from the velocity is what the step adds to the way.  So
`TravelInv` needs no knowledge of the speed a seek begins with: `Nearing` says that `Ahead`
has fallen by ten approaches for each counted cycle, rounding included, until the switch is reached, and a seek at
the switch ends in its next cycle.  40 s of approaches are worth 5600 counts, from
any speed the plant allows, which is `SeekCovers`; the documented travel is 5000.

**Argument, switches.**  A seek that meets the positive switch meets Safety's look at it
first, because `runtime_control_update` runs one whenever a switch is active; `homing_update`'s own
`INTERNAL` is never reached, which is `SwitchIsSafetys`.  `Guarded` says of an axis under the home
contact's allowance that it is at the switch and never in a seek; while it is MOVING its target lies
ahead, its integral is not negative and its duty pushes off.  Only the derivative could pull
back, and it is silent while the axis rests at the switch; once the axis is off it, the look at the
switch that Motion's own section begins with ends the allowance.

**Model-checked only.**  What TLC checks on the instances above and no theorem states:

* *Liveness*: `SeekEnds`, `EstopReachesMotion`, `StopSettles`, `FramesEnd`, `HangIsReset` and
  `SendsFinish`.  Fairness and `ENABLED` are out of the prover's reach.
* *The numbers of a run*: `MovesEndWell` and `FiguresHold` depend on where the recurrences of plant
  and PID lead in some hundred cycles with the gains as they are; there is no smaller
  reason why they hold.

The induction theorems of the library take an operator as a parameter, which the installed
provers cannot instantiate.  Where a proof needs induction, `Induct` (over a set of
naturals that contains zero and successors, from the library's theorem on least elements)
takes their place, and recursion is written as recursive functions, whose existence is
proved where it is used (`StepsExist`).

## 6. Findings

| Run | What the code does |
| --- | --- |
| `early_timeout` | HOME is stamped later than its cycle's own timestamp; a tick in between makes the elapsed time wrap and the seek time out at once, against `docs/homing.md:45-46` |
| `outcomes` | a seek ended by STOP and interrupted before it settles is counted twice in `aborted_moves`, against `docs/safety.md:53` |
| `error_pair` | after CR, a byte with an error flag and LF, the LF is swallowed as half of a pair and the discard flag outlives it: the next, intact line is thrown away uncounted, against `docs/stm32-port.md:35` |

More places where the code and a document differ, or a document says less than the
whole, without a run of their own:

* A home switch that bounces open between Safety's evaluation and Motion's own reading
  leaves a seek whose duty the gate refuses; `homing.c:49` turns that into an INTERNAL
  fault with valid inputs, while `docs/safety.md:167` lists invalid feedback, arithmetic and
  failed GPIO access as what becomes one.  Safe, since the gate is
  shut, but no RESET clears it.
* `safety_manager.c:37` computes the startup grace as an unsigned difference to the start, so
  it reopens for 200 ms each time the millisecond counter wraps, after 49.7 days;
  `docs/real-time-design.md:100` has missing health latch after the startup grace, without exception.  Meanwhile health is enforced by the
  inhibit alone (`LatchHoldsGate`), without a latched fault.
* `safety_runtime.c:23` stamps `zero_ms` again on every enforcement when `detection_ms`
  came from the older timestamp of a Motion cycle.  Only printed evidence reads it.
* A stuck move whose error is below 50 counts asks for less than the 0.30 duty that
  qualifies as a stall, so it neither completes nor faults; `StuckIsCaught` says exactly
  that much, as `docs/safety.md:99-103` does.
* A STOP within some 37 counts of the home switch coasts into it and ends in a
  NEGATIVE_LIMIT fault, the one exception `NormalMotionIsNoFault` makes, for the reason
  `docs/safety.md:88-90` gives.

* `docs/real-time-design.md:132-133` puts `ACK QUEUED` before Motion's answer.
  Communications reports after the critical section of the bus, so Motion may answer
  first; `AcksAreTrue` states what does hold.
* `docs/safety.md:82-83` has the full gate inhibited while IDLE at the home switch.  A
  departure that ends with the switch still active is published IDLE with the gate
  open until the next evaluation; the output is zero and `NoDriveIntoContact` holds.

## 7. Not modelled

* **Simulator**: the scenario scripts that only check refusals, recovery sequences and
  the limit and watchdog scripts, whose questions `ControlLoop` and `TaskRuntime` ask of
  every interleaving; `validate()` of the configuration; the reports the runners print.
* **Target**: register set-up in `platform/stm32`, clock tree, linker script and start-up.
* **Text**: wording of the messages and `%g`; only whole names, decimal integers and the
  length of a line have properties.
* **Vendored kernel**: represented by its priorities, notifications, delays, critical
  sections and tick.
* **Arguments that integers do not have**: the rejection of NaN and infinities in `pid.c`
  and `motor.c`.

What a continuation would add, in this order: the steps between the parts as theorems (a
frame of `UartFraming` is a line `LineProtocol` parses; the heartbeats of `TaskRuntime` are a
behaviour of those `ControlLoop` takes from its environment); a bound on the coast after a
completed move for every gain, which `MovesEndWell` shows for the gains as they are; the
recovery scripts of the simulator.
