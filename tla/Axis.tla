-------------------------------- MODULE Axis --------------------------------
(***************************************************************************)
(* The closed loop with its real numbers: the plant of the simulator, the  *)
(* encoder's register, the estimator, the PID, the completion dwell, the   *)
(* homing seek and the two supervisions a healthy axis could trip over     *)
(* (travel limits, no motion), driven by the scenarios of                  *)
(* closed_loop_main.c and plant_main.c.  One step is one motion cycle: ten *)
(* plant steps of 1 ms, Safety on every other cycle, then Motion.          *)
(*                                                                         *)
(* Numbers are integers: lengths in 1e-5 units and duties in 1e-6 of full  *)
(* scale, rounded where the program rounds a float; an encoder register    *)
(* has Word values instead of 2^32.  The motor gate, RESET and E-stop are  *)
(* ControlLoop's; here a fault ends the scenario.                          *)
(***************************************************************************)
EXTENDS Integers, Sequences

CONSTANTS
  Scenarios,      \* sequence of scenarios: a plant's travel, its start, a plan
  Word,           \* values of the encoder register
  StopEvery,      \* bound: a STOP comes at an age that is a multiple of it
  BreakEvery,     \* bound: so does a mechanical or encoder failure
  Patience,       \* bound: cycles counted after a failure
  PostCycles,     \* POST_CYCLES observed after a command has ended
  MaxMoveCycles   \* MAX_MOVE_CYCLES the driver waits for a move

ASSUME AxisAssumption ==
  /\ Word \in Nat \ {0} /\ Word % 2 = 0 /\ StopEvery \in Nat \ {0} /\ BreakEvery \in Nat \ {0}
  /\ Patience \in Nat /\ PostCycles \in Nat /\ PostCycles > 2 /\ MaxMoveCycles \in Nat

\* What a driver may ask for, on an axis that travels from low to high.
PlanSteps(low, high) ==
  [type : {"MOVE", "MOVE_REL", "HOME"}, value : Int]
    \cup [type : {"DRIVE"}, value : Int, steps : Nat \ {0}]
    \cup [type : {"PLACE"}, value : low .. high]

\* The travel is less than half the register, or a count would be ambiguous:
\* 5000 of 2^32 in the firmware.
ASSUME ScenarioAssumption ==
  \A i \in DOMAIN Scenarios :
    LET s == Scenarios[i]
    IN  /\ {s.min, s.max, s.start, s.shown} \subseteq Int
        /\ s.min <= s.start /\ s.start <= s.max /\ s.max - s.min < Word \div 2
        /\ s.plan \in Seq(PlanSteps(s.min, s.max))

VARIABLES
  scenario,  \* which of Scenarios is played
  plan,      \* commands and bench segments still to come
  axis,      \* plant, encoder, motor and controller
  broken,    \* the plant's stalled and encoder_frozen flags
  since,     \* cycles since then, up to Patience
  command,   \* the last command issued
  metrics,   \* control_metrics_t of the running command
  rest,      \* cycles since the one that ended the last command
  log        \* what each ended command showed

vars == <<scenario, plan, axis, broken, since, command, metrics, rest, log>>

Abs(n) == IF n < 0 THEN -n ELSE n

\* Mutant: nothing is bounded from above.
ClampBelow(n, low, high) == IF n < low THEN low ELSE n

Clamp(n, low, high) == IF n < low THEN low ELSE IF n > high THEN high ELSE n

\* Nearest integer to n/d, halves away from zero.
Round(n, d) == IF n >= 0 THEN (2 * n + d) \div (2 * d) ELSE -((2 * (-n) + d) \div (2 * d))

----------------------------------------------------------------------------
(***************************************************************************)
(* The plant.                                                              *)
(***************************************************************************)
Unit == 100000
MaxVelocity == 600 * Unit
StepsPerCycle == 10

\* 2000 units/s^2 at full duty and a damping of 4 per second, for one step.
Accelerated(velocity, duty) ==
  Clamp(velocity + Round(200 * duty - 4 * velocity, 1000), -MaxVelocity, MaxVelocity)

StopAtEnds(plant) ==
  LET atMin == plant.position <= plant.min
      atMax == plant.position >= plant.max
  IN  [plant EXCEPT !.position = Clamp(@, plant.min, plant.max),
                    !.velocity = IF (atMin /\ @ < 0) \/ (atMax /\ @ > 0) THEN 0 ELSE @]

PlantStep(plant, duty) ==
  LET velocity == Accelerated(plant.velocity, duty)
  IN  StopAtEnds(IF broken = "STALLED" THEN [plant EXCEPT !.velocity = 0]
                 ELSE [plant EXCEPT !.velocity = velocity,
                                    !.position = @ + Round(velocity, 1000)])

\* count steps at one duty.
PlantSteps(plant, duty, count) ==
  LET after[i \in 0 .. count] == IF i = 0 THEN plant ELSE PlantStep(after[i - 1], duty)
  IN  after[count]

\* derive_peripherals: the true count and the two switches.
TrueCount(plant) == Round(plant.position, Unit)
AtMin(plant) == plant.position <= plant.min
AtMax(plant) == plant.position >= plant.max

\* publish: the register, unless the encoder is frozen.
Published(register, plant) == IF broken = "FROZEN" THEN register ELSE TrueCount(plant) % Word

----------------------------------------------------------------------------
(***************************************************************************)
(* Encoder and estimator.                                                  *)
(***************************************************************************)
\* Mutant: the register is read as unsigned.
Unsigned(bits) == bits

Signed(bits) == IF bits < Word \div 2 THEN bits ELSE bits - Word

GetCount(a) == Signed((a.register + a.offset) % Word)

\* Mutant: the difference is taken the wrong way round.
SetReferenceReversed(a, count) == [a EXCEPT !.offset = (a.register - count) % Word]

SetReference(a, count) == [a EXCEPT !.offset = (count - a.register) % Word]

\* motion_sample; velocity is in counts per cycle of 10 ms.  Half the range
\* between two samples, which fails, is out of this plant's reach.
Sample(a) ==
  LET count == GetCount(a)
      delta == Signed((count - a.previous) % Word)
  IN  [a EXCEPT !.velocity = IF a.sampled THEN delta ELSE 0, !.previous = count,
                !.position = count, !.sampled = TRUE]

----------------------------------------------------------------------------
(***************************************************************************)
(* PID and motion controller, with motion_default_config.                  *)
(***************************************************************************)
Tolerance == 3
DwellCycles == 20
MaxDuty == 800000
MaxIntegral == 5000
MinTarget == 0
MaxTarget == 5000

PidReset(a) == [a EXCEPT !.integral = 0, !.measured = 0, !.seeded = FALSE]

\* Mutant: the derivative acts with the wrong sign.
DerivativeReversed(a) == IF a.seeded THEN 150000 * (a.position - a.measured) ELSE 0

\* Kd on the measurement.
Derivative(a) == IF a.seeded THEN -150000 * (a.position - a.measured) ELSE 0

\* pid_update and motor_set_output.
Drive(a) ==
  LET error    == a.target - a.position
      integral == Clamp(a.integral + 2 * error, -MaxIntegral, MaxIntegral)
  IN  [a EXCEPT !.duty = Clamp(6000 * error + integral + Derivative(a), -MaxDuty, MaxDuty),
                !.integral = integral, !.measured = a.position, !.seeded = TRUE]

Parked(a) == [a EXCEPT !.duty = 0]

\* 25 counts/s, a quarter of a count per cycle.
Slow(a) == Abs(a.velocity) * 100 <= 25

InBand(a) == Slow(a) /\ (a.state = "STOPPING" \/ Abs(a.target - a.position) <= Tolerance)

\* The completion dwell of motion_update.
Dwelt(a) ==
  LET stable == IF InBand(a) THEN a.stable + 1 ELSE 0
  IN  IF a.state \notin {"MOVING", "STOPPING"} THEN a
      ELSE IF stable >= DwellCycles
           THEN [PidReset(a) EXCEPT !.stable = stable, !.state = "IDLE"]
           ELSE [a EXCEPT !.stable = stable]

MotionUpdate(a) ==
  LET dwelt == Dwelt(a)
  IN  IF dwelt.state = "MOVING" THEN Drive(dwelt) ELSE Parked(dwelt)

\* Mutant: a new move starts from a measurement of zero.
MoveUnseeded(a, target) ==
  [PidReset(Parked(a)) EXCEPT !.target = target, !.state = "MOVING", !.stable = 0,
                              !.seeded = TRUE]

\* An accepted MOVE: the measurement is seeded, against a derivative kick.
Move(a, target) ==
  [PidReset(Parked(a)) EXCEPT !.target = target, !.state = "MOVING", !.stable = 0,
                              !.measured = a.position, !.seeded = TRUE]

\* clear_control.
ClearControl(a) == [PidReset(Parked(a)) EXCEPT !.target = a.position, !.stable = 0]

----------------------------------------------------------------------------
(***************************************************************************)
(* The homing seek and what Safety supervises of a healthy axis.           *)
(***************************************************************************)
HomingDuty == -300000
HomingTimeout == 4000  \* cycles
StallDuty == 300000
StallTimeout == 50     \* cycles

\* The latch and the inhibit; Motion takes the state over when it next syncs.
Tripped(a, fault) == [Parked(a) EXCEPT !.fault = fault, !.homeContact = FALSE]

Synced(a) == IF a.fault = "NONE" THEN a ELSE [ClearControl(a) EXCEPT !.state = "FAULT"]

\* homing_update, seek cycles after the seek began.
HomingUpdate(a) ==
  IF AtMax(a.plant) THEN Synced(Tripped(a, "INTERNAL"))
  ELSE IF a.seek >= HomingTimeout THEN Synced(Tripped(a, "HOMING_TIMEOUT"))
  ELSE IF AtMin(a.plant)
       THEN [SetReference(ClearControl(a), 0) EXCEPT
               !.position = 0, !.target = 0, !.previous = 0, !.velocity = 0, !.sampled = FALSE,
               !.state = "IDLE", !.homeContact = TRUE, !.homed = TRUE]
       ELSE [a EXCEPT !.duty = HomingDuty, !.seek = @ + 1]

\* Mutants: the bound itself does not count; a moving axis counts as well.
ResistingStrictly(a) ==
  a.state \in {"MOVING", "HOMING"} /\ Abs(a.duty) > StallDuty /\ Slow(a)

ResistingAnyway(a) == a.state \in {"MOVING", "HOMING"} /\ Abs(a.duty) >= StallDuty

\* Duty enough to move, and no movement.
Resisting(a) == a.state \in {"MOVING", "HOMING"} /\ Abs(a.duty) >= StallDuty /\ Slow(a)

UnexpectedContact(a) ==
  LET contact == a.homeContact /\ AtMin(a.plant)
      parked  == a.state \in {"IDLE", "STOPPING"} /\ a.duty = 0
      leaving == a.state = "MOVING" /\ a.target > GetCount(a) /\ a.duty >= 0
  IN  AtMin(a.plant) /\ a.state # "HOMING" /\ ~(contact /\ (parked \/ leaving))

\* safety_evaluate and the latch.  still is 0 without a candidate, else one more
\* than the cycles since it began.
Safety(a) ==
  LET resists == Resisting(a) /\ ~(a.state = "HOMING" /\ AtMin(a.plant))
      watched == [a EXCEPT !.still = IF ~resists THEN 0 ELSE IF @ = 0 THEN 1 ELSE @,
                           !.homeContact = @ /\ AtMin(a.plant)]
  IN  CASE a.fault # "NONE" -> a
        [] a.fault = "NONE" /\ AtMax(a.plant) -> Tripped(watched, "POSITIVE_LIMIT")
        [] a.fault = "NONE" /\ ~AtMax(a.plant) /\ UnexpectedContact(a) ->
             Tripped(watched, "NEGATIVE_LIMIT")
        [] a.fault = "NONE" /\ ~AtMax(a.plant) /\ ~UnexpectedContact(a) ->
             IF watched.still > StallTimeout THEN Tripped(watched, "NO_MOTION") ELSE watched

Checked(a) == Synced(Safety(a))

----------------------------------------------------------------------------
(***************************************************************************)
(* One cycle, and the driver's plan.                                       *)
(***************************************************************************)
Physics(a) ==
  LET plant == PlantSteps(a.plant, a.duty, StepsPerCycle)
  IN  [a EXCEPT !.plant = plant, !.register = Published(@, plant), !.even = ~@,
               !.still = IF @ > 0 /\ a.fault = "NONE" THEN @ + 1 ELSE @]

Supervised(a) == IF a.even THEN Safety(a) ELSE a

Target(a, next) ==
  IF next.type = "MOVE_REL" THEN a.position + next.value ELSE next.value

\* motion_command and homing_begin for what the plans hold; while the switch
\* is guarded only a forward move is taken.
MotionCommand(a, next) ==
  LET target == Target(a, next)
  IN  CASE next.type \in {"MOVE", "MOVE_REL"} ->
             IF /\ a.state = "IDLE" /\ target \in MinTarget .. MaxTarget
                /\ a.homeContact => target > a.position
             THEN (IF a.homeContact THEN Checked(Move(a, target)) ELSE Move(a, target)) ELSE a
        [] next.type = "HOME" ->
             IF a.state = "IDLE"
             THEN Checked([ClearControl(a) EXCEPT !.state = "HOMING", !.seek = 0, !.homed = FALSE])
             ELSE a
        [] next.type = "STOP" ->
             IF a.state = "HOMING" THEN [ClearControl(a) EXCEPT !.state = "STOPPING"]
             ELSE IF a.state = "MOVING"
                  THEN [PidReset(Parked(a)) EXCEPT !.state = "STOPPING", !.stable = 0] ELSE a
        [] OTHER -> a

\* runtime_control_update: Safety looks again at a switch Motion has to do with.
ControlUpdate(a) ==
  IF a.state # "HOMING" THEN MotionUpdate(IF a.homeContact THEN Checked(a) ELSE a)
  ELSE IF ~AtMin(a.plant) /\ ~AtMax(a.plant) THEN HomingUpdate(a)
  ELSE IF Checked(a).fault # "NONE" THEN Checked(a) ELSE HomingUpdate(Checked(a))

Motion(a, next) == ControlUpdate(MotionCommand(Synced(Sample(a)), next))

Cycled(next) == Motion(Supervised(Physics(axis)), next)

NoCommand == [type |-> "NONE", value |-> 0]

Ended(a) == a.state \in {"IDLE", "FAULT"}

NewMetrics(start, target) ==
  [start |-> start, target |-> target, over |-> 0, band |-> FALSE, settling |-> 0,
   completion |-> 0, age |-> 0, done |-> FALSE, held |-> start, ended |-> FALSE]

Beyond(r, position) ==
  IF r.target > r.start THEN position - r.target
  ELSE IF r.target < r.start THEN r.target - position ELSE 0

\* control_metrics_sample, and where the command ended; times in cycles.
Sampled(r, a, age) ==
  LET band == Abs(a.position - r.target) <= Tolerance /\ Slow(a)
      over == Beyond(r, a.position)
  IN  [r EXCEPT !.age = age, !.over = IF over > @ THEN over ELSE @, !.band = band,
                !.settling = IF band /\ ~r.band THEN age ELSE @,
                !.completion = IF ~r.done /\ a.state = "IDLE" THEN age ELSE @,
                !.done = @ \/ a.state = "IDLE",
                !.held = IF r.ended THEN @ ELSE a.position, !.ended = @ \/ Ended(a)]

\* What the run report says of a command that ended.
Observed ==
  [what |-> command, state |-> axis'.state, logical |-> axis'.position, held |-> metrics'.held,
   raw |-> TrueCount(axis'.plant), over |-> metrics'.over, seek |-> axis'.seek * 10,
   completion |-> metrics'.completion * 10, settling |-> metrics'.settling * 10]

Running == ~Ended(axis)

\* One motion cycle in which Motion receives next.
Advance(next) ==
  /\ axis' = Cycled(next)
  /\ command' = IF next = NoCommand THEN command ELSE next.type
  /\ rest' = IF Ended(axis') /\ Ended(axis) /\ next = NoCommand THEN rest + 1 ELSE 0
  /\ metrics' = IF next.type \in {"MOVE", "MOVE_REL", "HOME"}
                THEN Sampled(NewMetrics(axis.position, axis'.target), axis', 0)
                ELSE Sampled(metrics, axis', metrics.age + 1)
  /\ log' = IF rest' = PostCycles /\ command # "NONE" THEN Append(log, Observed) ELSE log

\* The driver waits for the end of its command and a little longer.
AgeLimit == IF command \in {"MOVE", "MOVE_REL"} THEN MaxMoveCycles ELSE HomingTimeout + MaxMoveCycles

Waiting == rest < PostCycles /\ (Running => metrics.age < AgeLimit)

Wait ==
  /\ Waiting
  /\ Advance(NoCommand)
  /\ since' = IF broken # "NONE" /\ since < Patience THEN since + 1 ELSE since
  /\ UNCHANGED <<scenario, plan, broken>>

\* move() and start_home(): the next command of the plan.
Issue ==
  /\ rest = PostCycles /\ plan # <<>> /\ Head(plan).type \in {"MOVE", "MOVE_REL", "HOME"}
  /\ axis.state = "IDLE" /\ broken = "NONE"
  /\ Advance(Head(plan)) /\ plan' = Tail(plan)
  /\ UNCHANGED <<scenario, broken, since>>

\* stop_scenario() and homing_interruption(), at any age but once; a seek that
\* was stopped is started again afterwards.
Stop ==
  /\ axis.state \in {"MOVING", "HOMING"} /\ Waiting
  /\ metrics.age % StopEvery = 0 /\ broken = "NONE"
  /\ command # "STOP" /\ \A i \in DOMAIN log : log[i].what # "STOP"
  /\ Advance([type |-> "STOP", value |-> 0])
  /\ plan' = IF command = "HOME" THEN <<[type |-> "HOME", value |-> 0]>> \o plan ELSE plan
  /\ UNCHANGED <<scenario, broken, since>>

\* no_motion_scenario() and homing_interruption(): mechanics or encoder fail.
Break(kind) ==
  /\ axis.state \in {"MOVING", "HOMING"} /\ metrics.age % BreakEvery = 0 /\ broken = "NONE"
  /\ broken' = kind
  /\ UNCHANGED <<scenario, plan, axis, command, metrics, rest, since, log>>

\* run_segment() of the bench: up to ten steps at a duty, with no controller.
Bench ==
  LET segment == Head(plan)
      count   == IF segment.steps < StepsPerCycle THEN segment.steps ELSE StepsPerCycle
      plant   == PlantSteps(axis.plant, segment.value, count)
      last    == segment.steps = count
  IN  /\ plan # <<>> /\ segment.type = "DRIVE"
      /\ axis' = [axis EXCEPT !.plant = plant, !.register = Published(@, plant),
                              !.duty = segment.value]
      /\ plan' = IF last THEN Tail(plan) ELSE [plan EXCEPT ![1].steps = @ - count]
      /\ log' = IF last
                THEN Append(log, [what |-> "DRIVE", raw |-> TrueCount(plant),
                                  tenths |-> Round(plant.position, Unit \div 10),
                                  speed |-> Round(plant.velocity, Unit \div 10),
                                  atMin |-> AtMin(plant), atMax |-> AtMax(plant)])
                ELSE log
      /\ UNCHANGED <<scenario, broken, since, command, metrics, rest>>

\* plant_reset(): the bench puts the axis somewhere, at rest.
Place ==
  /\ plan # <<>> /\ Head(plan).type = "PLACE"
  /\ axis' = LET plant == [axis.plant EXCEPT !.position = Head(plan).value * Unit, !.velocity = 0]
             IN  [Parked(axis) EXCEPT !.plant = plant, !.register = Published(@, plant)]
  /\ plan' = Tail(plan)
  /\ UNCHANGED <<scenario, broken, since, command, metrics, rest, log>>

\* plant_init, runtime_init and, for homing-reference, a reference of its own.
Start(s) ==
  LET plant == [position |-> s.start * Unit, velocity |-> 0, min |-> s.min * Unit, max |-> s.max * Unit]
      raw   == [plant |-> plant, register |-> TrueCount(plant) % Word, offset |-> 0, duty |-> 0,
                state |-> "IDLE", fault |-> "NONE", position |-> 0, previous |-> 0, velocity |-> 0,
                sampled |-> FALSE, target |-> 0, stable |-> 0, integral |-> 0, measured |-> 0,
                seeded |-> FALSE, seek |-> 0, homed |-> FALSE, homeContact |-> FALSE, still |-> 0,
                even |-> TRUE]
  IN  SetReference(raw, s.shown)

Init ==
  /\ scenario \in DOMAIN Scenarios
  /\ plan = Scenarios[scenario].plan
  /\ axis = Start(Scenarios[scenario])
  /\ broken = "NONE" /\ since = 0
  /\ command = "NONE" /\ metrics = NewMetrics(0, 0)
  /\ rest = PostCycles - 2  \* run() begins with two cycles
  /\ log = <<>>

\* plant_main.c runs no firmware.
OnBench == Head(Scenarios[scenario].plan).type \in {"DRIVE", "PLACE"}

Next ==
  IF OnBench THEN Bench \/ Place
  ELSE Wait \/ Issue \/ Stop \/ (\E kind \in {"STALLED", "FROZEN"} : Break(kind))

Spec == Init /\ [][Next]_vars

----------------------------------------------------------------------------
AxisStates == {"IDLE", "MOVING", "STOPPING", "HOMING", "FAULT"}

TypeOK ==
  /\ axis.plant.position \in axis.plant.min .. axis.plant.max
  /\ axis.plant.velocity \in -MaxVelocity .. MaxVelocity
  /\ axis.register \in 0 .. Word - 1 /\ axis.offset \in 0 .. Word - 1
  /\ axis.state \in AxisStates /\ axis.stable \in 0 .. DwellCycles
  /\ axis.integral \in -MaxIntegral .. MaxIntegral
  /\ command # "NONE" => axis.duty \in -MaxDuty .. MaxDuty
  /\ broken \in {"NONE", "STALLED", "FROZEN"} /\ since \in 0 .. Patience
  /\ rest \in 0 .. PostCycles /\ metrics.age \in 0 .. AgeLimit + PostCycles

\* motion_controller.c:50-56 and encoder_host.c:24, 33.  As long as the encoder
\* works, the velocity estimate is the axis' true displacement over the last
\* cycle, whatever the register, its reference and their wraps; the sample after
\* a homing, between two references, shows none.
EstimatorIsTrue ==
  LET moved == TrueCount(axis'.plant) - TrueCount(axis.plant)
  IN  broken = "NONE" /\ axis.sampled /\ axis'.sampled /\ command' # "NONE"
        => axis'.velocity = moved

\* A homed axis knows where it is: the count it reports is its distance from the
\* negative switch.
ReferenceIsTrue ==
  axis.homed /\ broken = "NONE" => GetCount(axis) = TrueCount(axis.plant) - Round(axis.plant.min, Unit)

\* Neither a wrap nor a new reference shifts what the estimator says.
EstimateIsTrue == [][ReferenceIsTrue' /\ EstimatorIsTrue]_axis

\* safety.md:99-103 and homing.md:123-128.  A stall or a frozen encoder ends a
\* seek, and a move whose error alone asks for the qualifying duty, within the
\* 500 ms and what the observation and an integral wound the other way take.
StuckIsCaught ==
  since >= Patience =>
    /\ axis.state # "HOMING"
    /\ axis.state = "MOVING" => 6000 * Abs(axis.target - axis.position) < StallDuty

\* No count of the travel is beyond the register's: 5000 of 2^31.
HasRoom ==
  LET s == Scenarios[scenario]
  IN  -(Word \div 2) < s.shown - (s.start - s.min) /\ s.shown + (s.max - s.start) < Word \div 2

\* safety.md:106-110 and safety_manager.c:42-44.  No stall is seen of an axis that works,
\* in acceleration, braking, reversal or at the end of its travel.
NoFalseStall == broken = "NONE" /\ HasRoom => axis.fault # "NO_MOTION"

\* homing.md:37-42: 40 s at -0.3 leave margin for 5000 counts.  Whatever its speed
\* when it begins, a seek covers this travel in time.
SeekCovers == 5600
WithinReach == Scenarios[scenario].max - Scenarios[scenario].min <= SeekCovers

SeekIsInTime == broken = "NONE" /\ WithinReach => axis.fault # "HOMING_TIMEOUT"

\* homing.c:32 and safety_runtime.c:107-132.  The positive switch is Safety's: it
\* latches POSITIVE_LIMIT before the seek would report an error of its own.
SwitchIsSafetys == axis.fault # "INTERNAL"

\* safety_manager.c:31-36.  A departure never pulls back at the home switch.
DeparturePushesOff == axis.homeContact /\ axis.state = "MOVING" => axis.duty >= 0

\* What Safety supervises of an axis: a failure that holds it is seen and none is
\* seen that is not there, a seek that works is not given up, and the switches at the
\* two ends are told apart.
SupervisionIsRight ==
  StuckIsCaught /\ NoFalseStall /\ SeekIsInTime /\ SwitchIsSafetys /\ DeparturePushesOff

\* No command of a plan runs into a switch or outlasts the driver's patience.  Only
\* the coast after a STOP may reach a switch (safety.md:88-90).
NormalMotionIsNoFault ==
  broken = "NONE" /\ WithinReach =>
    /\ axis.fault \in {"POSITIVE_LIMIT", "NEGATIVE_LIMIT"}
         => command = "STOP" /\ axis.fault = "NEGATIVE_LIMIT"
    /\ Running => metrics.age < AgeLimit

\* closed_loop_main.c:142-150 and phase-5.md:101-103.  A completed move stays in
\* the tolerance although the axis still coasts, and no move overshoots its
\* target by more than one count on the way.
SettlesInTolerance ==
  broken = "NONE" /\ command \in {"MOVE", "MOVE_REL"} =>
    /\ axis.state = "IDLE" => Abs(axis.position - axis.target) <= Tolerance
    /\ metrics.over <= 1

\* Every command of a working axis ends as it should.
MovesEndWell == NormalMotionIsNoFault /\ SettlesInTolerance

\* The figures the documents publish for a scenario are what the model shows of
\* it, as long as nobody stops or breaks it.
FiguresHold ==
  LET figures == Scenarios[scenario].figures
      asPlanned(i) == \A j \in 1 .. i : log[j].what = figures[j].what
  IN  broken = "NONE" =>
        \A i \in DOMAIN log \cap DOMAIN figures :
          asPlanned(i) => \A field \in DOMAIN figures[i] : log[i][field] = figures[i][field]
=============================================================================
