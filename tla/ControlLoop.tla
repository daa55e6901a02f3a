---------------------------- MODULE ControlLoop ----------------------------
(***************************************************************************)
(* The control core of the firmware: the Motion task (firmware/tasks/      *)
(* motion_task.c), the Safety task (safety_task.c) that preempts it, and   *)
(* the state they share through runtime_data and the motor gate.  A step   *)
(* is one critical section, or private work between two of them; Safety,   *)
(* the highest priority, may run between any two steps of Motion, and so   *)
(* may a clock tick, a change of a GPIO input and an encoder count.        *)
(*                                                                         *)
(* The locals of a cycle are reset when their scope ends.                  *)
(*                                                                         *)
(* External: the command a receive returns (the command bus is a module of *)
(* its own in the plan), the heartbeats' freshness, GPIO and encoder.      *)
(***************************************************************************)
EXTENDS SafetyRuntime

CONSTANTS
  Commands,       \* commands the bus may deliver: records [type, value]
  CommandsPerCycle, \* commands Motion takes per cycle (2 in the firmware)
  EnvPins,        \* GPIO inputs that may change, among the fields of Inputs
  HealthCanFail,  \* whether heartbeats may become stale
  CountMin,       \* range the encoder's reported count stays in
  CountMax,
  TickBound,      \* ticks that may pass within one Motion cycle
  MaxOps          \* motion operations (MOVE, MOVE_REL, HOME) accepted in a run

CommandTypes == {"MOVE", "MOVE_REL", "STOP", "HOME", "RESET", "ESTOP", "SPEED"}

\* The encoder's range covers zero and every target a move may have.
ASSUME LoopAssumption ==
  /\ \A c \in Commands : c.type \in CommandTypes /\ c.value \in Int
  /\ EnvPins \subseteq {"estop", "positive", "negative"}
  /\ CountMin \in Int /\ CountMax \in Int
  /\ CountMin <= 0 /\ 0 <= CountMax /\ CountMin <= MinTarget /\ MaxTarget <= CountMax
  /\ CommandsPerCycle \in Nat /\ TickBound \in Nat /\ MaxOps \in Nat
  /\ HealthCanFail \in BOOLEAN

VARIABLES
  clock,    \* platform_time_ms, in ticks modulo TimeMod
  pins,     \* the GPIO inputs
  fresh,    \* every critical heartbeat is fresh
  gate, safety, motion, pub, report, count,  \* the world of SafetyRuntime
  app,      \* the startup application object, private to Motion
  pc,       \* Motion's next section: "begin", "sync", "command", "update"
  now,      \* now_ms, Motion's timestamp of this cycle
  before,   \* before_safety, the motion state before sampling
  sampled,  \* result of motion_sample in this cycle
  slots,    \* commands Motion may still take in this cycle
  accepted  \* ghost: motion operations accepted so far

world == <<gate, safety, motion, pub, report, count>>
cycle == <<app, pc, now, before, sampled, slots>>
vars  == <<clock, pins, fresh, world, cycle, accepted>>

Counts == CountMin .. CountMax

World == [gate |-> gate, safety |-> safety, motion |-> motion,
          pub |-> pub, report |-> report, count |-> count]

Become(w) ==
  /\ gate' = w.gate /\ safety' = w.safety /\ motion' = w.motion
  /\ pub' = w.pub /\ report' = w.report /\ count' = w.count

Env(inputs) == [now |-> clock, inputs |-> inputs, healthy |-> fresh]

OpTypes == {"MOVE", "MOVE_REL", "HOME"}

TypeOK ==
  /\ clock \in 0 .. TimeMod - 1 /\ pins \in Inputs /\ fresh \in BOOLEAN
  /\ World \in Worlds(Counts)
  /\ app \in {"BOOT", "INITIALIZING", "IDLE"}
  /\ pc \in {"begin", "sync", "command", "update"}
  /\ now \in 0 .. TimeMod - 1 /\ before \in MotionStates /\ sampled \in BOOLEAN
  /\ slots \in 0 .. CommandsPerCycle /\ accepted \in 0 .. MaxOps

Init ==
  /\ clock = 0
  /\ pins \in {p \in Inputs : \A i \in DOMAIN p : p[i] => i \in EnvPins}
  /\ fresh = FALSE
  /\ gate = GateInit /\ safety = SafetyInit /\ motion = MotionInit
  /\ pub = Snapshot(MotionInit) /\ report = "BOOT" /\ count = 0
  /\ app = "BOOT" /\ pc = "begin" /\ now = 0
  /\ before = "IDLE" /\ sampled = FALSE /\ slots = 0 /\ accepted = 0

----------------------------------------------------------------------------
\* The environment.
Tick ==
  /\ Elapsed(clock, now) < TickBound
  /\ clock' = (clock + 1) % TimeMod
  /\ UNCHANGED <<pins, fresh, world, cycle, accepted>>

Toggled(p) == {[p EXCEPT ![i] = ~@] : i \in EnvPins}

PinChange ==
  /\ pins' \in Toggled(pins)
  /\ UNCHANGED <<clock, fresh, world, cycle, accepted>>

EncoderCount ==
  /\ count' \in {count - 1, count + 1} \cap Counts
  /\ UNCHANGED <<clock, pins, fresh, gate, safety, motion, pub, report, cycle, accepted>>

\* Every heartbeat has been seen, or one went stale.
Heartbeats ==
  /\ fresh => HealthCanFail
  /\ fresh' = ~fresh
  /\ UNCHANGED <<clock, pins, world, cycle, accepted>>

----------------------------------------------------------------------------
\* One release of the Safety task.
SafetyTask ==
  /\ Become(EvaluateNow(World, Env(pins)))
  /\ UNCHANGED <<clock, pins, fresh, cycle, accepted>>

----------------------------------------------------------------------------
\* The Motion task.  runtime_periodic_wait lets at least one tick pass between
\* two cycles; the first cycle uses the nominal period as its gap.
NextApp == CASE app = "BOOT" -> "INITIALIZING" [] OTHER -> "IDLE"

Booted(w) == IF app = "IDLE" THEN w ELSE [w EXCEPT !.gate = Disable(@)]

Gap == IF app = "BOOT" THEN 1 ELSE Elapsed(clock, now)

BeginCycle ==
  /\ pc = "begin"
  /\ app = "BOOT" \/ clock # now
  /\ app' = NextApp
  /\ now' = clock
  /\ before' = motion.state
  /\ sampled' = SampleOK(Gap)
  /\ Become(Sample(Booted(World), Gap))
  /\ pc' = "sync"
  /\ UNCHANGED <<clock, pins, fresh, slots, accepted>>

\* A sample that failed ends the operation with an INTERNAL fault.
SampleFailed(w) ==
  LET counted == IF before \in ActiveStates THEN Abandon(w) ELSE w
      ended   == IF before = "HOMING" THEN HomingAbort(counted, "FAULTED") ELSE counted
  IN  Enforce([ended EXCEPT !.safety = InternalFault(@)])

SyncSection ==
  /\ pc = "sync"
  /\ Become(Sync(IF sampled THEN World ELSE SampleFailed(World)))
  /\ slots' = CommandsPerCycle
  /\ pc' = "command"
  /\ before' = "IDLE"
  /\ UNCHANGED <<clock, pins, fresh, app, now, sampled, accepted>>

\* The bus delivers a command; until startup is over every one is refused.
CommandSection ==
  /\ pc = "command" /\ slots > 0
  /\ \E command \in Commands :
       LET answer == IF app = "IDLE" THEN SafetyCommand(World, command, Env(pins))
                     ELSE Answer(World, "INVALID_STATE")
           starts == command.type \in OpTypes /\ answer.result = "ACCEPTED"
       IN  /\ starts => accepted < MaxOps
           /\ accepted' = IF starts THEN accepted + 1 ELSE accepted
           /\ Become(answer.world)
  /\ slots' = slots - 1
  /\ UNCHANGED <<clock, pins, fresh, app, pc, now, before, sampled>>

\* No command is waiting, or the batch is used up.
CommandsDone ==
  /\ pc = "command"
  /\ pc' = "update"
  /\ slots' = 0
  /\ UNCHANGED <<clock, pins, fresh, world, app, now, before, sampled, accepted>>

\* The closing section: reconcile, update, publish.  The inputs may change
\* once between the section's first GPIO reading and its evaluations.
UpdateFailed(w, wasActive) ==
  LET counted == IF wasActive THEN Abandon(w) ELSE w
  IN  Sync(Enforce([counted EXCEPT !.safety = InternalFault(@)]))

\* Mutant: a startup state is published over a latch.
ClosedStartupFirst(w) ==
  Publish([w EXCEPT !.report = IF app # "IDLE" THEN app
                               ELSE IF w.safety.state # "IDLE" THEN w.safety.state
                               ELSE w.motion.state])

Closed(w) ==
  Publish([w EXCEPT !.report = IF w.safety.state # "IDLE" THEN w.safety.state
                               ELSE IF app = "IDLE" THEN w.motion.state ELSE app])

UpdateSection ==
  /\ pc = "update"
  /\ \E duty \in Duty, later \in {pins} \cup Toggled(pins) :
       LET synced  == Sync(World)
           updated == IF sampled THEN ControlUpdate(synced, duty, now, pins, Env(later))
                      ELSE [world |-> synced, ok |-> FALSE]
           ended   == IF updated.ok THEN updated.world
                      ELSE UpdateFailed(updated.world, synced.motion.state \in ActiveStates)
       IN  /\ Become(Closed(ended))
           /\ pins' = later
  /\ pc' = "begin"
  /\ sampled' = FALSE
  /\ UNCHANGED <<clock, fresh, app, now, before, slots, accepted>>

MotionTask == BeginCycle \/ SyncSection \/ CommandSection \/ CommandsDone \/ UpdateSection

Next ==
  \/ Tick \/ PinChange \/ EncoderCount \/ Heartbeats
  \/ SafetyTask
  \/ MotionTask

Spec == Init /\ [][Next]_vars

----------------------------------------------------------------------------
(***************************************************************************)
(* Safety properties.                                                      *)
(***************************************************************************)
Hazard(s) == s.inputs.estop \/ s.inputs.positive \/ s.recovery \/ s.internal

\* Whatever Motion was doing when Safety latched, or a heartbeat was missing,
\* the gate is shut and applies nothing, between any two sections.
LatchHoldsGate ==
  safety.state # "IDLE" \/ ~safety.healthy => gate.inhibited /\ gate.output = 0

\* Once the home switch has been observed active nothing drives further into
\* it, neither the seek, nor a departing move, nor a stale PID answer.
NoDriveIntoContact ==
  safety.valid /\ safety.inputs.negative => gate.output >= 0

\* Every hazard Safety has recorded keeps the latch, and a fault is retained
\* exactly while FAULT is: RESET cannot slip past one that another masks.
HazardKeepsLatch ==
  /\ Hazard(safety) => safety.state # "IDLE"
  /\ safety.inputs.estop => safety.state = "ESTOP"
  /\ safety.state = "FAULT" => safety.code # "NONE"
  /\ safety.state = "IDLE" => safety.code = "NONE"

\* Drive is applied only on behalf of a live operation, and a seek only ever
\* applies the fixed homing duty.
DriveHasOwner ==
  gate.output # 0 =>
    /\ motion.state \in {"MOVING", "HOMING"}
    /\ motion.state = "HOMING" => gate.output = HomingPwm

\* The departure allowance stands only after a completed HOME, with no latch,
\* and while the switch has been observed active ever since.
AllowanceEarned ==
  safety.homeContact => /\ motion.homed > 0 /\ safety.state = "IDLE"
                        /\ safety.valid /\ safety.inputs.negative

\* Everyone who reads the published state sees a latch as soon as it exists.
LatchIsReported == safety.state # "IDLE" => report = safety.state

\* The latch is left only by a RESET that found no hazard, with the output at
\* zero and the interrupted operation discarded: nothing resumes by itself.
LatchLeftByReset ==
  [][safety.state # "IDLE" /\ safety'.state = "IDLE" =>
       /\ pc = "command" /\ slots > 0
       /\ ~pins.estop /\ ~pins.positive /\ ~pins.negative /\ fresh
       /\ ~Hazard(safety') /\ gate'.output = 0
       /\ motion'.state = "IDLE" /\ motion'.target = motion'.position]_vars

\* Only Motion's closing section makes the motor move; the Safety task, also when
\* it runs just before that section, and the commands can only stop it.
DriveStartsInUpdate ==
  [][gate'.output # gate.output /\ gate'.output # 0 => pc = "update" /\ pc' = "begin"]_vars

\* A homing is counted only for a seek that sees the switch, with nothing latched
\* and no other input active, and leaves the drive off and the encoder at zero.
ReferenceNeedsContact ==
  [][motion'.homed > motion.homed =>
       /\ motion.state = "HOMING" /\ pins.negative
       /\ ~pins.estop /\ ~pins.positive
       /\ safety.state = "IDLE"
       /\ gate'.output = 0 /\ count' = 0]_vars

\* A move is reported complete only at rest on its target, never in the step
\* that aborts it nor with a latch standing.
CompletionIsHonest ==
  [][motion'.completed > motion.completed =>
       /\ motion.state = "MOVING" /\ motion.slow
       /\ Abs(motion.target - motion.position) <= Tolerance
       /\ safety'.aborted = safety.aborted
       /\ safety'.state = "IDLE"]_vars

----------------------------------------------------------------------------
(***************************************************************************)
(* Statements of the documentation that the code does not keep (see the    *)
(* findings in the README); each is checked on an instance of its own.     *)
(***************************************************************************)
\* docs/homing.md: a seek ends with HOMING_TIMEOUT once its time has elapsed.
SeekGetsItsTime ==
  [][motion.result = "RUNNING" /\ motion'.result = "TIMEOUT" =>
       Elapsed(clock, motion.started) >= HomingTimeout]_vars

\* The counters of completed, homed and aborted operations together never
\* exceed the operations accepted: an operation has one outcome.
OneOutcomeEach ==
  safety.aborted + motion.completed + motion.homed <= accepted

----------------------------------------------------------------------------
\* The control loop keeps the promise of SafetyLatch: every section is a trip,
\* a reset, a change of drive with nothing latched, or invisible.
Promise == INSTANCE SafetyLatch WITH
  Codes <- FaultCodes \ {"NONE"}, latch <- safety.state,
  fault <- safety.code, drive <- gate.output

ImplementsLatch == Promise!Spec
=============================================================================
