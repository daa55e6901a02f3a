-------------------------- MODULE TaskRuntimeProofs --------------------------
(***************************************************************************)
(* Theorems about the runtime around the tasks, for all periods and bounds *)
(* that satisfy the assumptions.                                           *)
(***************************************************************************)
EXTENDS TaskRuntime, TLAPS

Places ==
  {"begin", "work", "end", "hung", "wait", "disable", "parked", "idle", "stepSafety",
   "awaitSafety", "stepMotion", "awaitMotion", "stop", "wakeMotion", "wakeSafety",
   "poll", "sleep", "ended"}

\* The places that each task has.
Stands ==
  /\ at \in [Tasks -> Places]
  /\ at["Motion"] \in {"begin", "work", "end", "hung", "disable", "parked"}
  /\ at["Safety"] \in {"begin", "work", "end", "hung", "parked"}
  /\ at["Comms"] \in {"begin", "wait", "work", "hung", "parked"}
  /\ at["Telemetry"] \in {"begin", "work", "parked"}
  /\ at["Harness"] \in {"idle", "stepSafety", "awaitSafety", "stepMotion", "awaitMotion",
                        "stop", "wakeMotion", "wakeSafety", "poll", "sleep", "ended"}

----------------------------------------------------------------------------
(***************************************************************************)
(* The inductive invariant.                                                *)
(***************************************************************************)
Rests(t) == at[t] = "begin" /\ notes[t] = 0

\* Between its release and the harness's taking of its answer.
InStep(t) ==
  \/ at[t] = "begin" /\ notes[t] = 1 /\ notes["Harness"] = 0
  \/ at[t] \in {"work", "end"} /\ notes[t] = 0 /\ notes["Harness"] = 0
  \/ at[t] = "begin" /\ notes[t] = 0 /\ notes["Harness"] = 1

Woken(t) ==
  \/ at[t] = "begin" /\ notes[t] = 1
  \/ at[t] \in {"disable", "parked"} /\ notes[t] = 0

Stepping ==
  /\ stepOk
  /\ \/ /\ at["Harness"] \in {"idle", "stepSafety", "stepMotion"}
        /\ Rests("Motion") /\ Rests("Safety") /\ notes["Harness"] = 0
     \/ at["Harness"] = "awaitSafety" /\ Rests("Motion") /\ InStep("Safety")
     \/ at["Harness"] = "awaitMotion" /\ Rests("Safety") /\ InStep("Motion")

Winding ==
  /\ notes["Harness"] = 0
  /\ \/ at["Harness"] = "wakeMotion" /\ Rests("Motion") /\ Rests("Safety")
     \/ at["Harness"] = "wakeSafety" /\ Woken("Motion") /\ Rests("Safety")
     \/ at["Harness"] \in {"poll", "sleep", "ended"} /\ Woken("Motion") /\ Woken("Safety")

Periodic ==
  /\ notes["Motion"] = 0 /\ notes["Safety"] = 0 /\ notes["Harness"] = 0
  /\ at["Harness"] \in (IF stopping THEN {"poll", "sleep", "ended"} ELSE {"idle"})

\* Who has been notified, in each mode.
Handshake ==
  /\ stepped /\ ~stopping => Stepping
  /\ stepped /\ stopping  => Winding
  /\ ~stepped             => Periodic

TaskInv == Stands /\ TypeOK /\ Handshake

\* The longest time a task waits.
Period(t) ==
  CASE t = "Safety"    -> SafetyPeriod
    [] t = "Motion"    -> MotionPeriod
    [] t = "Telemetry" -> TelemetryPeriod
    [] t = "Comms"     -> CommsPeriod

Left(t) == IF due[t] > 0 THEN due[t] ELSE 0

\* A release is at most a period away, and past while its cycle runs.
Pace ==
  /\ \A t \in Firmware : due[t] <= Period(t)
  /\ \A t \in {"Safety", "Motion", "Telemetry"} : at[t] \in {"work", "end"} => due[t] <= 0
  /\ at["Comms"] = "begin" => due["Comms"] <= 1
  /\ stepped => \A t \in Stepped : due[t] <= 0
  /\ at["Harness"] = "sleep" => due["Harness"] <= 1
  /\ stepped \/ stopping => Hung = {}

\* What may be added to the age of a task that has beaten.
SafetyBeats ==
  \/ at["Safety"] = "begin" /\ age["Safety"] + Left("Safety") + slow <= SafetyPeriod + SlowTicks
  \/ at["Safety"] \in {"work", "end"} /\ age["Safety"] + slow <= SlowTicks

MotionBeats ==
  \/ at["Motion"] = "begin" /\ age["Motion"] + Left("Motion") + slow <= MotionPeriod + SlowTicks
  \/ at["Motion"] = "work" /\ age["Motion"] + slow <= MotionPeriod + SlowTicks
  \/ at["Motion"] = "end" /\ age["Motion"] + slow <= SlowTicks

CommsBeats ==
  \/ at["Comms"] = "wait" /\ age["Comms"] + Left("Comms") + slow <= CommsPeriod + SlowTicks
  \/ at["Comms"] = "work" /\ age["Comms"] + slow <= CommsPeriod + SlowTicks
  \/ at["Comms"] = "begin" /\ age["Comms"] + Left("Comms") + slow <= CommsPeriod + 1 + SlowTicks

Beats ==
  /\ ~stepped => ~dropping
  /\ Watched /\ Hung = {} =>
       /\ "Safety" \in seen => SafetyBeats
       /\ "Motion" \in seen => MotionBeats
       /\ "Comms" \in seen => CommsBeats

\* The cycle of a stepped Safety that saw this age is still to come.
Pending ==
  \/ at["Harness"] = "stepSafety"
  \/ at["Harness"] = "awaitSafety" /\ (at["Safety"] = "work" \/ notes["Safety"] = 1)

\* How old the last beat of a task may be while the gate is open: in platform
\* time when Safety is stepped, else against the watchdog and Safety's releases.
SeenInSteps(t) == age[t] <= MaxAge + (IF Pending THEN SafetyPeriod ELSE phase)

SeenInTime(t) ==
  /\ age[t] <= MaxAge + dog
  /\ \/ /\ at["Safety"] = "begin"
        /\ age[t] + Left("Safety") + slow <= MaxAge + SafetyPeriod + SlowTicks
     \/ at["Safety"] = "work" /\ age[t] + slow <= MaxAge + SafetyPeriod + SlowTicks
     \/ at["Safety"] = "end" /\ age[t] + slow <= MaxAge + SlowTicks
     \/ at["Safety"] = "hung"

Supervision ==
  /\ drive => ~inhibited
  /\ ~stopping /\ ~inhibited /\ stepped  => \A t \in Critical : SeenInSteps(t)
  /\ ~stopping /\ ~inhibited /\ ~stepped => \A t \in Critical : SeenInTime(t)

Unparked == {t \in Firmware : at[t] \notin {"disable", "parked"} /\ ~(stepped /\ t \in Stepped)}

Remaining(t) == IF at[t] \in {"work", "end"} THEN Period(t) ELSE Left(t)

\* The harness's looks count the ticks, and each tick takes one from what every
\* task that still runs may wait or work.
Patience ==
  at["Harness"] = "sleep" => \A t \in Unparked :
    Remaining(t) + slow + polls <= Period(t) + SlowTicks + Left("Harness")

Parking ==
  /\ parked = {t \in Firmware : at[t] \in {"disable", "parked"}}
  /\ parked # {} => stopping
  /\ at["Motion"] = "parked" => ~drive
  /\ at["Harness"] \notin {"sleep", "ended"} => polls = 0
  /\ Patience
  /\ at["Harness"] = "ended" => \A t \in Firmware : at[t] = "parked"

----------------------------------------------------------------------------
LEMMA TaskNames ==
  /\ Tasks = {"Motion", "Safety", "Comms", "Telemetry", "Harness"}
  /\ Firmware = {"Motion", "Safety", "Comms", "Telemetry"}
  /\ Stepped = {"Motion", "Safety"} /\ Critical = {"Motion", "Safety", "Comms"}
BY DEF Tasks, Firmware, Critical, Stepped

LEMMA Ranks ==
  /\ Priority["Safety"] = 4 /\ Priority["Motion"] = 3 /\ Priority["Comms"] = 2
  /\ Priority["Telemetry"] = 1 /\ Priority["Harness"] = 1
BY DEF Priority

\* Nothing preempts Safety; whatever runs below has found those above not ready.
LEMMA SafetyIsTop == ~Preempted("Safety")
BY Ranks, TaskNames DEF Preempted

LEMMA PreemptedBy ==
  ASSUME NEW t \in Tasks, NEW u \in Tasks, Ready(u), Priority[u] > Priority[t]
  PROVE  Preempted(t)
BY DEF Preempted

LEMMA HarnessRuns ==
  ASSUME ~Preempted("Harness")
  PROVE  ~Ready("Safety") /\ ~Ready("Motion") /\ ~Ready("Comms")
BY Ranks, TaskNames, PreemptedBy

\* Who is ready, where it matters.
LEMMA ReadyAtWork ==
  ASSUME NEW t \in Firmware, at[t] \in {"work", "end", "disable"} PROVE Ready(t)
<1>1. ~WaitsForStep(t) /\ t # "Harness"
  BY TaskNames DEF WaitsForStep
<1>2. QED
  BY <1>1 DEF Ready

LEMMA ReadyForStep ==
  ASSUME NEW t \in Stepped, stepped, at[t] = "begin" PROVE Ready(t) <=> notes[t] > 0
BY DEF Ready, WaitsForStep

LEMMA ReadyAtBegin ==
  ASSUME NEW t \in Firmware, at[t] = "begin", t \notin Stepped \/ ~stepped
  PROVE  Ready(t) <=> due[t] <= 0
<1>1. ~WaitsForStep(t)
  BY DEF WaitsForStep
<1>2. QED
  BY <1>1 DEF Ready

LEMMA ReadyToHear ==
  ASSUME at["Comms"] = "wait"
  PROVE  Ready("Comms") <=> notes["Comms"] > 0 \/ due["Comms"] <= 0
<1>1. ~WaitsForStep("Comms")
  BY DEF WaitsForStep
<1>2. QED
  BY <1>1 DEF Ready

LEMMA ReadyHarness ==
  /\ at["Harness"] \in {"poll", "stepSafety", "stepMotion"} => Ready("Harness")
  /\ at["Harness"] = "sleep" => (Ready("Harness") <=> due["Harness"] <= 0)
  /\ at["Harness"] \in {"awaitSafety", "awaitMotion"} =>
       (Ready("Harness") <=> notes["Harness"] > 0 \/ due["Harness"] <= 0)
  /\ at["Harness"] = "idle" => (Ready("Harness") <=> stepped)
<1>1. ~WaitsForStep("Harness")
  BY DEF WaitsForStep, Stepped
<1>2. QED
  BY <1>1 DEF Ready

----------------------------------------------------------------------------
(***************************************************************************)
(* The types and the handshake.                                            *)
(***************************************************************************)
LEMMA Constants ==
  /\ MotionPeriod = 1 /\ SafetyPeriod \in Nat \ {0} /\ TelemetryPeriod \in Nat \ {0}
  /\ CommsPeriod \in Nat \ {0} /\ Polls \in Nat \ {0}
  /\ MaxAge \in Nat /\ WatchdogTimeout \in Nat /\ StepTimeout \in Nat /\ SlowTicks \in Nat
BY RuntimeAssumption, TimingAssumption DEF RuntimeAssumption, TimingAssumption

LEMMA OldestAge == Oldest \in Nat
BY Constants DEF Oldest

LEMMA StartsWhole == Init => TaskInv
<1> SUFFICES ASSUME Init PROVE TaskInv
  OBVIOUS
<1>1. Stands
  BY TaskNames DEF Init, Boot, Stands, Places
<1>2. TypeOK
  <2>1. phase \in 0 .. SafetyPeriod - 1 /\ dog \in 0 .. WatchdogTimeout /\ polls \in 0 .. Polls
        /\ slow \in 0 .. SlowTicks
    BY Constants DEF Init
  <2>2. notes \in [Tasks -> 0 .. 1] /\ due \in [Tasks -> Int] /\ age \in [Critical -> 0 .. Oldest]
    BY OldestAge DEF Init
  <2>3. parked \subseteq Firmware /\ seen \subseteq Critical
    BY DEF Init
  <2>4. QED
    BY <2>1, <2>2, <2>3 DEF Init, TypeOK
<1>3. Handshake
  BY TaskNames DEF Init, Boot, Handshake, Stepping, Winding, Periodic, Rests
<1>4. QED
  BY <1>1, <1>2, <1>3 DEF TaskInv

LEMMA Typed ==
  ASSUME TaskInv
  PROVE  /\ notes \in [Tasks -> 0 .. 1] /\ due \in [Tasks -> Int] /\ at \in [Tasks -> Places]
         /\ age \in [Critical -> 0 .. Oldest] /\ slow \in 0 .. SlowTicks /\ polls \in 0 .. Polls
         /\ dog \in 0 .. WatchdogTimeout /\ phase \in 0 .. SafetyPeriod - 1
BY DEF TaskInv, TypeOK, Stands

LEMMA BeatTypes ==
  ASSUME TypeOK, NEW t \in Critical, Beat(t) PROVE seen' \subseteq Critical /\ age' \in [Critical -> 0 .. Oldest]
<1>1. CASE seen' = seen /\ age' = age
  BY <1>1 DEF TypeOK
<1>2. CASE seen' = seen \cup {t} /\ age' = [age EXCEPT ![t] = 0]
  BY <1>2, OldestAge DEF TypeOK
<1>3. QED
  BY <1>1, <1>2 DEF Beat

\* A cycle begins when its task may run and, stepped, has been released.
LEMMA BeginWhole ==
  ASSUME TaskInv, NEW t \in Firmware, Begin(t) PROVE TaskInv'
<1>1. Stands'
  BY TaskNames DEF TaskInv, Stands, Places, Begin, Park, Listen, Go, Running
<1>2. TypeOK'
  <2>1. notes' \in [Tasks -> 0 .. 1]
    BY DEF TaskInv, TypeOK, Begin, TakeStep, Take
  <2>2. due' \in [Tasks -> Int]
    BY Constants DEF TaskInv, TypeOK, Begin, Park, Listen, Delay
  <2>3. parked' \subseteq Firmware
    BY DEF TaskInv, TypeOK, Begin, Park
  <2>4. seen' \subseteq Critical /\ age' \in [Critical -> 0 .. Oldest]
    <3>1. CASE t \in {"Safety", "Comms"}
      BY <3>1, TaskNames, BeatTypes DEF TaskInv, Begin, Park, TypeOK
    <3>2. CASE t \notin {"Safety", "Comms"}
      BY <3>2 DEF TaskInv, TypeOK, Begin
    <3>3. QED
      BY <3>1, <3>2
  <2>5. UNCHANGED <<stepped, phase, stopping, victim, dropping, output, dog, polls, stepOk, slow>>
    BY DEF Begin
  <2>6. QED
    BY <2>1, <2>2, <2>3, <2>4, <2>5 DEF TaskInv, TypeOK, Oldest, output
<1>3. Handshake'
  BY TaskNames DEF TaskInv, Stands, TypeOK, Handshake, Stepping, Winding, Periodic, Rests, InStep, Woken,
     Begin, TakeStep, WaitsForStep, Take, Park, Listen, Go, Running, Ready
<1>4. QED
  BY <1>1, <1>2, <1>3 DEF TaskInv

LEMMA SafetyWorkWhole ==
  ASSUME TaskInv, SafetyWork PROVE TaskInv'
<1>1. Stands'
  BY TaskNames DEF TaskInv, Stands, Places, SafetyWork, Go, Running
<1>2. TypeOK'
  <2>1. at' \in [Tasks -> Places]
    BY <1>1 DEF Stands
  <2>2. drive' \in BOOLEAN /\ inhibited' \in BOOLEAN
    BY DEF TaskInv, TypeOK, SafetyWork, Healthy
  <2>3. dog' \in 0 .. WatchdogTimeout
    BY Constants DEF TaskInv, TypeOK, SafetyWork, Refresh
  <2>4. UNCHANGED <<stepped, phase, due, notes, stopping, parked, health, polls, stepOk, slow>>
    BY DEF SafetyWork, health
  <2>5. QED
    BY <2>1, <2>2, <2>3, <2>4 DEF TaskInv, TypeOK, Oldest, kernel, health, output
<1>3. Handshake'
  BY TaskNames DEF TaskInv, Stands, TypeOK, Handshake, Stepping, Winding, Periodic, Rests, InStep, Woken,
     SafetyWork, Go, Running
<1>4. QED
  BY <1>1, <1>2, <1>3 DEF TaskInv

LEMMA MotionWorkWhole ==
  ASSUME TaskInv, MotionWork PROVE TaskInv'
<1>1. Stands'
  BY TaskNames DEF TaskInv, Stands, Places, MotionWork, Go, Running
<1>2. TypeOK'
  <2>1. drive' \in BOOLEAN /\ inhibited' \in BOOLEAN
    BY DEF TaskInv, TypeOK, MotionWork, Healthy
  <2>2. seen' \subseteq Critical /\ age' \in [Critical -> 0 .. Oldest]
    BY TaskNames, BeatTypes DEF TaskInv, MotionWork
  <2>3. UNCHANGED <<stepped, phase, due, notes, stopping, parked, victim, dropping, dog, polls, stepOk, slow>>
    BY DEF MotionWork
  <2>4. QED
    BY <2>1, <2>2, <2>3 DEF TaskInv, TypeOK, Oldest, kernel, health, output
<1>3. Handshake'
  BY TaskNames DEF TaskInv, Stands, TypeOK, Handshake, Stepping, Winding, Periodic, Rests, InStep, Woken,
     MotionWork, Go, Running
<1>4. QED
  BY <1>1, <1>2, <1>3 DEF TaskInv

LEMMA DisableWhole ==
  ASSUME TaskInv, Disable PROVE TaskInv'
<1>1. Stands'
  BY TaskNames DEF TaskInv, Stands, Places, Disable, Go, Running
<1>2. TypeOK'
  <2>1. drive' \in BOOLEAN
    BY DEF TaskInv, TypeOK, Disable, MotorOff
  <2>2. UNCHANGED <<stepped, phase, due, notes, stopping, parked, health, inhibited, dog, polls, stepOk, slow>>
    BY DEF Disable, health
  <2>3. QED
    BY <2>1, <2>2 DEF TaskInv, TypeOK, Oldest, kernel, health, output
<1>3. Handshake'
  BY TaskNames DEF TaskInv, Stands, TypeOK, Handshake, Stepping, Winding, Periodic, Rests, InStep, Woken,
     Disable, Go, Running
<1>4. QED
  BY <1>1, <1>2, <1>3 DEF TaskInv

\* A stepped cycle answers the harness, a periodic one sets its next release.
LEMMA EndWhole ==
  ASSUME TaskInv, NEW t \in Stepped, NEW period \in Nat, End(t, period) PROVE TaskInv'
<1>1. Stands'
  BY TaskNames DEF TaskInv, Stands, Places, End, PeriodicWait, Go, Running
<1>2. TypeOK'
  <2>1. notes' \in [Tasks -> 0 .. 1]
    BY TaskNames DEF TaskInv, TypeOK, Handshake, Stepping, Winding, Periodic, Rests, InStep, Woken,
       End, Give, Running
  <2>2. due' \in [Tasks -> Int]
    BY DEF TaskInv, TypeOK, End, PeriodicWait, Delay
  <2>3. UNCHANGED <<stepped, phase, stopping, parked, health, output, dog, polls, stepOk, slow>>
    BY DEF End, health, output
  <2>4. QED
    BY <2>1, <2>2, <2>3 DEF TaskInv, TypeOK, Oldest, kernel, health, output
<1>3. Handshake'
  BY TaskNames DEF TaskInv, Stands, TypeOK, Handshake, Stepping, Winding, Periodic, Rests, InStep, Woken,
     End, Give, PeriodicWait, Go, Running
<1>4. QED
  BY <1>1, <1>2, <1>3 DEF TaskInv

LEMMA TelemetryWhole ==
  ASSUME TaskInv, TelemetryWork PROVE TaskInv'
<1>1. Stands'
  BY TaskNames DEF TaskInv, Stands, Places, TelemetryWork, PeriodicWait, Go, Running
<1>2. TypeOK'
  <2>1. due' \in [Tasks -> Int]
    BY TaskNames, Constants DEF TaskInv, TypeOK, TelemetryWork, PeriodicWait, Delay
  <2>2. UNCHANGED <<stepped, phase, notes, stopping, parked, health, output, dog, polls, stepOk, slow>>
    BY DEF TelemetryWork, health, output
  <2>3. QED
    BY <2>1, <2>2 DEF TaskInv, TypeOK, Oldest, kernel, health, output
<1>3. Handshake'
  BY TaskNames DEF TaskInv, Stands, TypeOK, Handshake, Stepping, Winding, Periodic, Rests, InStep, Woken,
     TelemetryWork, PeriodicWait, Go, Running
<1>4. QED
  BY <1>1, <1>2, <1>3 DEF TaskInv

LEMMA HeardWhole ==
  ASSUME TaskInv, Heard PROVE TaskInv'
<1>1. Stands'
  BY TaskNames DEF TaskInv, Stands, Places, Heard, Park, Go, Running
<1>2. TypeOK'
  <2>1. notes' \in [Tasks -> 0 .. 1]
    <3>1. notes' = [notes EXCEPT !["Comms"] = 0]
      BY DEF Heard, Take
    <3>2. QED
      BY <3>1, Typed, TaskNames
  <2>2. parked' \subseteq Firmware
    BY TaskNames DEF TaskInv, TypeOK, Heard, Park
  <2>3. UNCHANGED <<stepped, phase, due, stopping, health, output, dog, polls, stepOk, slow>>
    BY DEF Heard, health, output
  <2>4. QED
    BY <2>1, <2>2, <2>3 DEF TaskInv, TypeOK, Oldest, kernel, health, output
<1>3. Handshake'
  BY TaskNames DEF TaskInv, Stands, TypeOK, Handshake, Stepping, Winding, Periodic, Rests, InStep, Woken,
     Heard, Take, Park, Go, Running
<1>4. QED
  BY <1>1, <1>2, <1>3 DEF TaskInv

LEMMA CommsWorkWhole ==
  ASSUME TaskInv, CommsWork PROVE TaskInv'
<1>1. Stands'
  BY TaskNames DEF TaskInv, Stands, Places, CommsWork, Go, Running
<1>2. TypeOK'
  <2>1. notes' \in [Tasks -> 0 .. 1]
    BY DEF TaskInv, TypeOK, CommsWork, Signal
  <2>2. due' \in [Tasks -> Int]
    BY DEF TaskInv, TypeOK, CommsWork, Delay
  <2>3. UNCHANGED <<stepped, phase, stopping, parked, health, output, dog, polls, stepOk, slow>>
    BY DEF CommsWork, health, output
  <2>4. QED
    BY <2>1, <2>2, <2>3 DEF TaskInv, TypeOK, Oldest, kernel, health, output
<1>3. Handshake'
  BY TaskNames DEF TaskInv, Stands, TypeOK, Handshake, Stepping, Winding, Periodic, Rests, InStep, Woken,
     CommsWork, Signal, Go, Running
<1>4. QED
  BY <1>1, <1>2, <1>3 DEF TaskInv

LEMMA InterruptWhole ==
  ASSUME TaskInv, Interrupt PROVE TaskInv'
<1>1. Stands'
  BY TaskNames DEF TaskInv, Stands, Places, Interrupt
<1>2. TypeOK'
  <2>1. notes' \in [Tasks -> 0 .. 1]
    <3>1. notes' = [notes EXCEPT !["Comms"] = 1]
      BY DEF Interrupt, Signal
    <3>2. QED
      BY <3>1, Typed, TaskNames
  <2>2. UNCHANGED <<stepped, phase, at, due, stopping, parked, health, output, dog, polls, stepOk, slow>>
    BY DEF Interrupt, health, output
  <2>3. QED
    BY <2>1, <2>2 DEF TaskInv, TypeOK, Oldest, kernel, health, output
<1>3. Handshake'
  BY TaskNames DEF TaskInv, Stands, TypeOK, Handshake, Stepping, Winding, Periodic, Rests, InStep, Woken,
     Interrupt, Signal
<1>4. QED
  BY <1>1, <1>2, <1>3 DEF TaskInv

\* When the harness gets to run while it waits, its answer is there, and the
\* task is at rest again: before that the stepped task has the processor.
LEMMA Answered ==
  ASSUME TaskInv, NEW t \in Stepped,
         Running("Harness", IF t = "Safety" THEN "awaitSafety" ELSE "awaitMotion")
  PROVE  /\ stepped /\ ~stopping /\ stepOk /\ notes["Harness"] = 1
         /\ Rests("Safety") /\ Rests("Motion")
<1>1. at["Harness"] = (IF t = "Safety" THEN "awaitSafety" ELSE "awaitMotion") /\ ~Ready(t)
  BY TaskNames, HarnessRuns DEF Running
<1>2. stepped /\ ~stopping
  BY <1>1 DEF TaskInv, Handshake, Winding, Periodic
<1>3. stepOk /\ InStep(t) /\ (t = "Safety" => Rests("Motion")) /\ (t = "Motion" => Rests("Safety"))
  BY <1>1, <1>2, TaskNames DEF TaskInv, Handshake, Stepping
<1>4. CASE at[t] = "begin"
  BY <1>1, <1>2, <1>3, <1>4, ReadyForStep, TaskNames DEF InStep, Rests
<1>5. CASE at[t] \in {"work", "end"}
  BY <1>1, <1>5, ReadyAtWork, TaskNames
<1>6. QED
  BY <1>3, <1>4, <1>5 DEF InStep

LEMMA CycleWhole ==
  ASSUME TaskInv, Cycle PROVE TaskInv'
<1>1. Stands'
  BY TaskNames DEF TaskInv, Stands, Places, Cycle, Go, Running
<1>2. TypeOK'
  <2>1. notes' \in [Tasks -> 0 .. 1]
    BY TaskNames, Typed DEF Cycle, Signal
  <2>2. phase' \in 0 .. SafetyPeriod - 1
    BY Typed, Constants DEF Cycle
  <2>3. age' \in [Critical -> 0 .. Oldest]
    BY Typed, OldestAge DEF Cycle, Older
  <2>4. UNCHANGED <<stepped, due, stopping, parked, seen, victim, dropping, output, dog, polls, stepOk, slow>>
    BY DEF Cycle, output
  <2>5. QED
    BY <2>1, <2>2, <2>3, <2>4 DEF TaskInv, TypeOK, Oldest, kernel, health, output
<1>3. Handshake'
  BY TaskNames DEF TaskInv, Stands, TypeOK, Handshake, Stepping, Winding, Periodic, Rests, InStep, Woken,
     Cycle, Signal, Go, Running
<1>4. QED
  BY <1>1, <1>2, <1>3 DEF TaskInv

LEMMA ReleaseSafetyWhole ==
  ASSUME TaskInv, Release("Safety", "stepSafety", "awaitSafety") PROVE TaskInv'
<1>1. Stands'
  BY TaskNames DEF TaskInv, Stands, Places, Release, Go, Running
<1>2. TypeOK'
  <2>1. notes' \in [Tasks -> 0 .. 1]
    BY TaskNames, Typed DEF TaskInv, Handshake, Stepping, Winding, Periodic, Rests, Release, Give, Running
  <2>2. due' \in [Tasks -> Int]
    BY TaskNames, Typed, Constants DEF Release, Delay
  <2>3. UNCHANGED <<stepped, phase, stopping, parked, health, output, dog, polls, stepOk, slow>>
    BY DEF Release, health, output
  <2>4. QED
    BY <2>1, <2>2, <2>3 DEF TaskInv, TypeOK, Oldest, kernel, health, output
<1>3. Handshake'
  BY TaskNames DEF TaskInv, Stands, TypeOK, Handshake, Stepping, Winding, Periodic, Rests, InStep, Woken,
     Release, Give, Go, Running
<1>4. QED
  BY <1>1, <1>2, <1>3 DEF TaskInv

LEMMA ReleaseMotionWhole ==
  ASSUME TaskInv, Release("Motion", "stepMotion", "awaitMotion") PROVE TaskInv'
<1>1. Stands'
  BY TaskNames DEF TaskInv, Stands, Places, Release, Go, Running
<1>2. TypeOK'
  <2>1. notes' \in [Tasks -> 0 .. 1]
    BY TaskNames, Typed DEF TaskInv, Handshake, Stepping, Winding, Periodic, Rests, Release, Give, Running
  <2>2. due' \in [Tasks -> Int]
    BY TaskNames, Typed, Constants DEF Release, Delay
  <2>3. UNCHANGED <<stepped, phase, stopping, parked, health, output, dog, polls, stepOk, slow>>
    BY DEF Release, health, output
  <2>4. QED
    BY <2>1, <2>2, <2>3 DEF TaskInv, TypeOK, Oldest, kernel, health, output
<1>3. Handshake'
  BY TaskNames DEF TaskInv, Stands, TypeOK, Handshake, Stepping, Winding, Periodic, Rests, InStep, Woken,
     Release, Give, Go, Running
<1>4. QED
  BY <1>1, <1>2, <1>3 DEF TaskInv

LEMMA ReturnSafetyWhole ==
  ASSUME TaskInv, Return("awaitSafety", "stepMotion") PROVE TaskInv'
<1>1. Stands'
  BY TaskNames DEF TaskInv, Stands, Places, Return, Go, Running
<1>2. TypeOK'
  <2>1. notes' \in [Tasks -> 0 .. 1]
    BY TaskNames, Typed DEF Return, Take
  <2>2. due' \in [Tasks -> Int]
    BY TaskNames, Typed DEF Return, Delay
  <2>3. stepOk' \in BOOLEAN
    BY DEF Return
  <2>4. UNCHANGED <<stepped, phase, stopping, parked, health, output, dog, polls, slow>>
    BY DEF Return, health, output
  <2>5. QED
    BY <2>1, <2>2, <2>3, <2>4 DEF TaskInv, TypeOK, Oldest, kernel, health, output
<1>3. Handshake'
  <2>1. Running("Harness", "awaitSafety")
    BY DEF Return
  <2>2. stepped /\ ~stopping /\ stepOk /\ notes["Harness"] = 1 /\ Rests("Safety") /\ Rests("Motion")
    BY <2>1, Answered, TaskNames
  <2>3. stepped' /\ ~stopping' /\ stepOk' /\ at' = [at EXCEPT !["Harness"] = "stepMotion"]
        /\ notes' = [notes EXCEPT !["Harness"] = 0]
    BY <2>2 DEF Return, Go, Take
  <2>4. QED
    BY <2>2, <2>3, TaskNames, Typed DEF Handshake, Stepping, Rests
<1>4. QED
  BY <1>1, <1>2, <1>3 DEF TaskInv

LEMMA ReturnMotionWhole ==
  ASSUME TaskInv, Return("awaitMotion", "idle") PROVE TaskInv'
<1>1. Stands'
  BY TaskNames DEF TaskInv, Stands, Places, Return, Go, Running
<1>2. TypeOK'
  <2>1. notes' \in [Tasks -> 0 .. 1]
    BY TaskNames, Typed DEF Return, Take
  <2>2. due' \in [Tasks -> Int]
    BY TaskNames, Typed DEF Return, Delay
  <2>3. stepOk' \in BOOLEAN
    BY DEF Return
  <2>4. UNCHANGED <<stepped, phase, stopping, parked, health, output, dog, polls, slow>>
    BY DEF Return, health, output
  <2>5. QED
    BY <2>1, <2>2, <2>3, <2>4 DEF TaskInv, TypeOK, Oldest, kernel, health, output
<1>3. Handshake'
  <2>1. Running("Harness", "awaitMotion")
    BY DEF Return
  <2>2. stepped /\ ~stopping /\ stepOk /\ notes["Harness"] = 1 /\ Rests("Safety") /\ Rests("Motion")
    BY <2>1, Answered, TaskNames
  <2>3. stepped' /\ ~stopping' /\ stepOk' /\ at' = [at EXCEPT !["Harness"] = "idle"]
        /\ notes' = [notes EXCEPT !["Harness"] = 0]
    BY <2>2 DEF Return, Go, Take
  <2>4. QED
    BY <2>2, <2>3, TaskNames, Typed DEF Handshake, Stepping, Rests
<1>4. QED
  BY <1>1, <1>2, <1>3 DEF TaskInv

LEMMA DropWhole ==
  ASSUME TaskInv, DropHeartbeats PROVE TaskInv'
<1>1. Stands'
  BY TaskNames DEF TaskInv, Stands, Places, DropHeartbeats, kernel
<1>2. TypeOK'
  <2>1. dropping' \in BOOLEAN
    BY DEF DropHeartbeats
  <2>2. UNCHANGED <<stepped, phase, kernel, stopping, parked, seen, age, victim, output, dog, polls, stepOk, slow>>
    BY DEF DropHeartbeats, kernel, output
  <2>3. QED
    BY <2>1, <2>2 DEF TaskInv, TypeOK, Oldest, kernel, health, output
<1>3. Handshake'
  BY TaskNames DEF TaskInv, Stands, TypeOK, Handshake, Stepping, Winding, Periodic, Rests, InStep, Woken,
     DropHeartbeats, kernel
<1>4. QED
  BY <1>1, <1>2, <1>3 DEF TaskInv

LEMMA ConcludeWhole ==
  ASSUME TaskInv, Conclude PROVE TaskInv'
<1>1. Stands'
  BY TaskNames DEF TaskInv, Stands, Places, Conclude, Go, Running
<1>2. TypeOK'
  <2>1. stopping' \in BOOLEAN
    BY DEF Conclude
  <2>2. UNCHANGED <<stepped, phase, due, notes, parked, health, output, dog, polls, stepOk, slow>>
    BY DEF Conclude, health, output
  <2>3. QED
    BY <2>1, <2>2 DEF TaskInv, TypeOK, Oldest, kernel, health, output
<1>3. Handshake'
  BY TaskNames, ReadyHarness DEF TaskInv, Stands, TypeOK, Handshake, Stepping, Winding, Periodic, Rests, InStep, Woken,
     Conclude, Go, Running
<1>4. QED
  BY <1>1, <1>2, <1>3 DEF TaskInv

LEMMA WakeMotionWhole ==
  ASSUME TaskInv, WakeStepped("Motion", "wakeMotion", "wakeSafety") PROVE TaskInv'
<1>1. Stands'
  BY TaskNames DEF TaskInv, Stands, Places, WakeStepped, Go, Running
<1>2. TypeOK'
  <2>1. notes' \in [Tasks -> 0 .. 1]
    BY TaskNames, Typed DEF TaskInv, Handshake, Stepping, Winding, Periodic, Rests, WakeStepped, WakeForStop,
       Give, Running
  <2>2. UNCHANGED <<stepped, phase, due, stopping, parked, health, output, dog, polls, stepOk, slow>>
    BY DEF WakeStepped, health, output
  <2>3. QED
    BY <2>1, <2>2 DEF TaskInv, TypeOK, Oldest, kernel, health, output
<1>3. Handshake'
  BY TaskNames DEF TaskInv, Stands, TypeOK, Handshake, Stepping, Winding, Periodic, Rests, InStep, Woken,
     WakeStepped, WakeForStop, Give, Go, Running
<1>4. QED
  BY <1>1, <1>2, <1>3 DEF TaskInv

LEMMA WakeSafetyWhole ==
  ASSUME TaskInv, WakeStepped("Safety", "wakeSafety", "poll") PROVE TaskInv'
<1>1. Stands'
  BY TaskNames DEF TaskInv, Stands, Places, WakeStepped, Go, Running
<1>2. TypeOK'
  <2>1. notes' \in [Tasks -> 0 .. 1]
    BY TaskNames, Typed DEF TaskInv, Handshake, Stepping, Winding, Periodic, Rests, WakeStepped, WakeForStop,
       Give, Running
  <2>2. UNCHANGED <<stepped, phase, due, stopping, parked, health, output, dog, polls, stepOk, slow>>
    BY DEF WakeStepped, health, output
  <2>3. QED
    BY <2>1, <2>2 DEF TaskInv, TypeOK, Oldest, kernel, health, output
<1>3. Handshake'
  BY TaskNames DEF TaskInv, Stands, TypeOK, Handshake, Stepping, Winding, Periodic, Rests, InStep, Woken,
     WakeStepped, WakeForStop, Give, Go, Running
<1>4. QED
  BY <1>1, <1>2, <1>3 DEF TaskInv

LEMMA PollWhole ==
  ASSUME TaskInv, Poll PROVE TaskInv'
<1>1. Stands'
  BY TaskNames DEF TaskInv, Stands, Places, Poll, Go, Running
<1>2. TypeOK'
  <2>1. due' \in [Tasks -> Int] /\ polls' \in 0 .. Polls
    BY TaskNames, Typed, Constants DEF Poll, Delay
  <2>2. UNCHANGED <<stepped, phase, notes, stopping, parked, health, output, dog, stepOk, slow>>
    BY DEF Poll, health, output
  <2>3. QED
    BY <2>1, <2>2 DEF TaskInv, TypeOK, Oldest, kernel, health, output
<1>3. Handshake'
  BY TaskNames DEF TaskInv, Stands, TypeOK, Handshake, Stepping, Winding, Periodic, Rests, InStep, Woken,
     Poll, Go, Running
<1>4. QED
  BY <1>1, <1>2, <1>3 DEF TaskInv

LEMMA HangWhole ==
  ASSUME TaskInv, NEW t \in Critical, Hang(t) PROVE TaskInv'
<1>1. Stands'
  BY TaskNames DEF TaskInv, Stands, Places, Hang, Go, Running
<1>2. TypeOK'
  <2>1. at' \in [Tasks -> Places]
    BY <1>1 DEF Stands
  <2>2. UNCHANGED <<stepped, phase, due, notes, stopping, parked, health, output, dog, polls, stepOk, slow>>
    BY DEF Hang, health, output
  <2>3. QED
    BY <2>1, <2>2 DEF TaskInv, TypeOK, Oldest, kernel, health, output
<1>3. Handshake'
  BY TaskNames DEF TaskInv, Stands, TypeOK, Handshake, Stepping, Winding, Periodic, Rests, InStep, Woken,
     Hang, Watched, Go, Running
<1>4. QED
  BY <1>1, <1>2, <1>3 DEF TaskInv

LEMMA ResetWhole ==
  ASSUME TaskInv, Reset PROVE TaskInv'
<1>1. Stands'
  BY TaskNames DEF TaskInv, Stands, Places, Reset, Boot
<1>2. TypeOK'
  <2>1. notes' \in [Tasks -> 0 .. 1] /\ due' \in [Tasks -> Int]
    BY DEF Reset
  <2>2. seen' \subseteq Critical /\ age' \in [Critical -> 0 .. Oldest]
    BY OldestAge DEF Reset
  <2>3. dog' \in 0 .. WatchdogTimeout
    BY Constants DEF Reset
  <2>4. drive' \in BOOLEAN /\ inhibited' \in BOOLEAN
    BY DEF Reset
  <2>5. UNCHANGED <<stepped, phase, stopping, parked, victim, dropping, polls, stepOk, slow>>
    BY DEF Reset
  <2>6. QED
    BY <2>1, <2>2, <2>3, <2>4, <2>5 DEF TaskInv, TypeOK, Oldest, kernel, health, output
<1>3. Handshake'
  BY TaskNames DEF TaskInv, Stands, TypeOK, Handshake, Stepping, Winding, Periodic, Rests, InStep, Woken,
     Reset, Watched, Boot
<1>4. QED
  BY <1>1, <1>2, <1>3 DEF TaskInv

LEMMA CountdownTypes == TaskInv => Countdown \in [Tasks -> Int]
BY Typed, TaskNames, Constants DEF Countdown

LEMMA TickWhole ==
  ASSUME TaskInv, Tick PROVE TaskInv'
<1>1. Stands'
  BY TaskNames DEF TaskInv, Stands, Places, Tick
<1>2. TypeOK'
  <2>1. due' \in [Tasks -> Int]
    BY CountdownTypes DEF Tick
  <2>2. age' \in [Critical -> 0 .. Oldest]
    BY Typed, OldestAge DEF Tick, Older
  <2>3. dog' \in 0 .. WatchdogTimeout
    BY Typed, Constants DEF Tick
  <2>4. slow' \in 0 .. SlowTicks
    BY Typed, Constants DEF Tick, TickComes
  <2>5. UNCHANGED <<stepped, phase, at, notes, stopping, parked, seen, victim, dropping, output, polls, stepOk>>
    BY DEF Tick, output
  <2>6. QED
    BY <2>1, <2>2, <2>3, <2>4, <2>5 DEF TaskInv, TypeOK, Oldest, kernel, health, output
<1>3. Handshake'
  BY TaskNames DEF TaskInv, Stands, TypeOK, Handshake, Stepping, Winding, Periodic, Rests, InStep, Woken,
     Tick
<1>4. QED
  BY <1>1, <1>2, <1>3 DEF TaskInv

LEMMA StutterWhole ==
  ASSUME TaskInv, UNCHANGED vars PROVE TaskInv'
<1>1. Stands'
  BY DEF TaskInv, Stands, vars, kernel
<1>2. TypeOK'
  BY DEF TaskInv, TypeOK, Oldest, vars, kernel, health, output
<1>3. Handshake'
  BY DEF TaskInv, Handshake, Stepping, Winding, Periodic, Rests, InStep, Woken, vars, kernel
<1>4. QED
  BY <1>1, <1>2, <1>3 DEF TaskInv

LEMMA WholeStep == TaskInv /\ [Next]_vars => TaskInv'
<1> SUFFICES ASSUME TaskInv, [Next]_vars PROVE TaskInv'
  OBVIOUS
<1>1. CASE SafetyTask
  BY <1>1, TaskNames, Constants, BeginWhole, SafetyWorkWhole, EndWhole DEF SafetyTask
<1>2. CASE MotionTask
  BY <1>2, TaskNames, Constants, BeginWhole, MotionWorkWhole, EndWhole, DisableWhole DEF MotionTask
<1>3. CASE CommsTask \/ TelemetryTask
  BY <1>3, TaskNames, BeginWhole, HeardWhole, CommsWorkWhole, TelemetryWhole DEF CommsTask, TelemetryTask
<1>4. CASE HarnessTask
  BY <1>4, ReleaseSafetyWhole, ReleaseMotionWhole, ReturnSafetyWhole, ReturnMotionWhole, WakeMotionWhole,
     WakeSafetyWhole, PollWhole DEF HarnessTask
<1>5. CASE Cycle \/ DropHeartbeats \/ Conclude
  BY <1>5, CycleWhole, DropWhole, ConcludeWhole
<1>6. CASE Tick \/ Interrupt \/ Reset
  BY <1>6, TickWhole, InterruptWhole, ResetWhole
<1>7. CASE \E t \in Critical : Hang(t)
  BY <1>7, HangWhole
<1>8. CASE UNCHANGED vars
  BY <1>8, StutterWhole
<1>9. QED
  BY <1>1, <1>2, <1>3, <1>4, <1>5, <1>6, <1>7, <1>8 DEF Next

LEMMA TasksStayWhole == Spec => []TaskInv
BY StartsWhole, WholeStep, PTL DEF Spec

\* The system keeps its types, from any instant a task is stopped at or reset.
THEOREM TasksAreTyped == Spec => []TypeOK
<1>1. TaskInv => TypeOK
  BY DEF TaskInv
<1>2. QED
  BY <1>1, TasksStayWhole, PTL

\* runtime.c:101-135.  A step of Motion or Safety returns true and has then run
\* its cycle from begin to begin, whatever the time-out of the harness: the two
\* notification counts are a handshake, and the priorities see to it that the
\* harness only looks at its own when the answer is there.
THEOREM StepsRunWhole == Spec => []StepsAreWhole
<1>1. TaskInv => StepsAreWhole
  BY TaskNames DEF TaskInv, Handshake, Stepping, Rests, StepsAreWhole
<1>2. QED
  BY <1>1, TasksStayWhole, PTL

----------------------------------------------------------------------------
(***************************************************************************)
(* The pace of the releases.                                               *)
(***************************************************************************)
LEMMA Periods ==
  /\ Period("Safety") = SafetyPeriod /\ Period("Motion") = MotionPeriod
  /\ Period("Telemetry") = TelemetryPeriod /\ Period("Comms") = CommsPeriod
  /\ \A t \in Firmware : Period(t) \in Nat \ {0}
BY TaskNames, Constants DEF Period

LEMMA NoneHung == Hung = {} <=> \A t \in Tasks : at[t] # "hung"
BY DEF Hung

LEMMA PaceStarts == Init => Pace
<1> SUFFICES ASSUME Init PROVE Pace
  OBVIOUS
<1>1. \A t \in Tasks : due[t] = 0 /\ at[t] # "hung" /\ at[t] # "sleep"
  BY DEF Init, Boot
<1>2. QED
  BY <1>1, TaskNames, Periods, Constants, NoneHung DEF Pace

\* A task that begins finds its release past, unless it takes a step.
LEMMA BeginPace ==
  ASSUME TaskInv, Pace, NEW t \in Firmware, Begin(t) PROVE Pace'
<1>1. Hung' \subseteq Hung
  BY Typed, TaskNames DEF Hung, Begin, Park, Listen, Go
<1>2. t # "Comms" => due' = due
  BY DEF Begin, Park
<1>3. CASE t = "Comms"
  BY <1>1, <1>3, Typed, TaskNames, Periods, Constants DEF Pace, Begin, Park, Listen, Delay, Go, Period
<1>4. CASE t # "Comms"
  <2>1. due[t] <= 0
    BY ReadyAtBegin DEF Begin, Running, Pace
  <2>2. QED
    BY <1>1, <1>2, <1>4, <2>1, Typed, TaskNames, Periods DEF Pace, Begin, Park, Go, Period
<1>5. QED
  BY <1>3, <1>4

\* No other step moves a release away further than a period.
LEMMA EndPace ==
  ASSUME TaskInv, Pace, NEW t \in Stepped, End(t, Period(t)) PROVE Pace'
<1>1. Hung' \subseteq Hung
  BY Typed, TaskNames DEF Hung, End, PeriodicWait, Go
<1>2. due[t] <= 0 /\ Period(t) \in Nat \ {0}
  BY TaskNames, Periods DEF Pace, End, Running
<1>3. QED
  BY <1>1, <1>2, Typed, TaskNames, Periods DEF Pace, End, PeriodicWait, Delay, Go, Period

LEMMA TelemetryPace ==
  ASSUME TaskInv, Pace, TelemetryWork PROVE Pace'
<1>1. Hung' \subseteq Hung
  BY Typed, TaskNames DEF Hung, TelemetryWork, PeriodicWait, Go
<1>2. due["Telemetry"] <= 0
  BY DEF Pace, TelemetryWork, Running
<1>3. QED
  BY <1>1, <1>2, Typed, TaskNames, Periods, Constants DEF Pace, TelemetryWork, PeriodicWait, Delay, Go, Period

LEMMA CommsPace ==
  ASSUME TaskInv, Pace, Heard \/ CommsWork \/ Interrupt PROVE Pace'
<1>1. Hung' \subseteq Hung
  BY Typed, TaskNames DEF Hung, Heard, Park, CommsWork, Interrupt, Go
<1>2. CASE Heard
  BY <1>1, <1>2, Typed, TaskNames, Periods DEF Pace, Heard, Park, Go, Period
<1>3. CASE CommsWork
  BY <1>1, <1>3, Typed, TaskNames, Periods, Constants DEF Pace, CommsWork, Delay, Go, Period
<1>4. CASE Interrupt
  BY <1>1, <1>4 DEF Pace, Interrupt, Period
<1>5. QED
  BY <1>2, <1>3, <1>4

LEMMA WorkPace ==
  ASSUME TaskInv, Pace, SafetyWork \/ MotionWork \/ Disable PROVE Pace'
<1>1. Hung' \subseteq Hung
  BY Typed, TaskNames DEF Hung, SafetyWork, MotionWork, Disable, Go
<1>2. UNCHANGED <<stepped, stopping, due>>
  BY DEF SafetyWork, MotionWork, Disable
<1>3. QED
  BY <1>1, <1>2, Typed, TaskNames DEF Pace, SafetyWork, MotionWork, Disable, Go, Running, Period

LEMMA HarnessPace ==
  ASSUME TaskInv, Pace, HarnessTask \/ Cycle \/ DropHeartbeats PROVE Pace'
<1>1. /\ \A t \in Firmware : at'[t] = at[t] /\ due'[t] = due[t]
      /\ at'["Harness"] # "hung" /\ (at'["Harness"] = "sleep" => due'["Harness"] <= 1)
      /\ UNCHANGED <<stepped, stopping>>
  <2>1. CASE HarnessTask
    BY <2>1, Typed, TaskNames DEF HarnessTask, Release, Return, WakeStepped, Poll, Go, Delay
  <2>2. CASE Cycle \/ DropHeartbeats
    BY <2>2, Typed, TaskNames DEF Cycle, DropHeartbeats, kernel, Go, Pace, TaskInv, Stands
  <2>3. QED
    BY <2>1, <2>2
<1>2. Hung' \subseteq Hung
  BY <1>1, TaskNames DEF Hung
<1>3. QED
  BY <1>1, <1>2, TaskNames DEF Pace, Period

LEMMA ConcludePace ==
  ASSUME TaskInv, Pace, Conclude PROVE Pace'
<1>1. /\ \A t \in Firmware : at'[t] = at[t]
      /\ at'["Harness"] \in {"wakeMotion", "poll"} /\ UNCHANGED <<stepped, due>>
  BY Typed, TaskNames DEF Conclude, Go
<1>2. Hung = {} /\ Hung' = {}
  BY <1>1, TaskNames, NoneHung DEF Conclude, Hung
<1>3. QED
  BY <1>1, <1>2, TaskNames DEF Pace, Period

LEMMA FaultPace ==
  ASSUME TaskInv, Pace, Reset \/ \E t \in Critical : Hang(t) PROVE Pace'
<1>1. ~stepped' /\ ~stopping'
  BY DEF Reset, Hang, Watched
<1>2. CASE Reset
  <2>1. \A t \in Tasks : due'[t] = 0 /\ at'[t] # "hung" /\ at'[t] # "sleep"
    BY <1>2 DEF Reset, Boot
  <2>2. QED
    BY <1>1, <2>1, TaskNames, Periods, Constants DEF Pace, Period
<1>3. CASE \E t \in Critical : Hang(t)
  BY <1>1, <1>3, Typed, TaskNames DEF Pace, Hang, Go, Period
<1>4. QED
  BY <1>2, <1>3

LEMMA CountdownFalls ==
  ASSUME TaskInv, NEW t \in Tasks
  PROVE  /\ Countdown[t] <= due[t] /\ Countdown[t] \in Int
         /\ due[t] > 0 /\ at[t] \notin {"parked", "hung"} /\ ~(stepped /\ t \in Stepped) =>
              Countdown[t] = due[t] - 1
BY Typed, TaskNames, Constants DEF Countdown

LEMMA TickPace ==
  ASSUME TaskInv, Pace, Tick PROVE Pace'
<1>1. /\ \A t \in Tasks : due'[t] <= due[t] /\ due'[t] \in Int /\ due[t] \in Int
      /\ UNCHANGED <<stepped, stopping, at>>
  BY CountdownFalls, Typed DEF Tick
<1>2. Hung' = Hung
  BY <1>1 DEF Hung
<1>3. QED
  BY <1>1, <1>2, TaskNames, Periods, Constants DEF Pace, Period

LEMMA PaceKept == TaskInv /\ Pace /\ [Next]_vars => Pace'
<1> SUFFICES ASSUME TaskInv, Pace, [Next]_vars PROVE Pace'
  OBVIOUS
<1>1. CASE SafetyTask
  BY <1>1, TaskNames, Periods, BeginPace, WorkPace, EndPace DEF SafetyTask
<1>2. CASE MotionTask
  BY <1>2, TaskNames, Periods, BeginPace, WorkPace, EndPace DEF MotionTask
<1>3. CASE CommsTask \/ TelemetryTask
  BY <1>3, TaskNames, BeginPace, CommsPace, TelemetryPace DEF CommsTask, TelemetryTask
<1>4. CASE HarnessTask \/ Cycle \/ DropHeartbeats \/ Conclude
  BY <1>4, HarnessPace, ConcludePace
<1>5. CASE Tick \/ Interrupt \/ Reset
  BY <1>5, TickPace, CommsPace, FaultPace
<1>6. CASE \E t \in Critical : Hang(t)
  BY <1>6, FaultPace
<1>7. CASE UNCHANGED vars
  BY <1>7 DEF Pace, Period, Hung, vars, kernel
<1>8. QED
  BY <1>1, <1>2, <1>3, <1>4, <1>5, <1>6, <1>7 DEF Next

----------------------------------------------------------------------------
(***************************************************************************)
(* What a tick, and the step of another task, leave as it is.              *)
(***************************************************************************)
\* A tick passes while a task works, or while nobody but a spinning task and
\* those below it is ready.
LEMMA TickKinds ==
  ASSUME TaskInv, Tick
  PROVE  \/ slow' = slow - 1 /\ slow > 0
         \/ /\ slow' = slow
            /\ \A t \in Firmware : Ready(t) => at[t] = "hung" \/ Preempted(t)
            /\ Ready("Harness") => Preempted("Harness") \/ at["Harness"] = "idle"
<1>1. \A t \in Firmware : at[t] # "idle"
  BY TaskNames DEF TaskInv, Stands
<1>2. at["Harness"] # "hung"
  BY DEF TaskInv, Stands
<1>3. QED
  BY <1>1, <1>2, TaskNames DEF Tick, TickComes, Hung

LEMMA SafetyWaits ==
  ASSUME TaskInv, Tick, slow' = slow PROVE at["Safety"] = "hung" \/ ~Ready("Safety")
BY TickKinds, Typed, SafetyIsTop, TaskNames

\* Without a task that spins there is nothing to preempt for.
LEMMA QuietTick ==
  ASSUME TaskInv, Tick, slow' = slow, Hung = {} PROVE \A t \in Firmware : ~Ready(t)
<1>1. /\ \A t \in Firmware : Ready(t) => Preempted(t)
      /\ Ready("Harness") => Preempted("Harness") \/ at["Harness"] = "idle"
  BY TickKinds, Typed, NoneHung, TaskNames
<1>2. ~Ready("Safety")
  BY <1>1, SafetyIsTop, TaskNames
<1>3. ~Preempted("Motion")
  BY <1>2, Ranks, TaskNames DEF Preempted
<1>4. ~Ready("Motion")
  BY <1>1, <1>3, TaskNames
<1>5. ~Ready("Comms")
  BY <1>1, <1>2, <1>4, Ranks, TaskNames DEF Preempted
<1>6. ~Ready("Telemetry")
  BY <1>1, <1>2, <1>4, <1>5, Ranks, TaskNames DEF Preempted
<1>7. QED
  BY <1>2, <1>4, <1>5, <1>6, TaskNames

\* A task that is not ready waits for time to pass.
LEMMA Waiting ==
  ASSUME TaskInv, NEW t \in Firmware, ~Ready(t)
  PROVE  \/ at[t] \in {"begin", "wait"} /\ due[t] > 0
         \/ WaitsForStep(t)
         \/ at[t] = "parked"
<1>1. at[t] \in {"begin", "work", "end", "hung", "disable", "parked", "wait"} /\ t # "Harness"
  BY TaskNames DEF TaskInv, Stands
<1>2. due[t] \in Int
  BY Typed, TaskNames
<1>3. QED
  BY <1>1, <1>2 DEF Ready

Own(t) ==
  \/ t = "Safety" /\ SafetyTask
  \/ t = "Motion" /\ MotionTask
  \/ t = "Comms" /\ CommsTask
  \/ t = "Telemetry" /\ TelemetryTask

LeftAlone(t) ==
  /\ UNCHANGED <<at[t], due[t], slow>>
  /\ t \in Critical => UNCHANGED age[t] /\ (t \in seen' <=> t \in seen)

\* Of the others' steps only the faults and the harness's clock concern a task.
LEMMA OtherTasks ==
  ASSUME TaskInv, [Next]_vars, NEW t \in Firmware
  PROVE  Own(t) \/ Tick \/ Reset \/ (\E u \in Critical : Hang(u)) \/ Cycle \/ LeftAlone(t)
<1>1. ASSUME NEW u \in Firmware, u # t,
             Begin(u) \/ (u \in Stepped /\ \E period \in Nat : End(u, period))
      PROVE  LeftAlone(t)
  BY <1>1, Typed, TaskNames
     DEF LeftAlone, Begin, Park, Beat, Listen, End, PeriodicWait, Delay, Go, health
<1>2. CASE SafetyTask
  <2>1. CASE SafetyWork /\ t # "Safety"
    BY <2>1, Typed, TaskNames DEF LeftAlone, SafetyWork, Go, health
  <2>2. QED
    BY <1>1, <1>2, <2>1, TaskNames, Constants DEF SafetyTask, Own
<1>3. CASE MotionTask
  <2>1. CASE (MotionWork \/ Disable) /\ t # "Motion"
    BY <2>1, Typed, TaskNames DEF LeftAlone, MotionWork, Disable, Beat, Go, health
  <2>2. QED
    BY <1>1, <1>3, <2>1, TaskNames, Constants DEF MotionTask, Own
<1>4. CASE CommsTask
  <2>1. CASE (Heard \/ CommsWork) /\ t # "Comms"
    BY <2>1, Typed, TaskNames DEF LeftAlone, Heard, Park, CommsWork, Delay, Go, health
  <2>2. QED
    BY <1>1, <1>4, <2>1, TaskNames DEF CommsTask, Own
<1>5. CASE TelemetryTask
  <2>1. CASE TelemetryWork /\ t # "Telemetry"
    BY <2>1, Typed, TaskNames DEF LeftAlone, TelemetryWork, PeriodicWait, Delay, Go, health
  <2>2. QED
    BY <1>1, <1>5, <2>1, TaskNames DEF TelemetryTask, Own
<1>6. CASE HarnessTask
  BY <1>6, Typed, TaskNames DEF LeftAlone, HarnessTask, Release, Return, WakeStepped, Poll, Delay, Go, health
<1>7. CASE DropHeartbeats \/ Conclude
  BY <1>7, Typed, TaskNames DEF LeftAlone, DropHeartbeats, Conclude, Go, kernel, health
<1>8. CASE Interrupt \/ UNCHANGED vars
  BY <1>8 DEF LeftAlone, Interrupt, vars, kernel, health
<1>9. QED
  BY <1>2, <1>3, <1>4, <1>5, <1>6, <1>7, <1>8 DEF Next

\* Spinning is for ever, or until the reset.
LEMMA HungStays ==
  ASSUME TaskInv, [Next]_vars, ~Reset PROVE Hung \subseteq Hung'
<1> SUFFICES ASSUME NEW t \in Firmware, at[t] = "hung" PROVE at'[t] = "hung"
  BY TaskNames DEF Hung, TaskInv, Stands
<1>1. ~Own(t)
  BY DEF Own, SafetyTask, MotionTask, CommsTask, TelemetryTask, Begin, SafetyWork, MotionWork, Disable, End,
     Heard, CommsWork, TelemetryWork, Running
<1>2. CASE Tick \/ Cycle
  BY <1>2, Typed, TaskNames DEF Tick, Cycle, Go
<1>3. CASE \E u \in Critical : Hang(u)
  BY <1>3, Typed, TaskNames DEF Hang, Go
<1>4. QED
  BY <1>1, <1>2, <1>3, OtherTasks DEF LeftAlone

----------------------------------------------------------------------------
(***************************************************************************)
(* The beats: who lives is fresh.                                          *)
(***************************************************************************)
Alive == Watched /\ Hung = {}

\* The mode never changes, and no one takes a request to stop back.
LEMMA ModeStays ==
  ASSUME [Next]_vars PROVE stepped' = stepped /\ (stopping' = stopping \/ stopping')
<1>1. CASE SafetyTask \/ MotionTask
  BY <1>1 DEF SafetyTask, MotionTask, Begin, SafetyWork, MotionWork, Disable, End
<1>2. CASE CommsTask \/ TelemetryTask
  BY <1>2 DEF CommsTask, TelemetryTask, Begin, Heard, CommsWork, TelemetryWork
<1>3. CASE HarnessTask
  BY <1>3 DEF HarnessTask, Release, Return, WakeStepped, Poll
<1>4. CASE Cycle \/ DropHeartbeats
  BY <1>4 DEF Cycle, DropHeartbeats
<1>5. CASE Conclude
  BY <1>5 DEF Conclude
<1>6. CASE Tick \/ Interrupt \/ Reset
  BY <1>6 DEF Tick, Interrupt, Reset
<1>7. CASE (\E t \in Critical : Hang(t)) \/ UNCHANGED vars
  BY <1>7 DEF Hang, vars
<1>8. QED
  BY <1>1, <1>2, <1>3, <1>4, <1>5, <1>6, <1>7 DEF Next

LEMMA StillAlive ==
  ASSUME TaskInv, [Next]_vars, Alive', ~Reset
  PROVE  Alive /\ (\A t \in Critical : ~Hang(t)) /\ ~Cycle /\ ~Conclude
<1>1. Watched
  <2>1. stepped' = stepped /\ (stopping' = stopping \/ stopping')
    BY ModeStays
  <2>2. QED
    BY <2>1 DEF Alive, Watched
<1>2. Hung = {}
  BY HungStays DEF Alive
<1>3. ASSUME NEW t \in Critical, Hang(t) PROVE FALSE
  <2>1. at'[t] = "hung" /\ t \in Tasks
    BY <1>3, Typed, TaskNames DEF Hang, Go
  <2>2. QED
    BY <2>1 DEF Alive, Hung
<1>4. ~Cycle /\ ~Conclude
  BY DEF Cycle, Conclude, Alive, Watched
<1>5. QED
  BY <1>1, <1>2, <1>3, <1>4 DEF Alive

LEMMA Counting ==
  ASSUME TaskInv
  PROVE  /\ \A t \in Firmware : due[t] \in Int /\ Left(t) \in Nat /\ Left(t) >= due[t]
         /\ \A t \in Critical : age[t] \in Nat
         /\ slow \in Nat /\ slow <= SlowTicks /\ SlowTicks \in Nat /\ phase \in Nat /\ dog \in Nat
BY Typed, TaskNames, Constants, OldestAge DEF Left

\* A tick ages everybody by at most one, and lessens what a task waits for or
\* what may yet pass while one works.
LEMMA TickCounts ==
  ASSUME TaskInv, Tick
  PROVE  /\ \A t \in Critical : age'[t] <= age[t] + 1
         /\ \A t \in Firmware : Left(t)' <= Left(t) /\ Left(t)' \in Nat
         /\ slow' = slow \/ slow' = slow - 1
<1>1. \A t \in Critical : age'[t] <= age[t] + 1
  BY Typed, OldestAge DEF Tick, Older
<1>2. \A t \in Firmware : Left(t)' <= Left(t) /\ Left(t)' \in Nat
  BY Typed, CountdownFalls, TaskNames DEF Left, Tick
<1>3. QED
  BY <1>1, <1>2, TickKinds

\* While all live, either the work's allowance pays for a tick, or the task has
\* been waiting for it.
LEMMA AliveTick ==
  ASSUME TaskInv, Tick, Hung = {}, NEW t \in Firmware, ~WaitsForStep(t), at[t] # "parked"
  PROVE  /\ at[t] \in {"begin", "wait"} => Left(t)' + slow' <= Left(t) + slow - 1
         /\ at[t] \notin {"begin", "wait"} => slow' = slow - 1
<1>1. CASE slow' = slow
  <2>1. at[t] \in {"begin", "wait"} /\ due[t] > 0
    BY <1>1, QuietTick, Waiting
  <2>2. due'[t] = due[t] - 1
    BY <2>1, CountdownFalls, TaskNames DEF Tick, WaitsForStep, TaskInv, Stands
  <2>3. QED
    BY <1>1, <2>1, <2>2, Counting DEF Left
<1>2. CASE slow' = slow - 1
  BY <1>2, TickCounts, Counting, Typed
<1>3. QED
  BY <1>1, <1>2, TickCounts

LEMMA Dropping == [Next]_vars => dropping' = dropping \/ stepped
<1> SUFFICES ASSUME [Next]_vars PROVE dropping' = dropping \/ stepped
  OBVIOUS
<1>1. CASE SafetyTask \/ MotionTask
  BY <1>1 DEF SafetyTask, MotionTask, Begin, SafetyWork, MotionWork, Disable, End, health
<1>2. CASE CommsTask \/ TelemetryTask
  BY <1>2 DEF CommsTask, TelemetryTask, Begin, Heard, CommsWork, TelemetryWork, health
<1>3. CASE HarnessTask
  BY <1>3 DEF HarnessTask, Release, Return, WakeStepped, Poll, health
<1>4. CASE Cycle \/ DropHeartbeats \/ Conclude
  BY <1>4 DEF Cycle, DropHeartbeats, Conclude, health
<1>5. CASE Tick \/ Interrupt \/ Reset
  BY <1>5 DEF Tick, Interrupt, Reset, health
<1>6. CASE (\E t \in Critical : Hang(t)) \/ UNCHANGED vars
  BY <1>6 DEF Hang, vars, health
<1>7. QED
  BY <1>1, <1>2, <1>3, <1>4, <1>5, <1>6 DEF Next

\* A beat that is not dropped makes its task fresh.
LEMMA BeatCounts ==
  ASSUME TaskInv, ~dropping, NEW t \in Critical, Beat(t)
  PROVE  age'[t] = 0 /\ t \in seen'
BY Typed DEF Beat

LEMMA SafetyBeat ==
  ASSUME TaskInv, TaskInv', Pace, Pace', Alive, ~dropping, SafetyTask, Watched',
         "Safety" \in seen => SafetyBeats, "Safety" \in seen'
  PROVE  SafetyBeats'
<1>1. CASE Begin("Safety")
  <2>1. age'["Safety"] = 0 /\ at'["Safety"] = "work" /\ slow' = slow
    BY <1>1, BeatCounts, Typed, TaskNames DEF Begin, Park, Go, Watched
  <2>2. QED
    BY <2>1, Counting DEF SafetyBeats
<1>2. CASE SafetyWork
  <2>1. /\ at["Safety"] = "work" /\ at'["Safety"] = "end" /\ UNCHANGED <<seen, age, slow>>
    BY <1>2, Typed, TaskNames DEF SafetyWork, Running, Go, health
  <2>2. QED
    BY <2>1 DEF SafetyBeats
<1>3. CASE End("Safety", SafetyPeriod)
  <2>1. /\ at["Safety"] = "end" /\ at'["Safety"] = "begin" /\ UNCHANGED <<seen, age, slow>>
    BY <1>3, Typed, TaskNames DEF End, PeriodicWait, Running, Go, health
  <2>2. Left("Safety")' <= SafetyPeriod /\ Left("Safety")' \in Nat
    BY Periods, Constants, TaskNames, Typed DEF Pace, Left, TaskInv, TypeOK, Period
  <2>3. QED
    BY <2>1, <2>2, Counting, Constants, TaskNames DEF SafetyBeats
<1>4. QED
  BY <1>1, <1>2, <1>3 DEF SafetyTask

LEMMA MotionBeat ==
  ASSUME TaskInv, TaskInv', Pace, Pace', Alive, ~dropping, MotionTask, Watched',
         "Motion" \in seen => MotionBeats, "Motion" \in seen'
  PROVE  MotionBeats'
<1>1. CASE Begin("Motion")
  <2>1. /\ at["Motion"] = "begin" /\ at'["Motion"] = "work" /\ UNCHANGED <<seen, age, slow>>
    BY <1>1, Typed, TaskNames DEF Begin, Park, Go, Watched, Running
  <2>2. QED
    BY <2>1, Counting, Constants, TaskNames DEF MotionBeats
<1>2. CASE MotionWork
  <2>1. age'["Motion"] = 0 /\ at'["Motion"] = "end" /\ slow' = slow
    BY <1>2, BeatCounts, Typed, TaskNames DEF MotionWork, Go
  <2>2. QED
    BY <2>1, Counting DEF MotionBeats
<1>3. CASE End("Motion", MotionPeriod)
  <2>1. /\ at["Motion"] = "end" /\ at'["Motion"] = "begin" /\ UNCHANGED <<seen, age, slow>>
    BY <1>3, Typed, TaskNames DEF End, PeriodicWait, Running, Go, health
  <2>2. Left("Motion")' <= MotionPeriod /\ Left("Motion")' \in Nat
    BY Periods, Constants, TaskNames, Typed DEF Pace, Left, TaskInv, TypeOK, Period
  <2>3. QED
    BY <2>1, <2>2, Counting, Constants, TaskNames DEF MotionBeats
<1>4. CASE Disable
  BY <1>4 DEF Disable, Running, MotionBeats, health
<1>5. QED
  BY <1>1, <1>2, <1>3, <1>4 DEF MotionTask

LEMMA CommsBeat ==
  ASSUME TaskInv, TaskInv', Pace, Pace', Alive, ~dropping, CommsTask, Watched',
         "Comms" \in seen => CommsBeats, "Comms" \in seen'
  PROVE  CommsBeats'
<1>1. CASE Begin("Comms")
  <2>1. /\ age'["Comms"] = 0 /\ at'["Comms"] = "wait" /\ due'["Comms"] = CommsPeriod /\ slow' = slow
    BY <1>1, BeatCounts, Typed, TaskNames DEF Begin, Park, Listen, Delay, Go, Watched
  <2>2. QED
    BY <2>1, Counting, Constants DEF CommsBeats, Left
<1>2. CASE Heard
  <2>1. /\ at["Comms"] = "wait" /\ at'["Comms"] = "work" /\ UNCHANGED <<seen, age, slow>>
    BY <1>2, Typed, TaskNames DEF Heard, Park, Go, Watched, Running, health
  <2>2. QED
    BY <2>1, Counting, Constants, TaskNames DEF CommsBeats
<1>3. CASE CommsWork
  <2>1. /\ at["Comms"] = "work" /\ at'["Comms"] = "begin" /\ UNCHANGED <<seen, age, slow>>
    BY <1>3, Typed, TaskNames DEF CommsWork, Go, Running, health
  <2>2. Left("Comms")' <= 1 /\ Left("Comms")' \in Nat
    BY <2>1, Constants, TaskNames, Typed DEF Pace, Left, TaskInv, TypeOK
  <2>3. QED
    BY <2>1, <2>2, Counting, Constants, TaskNames DEF CommsBeats
<1>4. QED
  BY <1>1, <1>2, <1>3 DEF CommsTask

LEMMA TickBeats ==
  ASSUME TaskInv, TaskInv', Tick, Alive
  PROVE  /\ SafetyBeats => SafetyBeats'
         /\ MotionBeats => MotionBeats'
         /\ CommsBeats => CommsBeats'
<1>1. /\ \A t \in Firmware : ~WaitsForStep(t)
      /\ \A t \in Critical : age[t] \in Nat /\ age'[t] \in Nat /\ age'[t] <= age[t] + 1
      /\ \A t \in Firmware : Left(t)' \in Nat /\ Left(t) \in Nat
      /\ slow \in Nat /\ slow' \in Nat /\ at' = at
  BY Counting, TickCounts, Typed, TaskNames, OldestAge DEF WaitsForStep, Alive, Watched, TaskInv, TypeOK, Tick, Older
<1>2. Hung = {}
  BY DEF Alive
<1>3. SafetyBeats => SafetyBeats'
  BY <1>1, <1>2, AliveTick, TaskNames, Constants DEF SafetyBeats
<1>4. MotionBeats => MotionBeats'
  BY <1>1, <1>2, AliveTick, TaskNames, Constants DEF MotionBeats
<1>5. CommsBeats => CommsBeats'
  BY <1>1, <1>2, AliveTick, TaskNames, Constants DEF CommsBeats
<1>6. QED
  BY <1>3, <1>4, <1>5

LEMMA BeatsKept == TaskInv /\ TaskInv' /\ Pace /\ Pace' /\ Beats /\ [Next]_vars => Beats'
<1> SUFFICES ASSUME TaskInv, TaskInv', Pace, Pace', Beats, [Next]_vars PROVE Beats'
  OBVIOUS
<1>1. ~stepped' => ~dropping'
  BY ModeStays, Dropping DEF Beats
<1> SUFFICES ASSUME Alive'
             PROVE  /\ "Safety" \in seen' => SafetyBeats'
                    /\ "Motion" \in seen' => MotionBeats'
                    /\ "Comms" \in seen' => CommsBeats'
  BY <1>1 DEF Beats, Alive
<1>2. CASE Reset
  BY <1>2 DEF Reset
<1>3. CASE ~Reset
  <2>1. Alive /\ ~Cycle /\ ~dropping /\ Watched' /\ (\A t \in Critical : ~Hang(t))
    BY <1>3, StillAlive DEF Beats, Alive, Watched
  <2>2. /\ "Safety" \in seen => SafetyBeats
        /\ "Motion" \in seen => MotionBeats
        /\ "Comms" \in seen => CommsBeats
    BY <2>1 DEF Beats, Alive
  <2>3. CASE Tick
    <3>1. seen' = seen
      BY <2>3 DEF Tick
    <3>2. QED
      BY <2>1, <2>2, <2>3, <3>1, TickBeats
  <2>4. ASSUME NEW t \in Critical, LeftAlone(t), t \in seen'
        PROVE  /\ t = "Safety" => SafetyBeats'
               /\ t = "Motion" => MotionBeats'
               /\ t = "Comms" => CommsBeats'
    BY <2>2, <2>4 DEF LeftAlone, SafetyBeats, MotionBeats, CommsBeats, Left
  <2>5. CASE ~Tick
    <3>1. \A t \in Critical : Own(t) \/ LeftAlone(t)
      BY <1>3, <2>1, <2>5, OtherTasks, TaskNames
    <3>2. "Safety" \in seen' => SafetyBeats'
      BY <2>1, <2>2, <2>4, <3>1, SafetyBeat, TaskNames DEF Own
    <3>3. "Motion" \in seen' => MotionBeats'
      BY <2>1, <2>2, <2>4, <3>1, MotionBeat, TaskNames DEF Own
    <3>4. "Comms" \in seen' => CommsBeats'
      BY <2>1, <2>2, <2>4, <3>1, CommsBeat, TaskNames DEF Own
    <3>5. QED
      BY <3>2, <3>3, <3>4
  <2>6. QED
    BY <2>3, <2>5
<1>4. QED
  BY <1>2, <1>3

\* Where the potentials are at most a period and the overruns, the ages are too.
LEMMA BeatsAreFresh == TaskInv /\ Beats => NoFalseAlarm
<1> SUFFICES ASSUME TaskInv, Beats, Alive, NEW t \in seen PROVE Fresh(t)
  BY DEF NoFalseAlarm, Alive, Watched
<1>1. t \in Critical
  BY DEF TaskInv, TypeOK
<1>2. /\ SafetyPeriod + SlowTicks <= MaxAge /\ MotionPeriod + SlowTicks <= MaxAge
      /\ CommsPeriod + 1 + SlowTicks <= MaxAge
  BY TimingAssumption DEF TimingAssumption
<1>3. age[t] <= MaxAge
  BY <1>1, <1>2, Counting, Constants, TaskNames DEF Beats, Alive, SafetyBeats, MotionBeats, CommsBeats
<1>4. QED
  BY <1>3 DEF Fresh

----------------------------------------------------------------------------
(***************************************************************************)
(* The supervision of the drive.                                           *)
(***************************************************************************)
LEMMA GateStays ==
  ASSUME [Next]_vars, ~SafetyWork, ~Reset
  PROVE  /\ inhibited' = inhibited \/ MotionWork
         /\ Tick \/ dog' = dog
         /\ drive' = drive \/ drive' = FALSE \/ drive' = ~inhibited'
<1>1. CASE SafetyTask \/ MotionTask
  BY <1>1 DEF SafetyTask, MotionTask, Begin, MotionWork, Disable, MotorOff, End, output
<1>2. CASE CommsTask \/ TelemetryTask
  BY <1>2 DEF CommsTask, TelemetryTask, Begin, Heard, CommsWork, TelemetryWork, output
<1>3. CASE HarnessTask
  BY <1>3 DEF HarnessTask, Release, Return, WakeStepped, Poll, output
<1>4. CASE Cycle \/ DropHeartbeats \/ Conclude
  BY <1>4 DEF Cycle, DropHeartbeats, Conclude, output
<1>5. CASE Tick \/ Interrupt
  BY <1>5 DEF Tick, Interrupt, output
<1>6. CASE (\E t \in Critical : Hang(t)) \/ UNCHANGED vars
  BY <1>6 DEF Hang, vars, output
<1>7. QED
  BY <1>1, <1>2, <1>3, <1>4, <1>5, <1>6 DEF Next

\* Only time ages; a beat makes young.
LEMMA Ages ==
  ASSUME TaskInv, [Next]_vars, ~Tick, ~Cycle
  PROVE  \A t \in Critical : age'[t] <= age[t] /\ age'[t] \in Nat
<1>1. \A t \in Critical : age[t] \in Nat
  BY Counting
<1>2. ASSUME NEW u \in Critical, Beat(u)
      PROVE  \A t \in Critical : age'[t] <= age[t] /\ age'[t] \in Nat
  BY <1>1, <1>2, Typed DEF Beat
<1>3. ASSUME NEW u \in Firmware, Begin(u)
      PROVE  age' = age \/ (u \in Critical /\ Beat(u))
  BY <1>3, TaskNames DEF Begin
<1>4. CASE SafetyTask \/ MotionTask \/ CommsTask \/ TelemetryTask
  <2>1. age' = age \/ \E u \in Critical : Beat(u)
    BY <1>3, <1>4, TaskNames DEF SafetyTask, MotionTask, CommsTask, TelemetryTask, SafetyWork, MotionWork, Disable,
       End, Heard, CommsWork, TelemetryWork, health
  <2>2. QED
    BY <1>1, <1>2, <2>1
<1>5. CASE HarnessTask
  BY <1>1, <1>5 DEF HarnessTask, Release, Return, WakeStepped, Poll, health
<1>6. CASE DropHeartbeats \/ Conclude \/ Interrupt
  BY <1>1, <1>6 DEF DropHeartbeats, Conclude, Interrupt, health
<1>7. CASE Reset
  BY <1>1, <1>7 DEF Reset
<1>8. CASE (\E t \in Critical : Hang(t)) \/ UNCHANGED vars
  BY <1>1, <1>8 DEF Hang, vars, health
<1>9. QED
  BY <1>4, <1>5, <1>6, <1>7, <1>8 DEF Next

\* So does an evaluation of Motion's, while Safety waits for its release.
LEMMA MotionOpens ==
  ASSUME TaskInv, Parking, MotionWork, inhibited, ~inhibited', ~stopping
  PROVE  /\ \A t \in Critical : age'[t] <= MaxAge /\ age'[t] \in Nat
         /\ dog' = dog /\ at'["Safety"] = at["Safety"] /\ at["Safety"] = "begin"
         /\ due' = due /\ slow' = slow
<1>1. \A t \in Critical : Fresh(t)
  BY DEF MotionWork, Healthy
<1>2. \A t \in Critical : age'[t] <= age[t] /\ age'[t] \in Nat /\ age[t] \in Nat
  BY Counting, Typed, TaskNames DEF MotionWork, Beat
<1>3. at["Safety"] = "begin"
  <2>1. ~Ready("Safety")
    BY Ranks, TaskNames, PreemptedBy DEF MotionWork, Running
  <2>2. at["Safety"] \notin {"work", "end", "disable"}
    BY <2>1, ReadyAtWork, TaskNames
  <2>3. at["Safety"] # "hung"
    BY <2>1, TaskNames DEF Ready, WaitsForStep
  <2>4. at["Safety"] # "parked"
    BY TaskNames DEF Parking
  <2>5. QED
    BY <2>2, <2>3, <2>4, TaskNames DEF TaskInv, Stands, Places
<1>4. QED
  BY <1>1, <1>2, <1>3, Typed, TaskNames, Constants DEF MotionWork, Fresh, Go

\* Safety's section opens the gate for tasks it has found fresh.
LEMMA SafetyOpens ==
  ASSUME TaskInv, SafetyWork, ~inhibited'
  PROVE  /\ \A t \in Critical : age'[t] <= MaxAge /\ age'[t] = age[t]
         /\ dog' = 0 /\ at'["Safety"] = "end" /\ slow' = slow
<1>1. \A t \in Critical : Fresh(t)
  BY DEF SafetyWork, Healthy
<1>2. QED
  BY <1>1, Typed, TaskNames DEF SafetyWork, Fresh, Refresh, Go, health

LEMMA TimeSupervises ==
  ASSUME TaskInv, TaskInv', Pace, Pace', [Next]_vars, ~SafetyWork, ~Reset, ~stepped, ~stopping',
         NEW t \in Critical, SeenInTime(t)
  PROVE  SeenInTime(t)'
<1>1. /\ age[t] \in Nat /\ age'[t] \in Nat /\ slow \in Nat /\ slow' \in Nat /\ slow' <= SlowTicks
      /\ dog \in Nat /\ Left("Safety") \in Nat /\ Left("Safety")' \in Nat /\ ~Cycle
      /\ at["Safety"] # "parked" /\ ~WaitsForStep("Safety")
  BY Counting, Typed, TaskNames, OldestAge
     DEF Left, TaskInv, TypeOK, Cycle, SeenInTime, WaitsForStep
<1>2. CASE Tick
  <2>1. age'[t] <= age[t] + 1 /\ Left("Safety")' <= Left("Safety") /\ at' = at
    BY <1>2, TickCounts, TaskNames DEF Tick
  <2>2. age'[t] <= MaxAge + dog'
    <3>1. dog' = dog + 1
      BY <1>2, ModeStays DEF Tick, Watched
    <3>2. QED
      BY <1>1, <2>1, <3>1, Constants DEF SeenInTime
  <2>3. CASE slow' = slow - 1
    BY <1>1, <2>1, <2>2, <2>3, Constants DEF SeenInTime
  <2>4. CASE slow' = slow
    <3>1. at["Safety"] = "hung" \/ (at["Safety"] \in {"begin", "wait"} /\ due["Safety"] > 0)
      BY <1>1, <1>2, <2>4, SafetyWaits, Waiting, TaskNames
    <3>2. at["Safety"] = "begin" => Left("Safety")' = Left("Safety") - 1
      BY <1>1, <1>2, <3>1, CountdownFalls, Counting, TaskNames DEF Left, Tick
    <3>3. QED
      BY <1>1, <2>1, <2>2, <2>4, <3>1, <3>2, Constants DEF SeenInTime
  <2>5. QED
    BY <1>2, <2>3, <2>4, TickCounts
<1>3. CASE ~Tick
  <2>1. age'[t] <= age[t] /\ dog' = dog
    BY <1>1, <1>3, Ages, GateStays
  <2>2. age'[t] <= MaxAge + dog'
    BY <1>1, <2>1, Constants DEF SeenInTime
  <2>3. CASE Begin("Safety")
    <3>1. at["Safety"] = "begin" /\ at'["Safety"] = "work" /\ slow' = slow
      BY <2>3, Typed, TaskNames DEF Begin, Park, Go, Running
    <3>2. QED
      BY <1>1, <2>1, <2>2, <3>1, Constants DEF SeenInTime
  <2>4. CASE End("Safety", SafetyPeriod)
    <3>1. at["Safety"] = "end" /\ at'["Safety"] = "begin" /\ slow' = slow
      BY <2>4, Typed, TaskNames DEF End, PeriodicWait, Running, Go
    <3>2. Left("Safety")' <= SafetyPeriod
      BY Periods, Constants, TaskNames, Typed DEF Pace, Left, TaskInv, TypeOK, Period
    <3>3. QED
      BY <1>1, <2>1, <2>2, <3>1, <3>2, Constants DEF SeenInTime
  <2>5. CASE \E u \in Critical : Hang(u)
    <3>1. /\ at'["Safety"] = at["Safety"] \/ at'["Safety"] = "hung"
          /\ UNCHANGED <<due, slow>>
      BY <2>5, Typed, TaskNames DEF Hang, Go
    <3>2. Left("Safety")' = Left("Safety")
      BY <3>1 DEF Left
    <3>3. QED
      BY <1>1, <2>1, <2>2, <3>1, <3>2, Constants DEF SeenInTime
  <2>6. CASE LeftAlone("Safety")
    <3>1. Left("Safety")' = Left("Safety") /\ at'["Safety"] = at["Safety"] /\ slow' = slow
      BY <2>6 DEF LeftAlone, Left
    <3>2. QED
      BY <1>1, <2>1, <2>2, <3>1, Constants DEF SeenInTime
  <2>7. QED
    BY <1>1, <1>3, <2>3, <2>4, <2>5, <2>6, OtherTasks, TaskNames DEF Own, SafetyTask
<1>4. QED
  BY <1>2, <1>3

LEMMA NextPhase ==
  ASSUME NEW p \in 0 .. SafetyPeriod - 1
  PROVE  (p + MotionPeriod) % SafetyPeriod = (IF p + 1 = SafetyPeriod THEN 0 ELSE p + 1)
BY Constants

\* The cycle that advances the clock to Safety's instant steps Safety next.
LEMMA ClockSupervises ==
  ASSUME TaskInv, Cycle, NEW t \in Critical, SeenInSteps(t)
  PROVE  SeenInSteps(t)'
<1>1. /\ at["Harness"] = "idle" /\ age[t] \in Nat /\ age'[t] <= age[t] + 1 /\ age'[t] \in Nat
      /\ phase \in 0 .. SafetyPeriod - 1
  BY Counting, Typed, OldestAge DEF Cycle, Running, Older
<1>2. age[t] <= MaxAge + phase
  BY <1>1 DEF SeenInSteps, Pending
<1>3. phase' = (IF phase + 1 = SafetyPeriod THEN 0 ELSE phase + 1)
  BY <1>1, NextPhase DEF Cycle
<1>4. CASE phase + 1 = SafetyPeriod
  <2>1. Pending'
    BY <1>3, <1>4, Typed, TaskNames DEF Cycle, Go, Pending
  <2>2. QED
    BY <1>1, <1>2, <1>4, <2>1, Constants DEF SeenInSteps
<1>5. CASE phase + 1 # SafetyPeriod
  <2>1. phase' = phase + 1
    BY <1>3, <1>5
  <2>2. at'["Harness"] = "stepMotion"
    BY <1>1, <2>1, Typed, TaskNames DEF Cycle, Go
  <2>3. ~Pending'
    BY <2>2 DEF Pending
  <2>4. QED
    BY <1>1, <1>2, <2>1, <2>3, Constants DEF SeenInSteps
<1>6. QED
  BY <1>4, <1>5

LEMMA PhaseStays ==
  ASSUME [Next]_vars, ~Cycle PROVE phase' = phase
<1>1. CASE SafetyTask \/ MotionTask
  BY <1>1 DEF SafetyTask, MotionTask, Begin, SafetyWork, MotionWork, Disable, End
<1>2. CASE CommsTask \/ TelemetryTask
  BY <1>2 DEF CommsTask, TelemetryTask, Begin, Heard, CommsWork, TelemetryWork
<1>3. CASE HarnessTask
  BY <1>3 DEF HarnessTask, Release, Return, WakeStepped, Poll
<1>4. CASE DropHeartbeats \/ Conclude
  BY <1>4 DEF DropHeartbeats, Conclude
<1>5. CASE Tick \/ Interrupt \/ Reset
  BY <1>5 DEF Tick, Interrupt, Reset
<1>6. CASE (\E t \in Critical : Hang(t)) \/ UNCHANGED vars
  BY <1>6 DEF Hang, vars
<1>7. QED
  BY <1>1, <1>2, <1>3, <1>4, <1>5, <1>6 DEF Next

\* A cycle of Safety stays pending until Safety's section, and none becomes so
\* but by the clock.
LEMMA PendingStays ==
  ASSUME TaskInv, [Next]_vars, ~SafetyWork, ~Cycle, stepped, ~stopping'
  PROVE  Pending' = Pending
<1>1. stepped' /\ ~stopping /\ Stepping
  <2>1. stepped' = stepped /\ (stopping' = stopping \/ stopping')
    BY ModeStays
  <2>2. stepped' /\ ~stopping
    BY <2>1
  <2>3. QED
    BY <2>2 DEF TaskInv, Handshake
<1>2. CASE Begin("Safety")
  <2>1. notes["Safety"] > 0
    BY <1>1, <1>2, ReadyForStep, TaskNames DEF Begin, Running
  <2>2. at["Harness"] = "awaitSafety" /\ notes["Safety"] = 1
    BY <1>1, <2>1, Typed, TaskNames DEF Stepping, Rests
  <2>3. at'["Harness"] = "awaitSafety" /\ at'["Safety"] = "work"
    BY <1>1, <1>2, <2>2, Typed, TaskNames DEF Begin, Park, Go
  <2>4. QED
    BY <2>2, <2>3 DEF Pending
<1>3. CASE End("Safety", SafetyPeriod)
  <2>1. at["Harness"] = "awaitSafety" /\ at["Safety"] = "end" /\ notes["Safety"] = 0
    BY <1>1, <1>3, Typed, TaskNames DEF End, Running, Stepping, Rests, InStep
  <2>2. at'["Harness"] = "awaitSafety" /\ at'["Safety"] = "begin" /\ notes'["Safety"] = 0
    BY <1>1, <1>3, <2>1, Typed, TaskNames DEF End, Go, Give
  <2>3. QED
    BY <2>1, <2>2 DEF Pending
<1>4. CASE Release("Safety", "stepSafety", "awaitSafety")
  <2>1. at["Harness"] = "stepSafety" /\ at'["Harness"] = "awaitSafety" /\ notes["Safety"] = 0
    BY <1>1, <1>4, Typed, TaskNames DEF Release, Running, Go, Stepping, Rests
  <2>2. notes'["Safety"] = 1
    BY <1>4, <2>1, Typed, TaskNames DEF Release, Give
  <2>3. QED
    BY <2>1, <2>2 DEF Pending
<1>5. CASE Return("awaitSafety", "stepMotion")
  <2>1. at["Harness"] = "awaitSafety" /\ Rests("Safety")
    BY <1>5, Answered, TaskNames DEF Return, Running
  <2>2. at'["Harness"] \in {"stepMotion", "stop"}
    BY <1>5, Typed, TaskNames DEF Return, Go
  <2>3. QED
    BY <2>1, <2>2 DEF Pending, Rests
<1>6. CASE Release("Motion", "stepMotion", "awaitMotion") \/ Return("awaitMotion", "idle")
  <2>1. /\ at["Harness"] \in {"stepMotion", "awaitMotion"}
        /\ at'["Harness"] \in {"awaitMotion", "idle", "stop"}
    BY <1>6, Typed, TaskNames DEF Release, Return, Running, Go
  <2>2. QED
    BY <2>1 DEF Pending
<1>7. CASE WakeStepped("Motion", "wakeMotion", "wakeSafety") \/ WakeStepped("Safety", "wakeSafety", "poll") \/ Poll
  BY <1>1, <1>7 DEF WakeStepped, Poll, Running, Stepping
<1>8. CASE Conclude \/ Interrupt \/ Reset \/ \E t \in Critical : Hang(t)
  BY <1>1, <1>8 DEF Conclude, Interrupt, Reset, Hang, Watched
<1>9. CASE Begin("Motion") \/ MotionWork \/ End("Motion", MotionPeriod) \/ Disable
  <2>1. UNCHANGED <<at["Harness"], at["Safety"], notes["Safety"]>>
    BY <1>9, Typed, TaskNames
       DEF Begin, TakeStep, Take, Park, MotionWork, End, Give, PeriodicWait, Disable, Go
  <2>2. QED
    BY <2>1 DEF Pending
<1>10. CASE CommsTask \/ TelemetryTask \/ Tick \/ DropHeartbeats \/ UNCHANGED vars
  <2>1. UNCHANGED <<at["Harness"], at["Safety"], notes["Safety"]>>
    BY <1>10, Typed, TaskNames
       DEF CommsTask, TelemetryTask, Begin, TakeStep, WaitsForStep, Take, Park, Listen, Heard, CommsWork, Signal,
           TelemetryWork, PeriodicWait, Tick, DropHeartbeats, kernel, vars, Go
  <2>2. QED
    BY <2>1 DEF Pending
<1>11. QED
  BY <1>2, <1>3, <1>4, <1>5, <1>6, <1>7, <1>8, <1>9, <1>10 DEF Next, SafetyTask, MotionTask, HarnessTask

LEMMA SupervisionKept ==
  TaskInv /\ TaskInv' /\ Pace /\ Pace' /\ Parking /\ Supervision /\ [Next]_vars => Supervision'
<1> SUFFICES ASSUME TaskInv, TaskInv', Pace, Pace', Parking, Supervision, [Next]_vars PROVE Supervision'
  OBVIOUS
<1>1. CASE Reset
  BY <1>1 DEF Reset, Supervision
<1>2. CASE SafetyWork
  <2>1. drive' => ~inhibited'
    BY <1>2 DEF SafetyWork
  <2>2. CASE inhibited'
    BY <2>1, <2>2 DEF Supervision
  <2>3. CASE ~inhibited'
    <3>1. /\ \A t \in Critical : age'[t] <= MaxAge /\ age'[t] \in Nat
          /\ dog' = 0 /\ at'["Safety"] = "end" /\ slow' = slow /\ phase' \in Nat /\ slow \in Nat /\ slow <= SlowTicks
      BY <1>2, <2>3, SafetyOpens, Counting, TaskNames DEF SafetyWork
    <3>2. \A t \in Critical : SeenInTime(t)'
      BY <3>1, Constants DEF SeenInTime
    <3>3. \A t \in Critical : SeenInSteps(t)'
      BY <3>1, Constants DEF SeenInSteps
    <3>4. QED
      BY <2>1, <3>2, <3>3 DEF Supervision
  <2>4. QED
    BY <2>2, <2>3
<1>3. CASE MotionWork /\ inhibited' # inhibited
  <2>1. drive' => ~inhibited'
    BY <1>3 DEF MotionWork
  <2>2. CASE inhibited'
    BY <2>1, <2>2 DEF Supervision
  <2>3. CASE ~inhibited' /\ stopping'
    BY <2>1, <2>3 DEF Supervision
  <2>4. CASE ~inhibited' /\ ~stopping'
    <3>1. inhibited /\ ~stopping
      BY <1>3, <2>4 DEF MotionWork, TaskInv, TypeOK
    <3>2. /\ \A t \in Critical : age'[t] <= MaxAge /\ age'[t] \in Nat
          /\ dog' = dog /\ at'["Safety"] = "begin" /\ due' = due /\ slow' = slow
      BY <1>3, <2>4, <3>1, MotionOpens
    <3>3. /\ dog \in Nat /\ phase' \in Nat /\ slow \in Nat /\ slow <= SlowTicks
          /\ Left("Safety")' \in Nat /\ Left("Safety")' <= SafetyPeriod
      BY <1>3, Counting, Typed, Constants, TaskNames DEF MotionWork, Left, Pace, Period, TaskInv, TypeOK
    <3>4. \A t \in Critical : SeenInTime(t)'
      BY <3>2, <3>3, Constants DEF SeenInTime
    <3>5. \A t \in Critical : SeenInSteps(t)'
      BY <3>2, <3>3, Constants DEF SeenInSteps
    <3>6. QED
      BY <2>1, <3>4, <3>5 DEF Supervision
  <2>5. QED
    BY <2>2, <2>3, <2>4
<1>4. CASE ~Reset /\ ~SafetyWork /\ ~(MotionWork /\ inhibited' # inhibited)
  <2>1. inhibited' = inhibited /\ stepped' = stepped /\ (~stopping' => ~stopping)
    <3>1. stepped' = stepped /\ (stopping' = stopping \/ stopping')
      BY ModeStays
    <3>2. inhibited' = inhibited
      BY <1>4, GateStays
    <3>3. QED
      BY <3>1, <3>2
  <2>2. drive' => ~inhibited'
    BY <1>4, <2>1, GateStays DEF Supervision
  <2>3. ASSUME ~stopping', ~inhibited', ~stepped', NEW t \in Critical
        PROVE  SeenInTime(t)'
    BY <1>4, <2>1, <2>3, TimeSupervises DEF Supervision
  <2>4. ASSUME ~stopping', ~inhibited', stepped', NEW t \in Critical
        PROVE  SeenInSteps(t)'
    <3>1. SeenInSteps(t)
      BY <2>1, <2>4 DEF Supervision
    <3>2. CASE Cycle
      BY <3>1, <3>2, ClockSupervises
    <3>3. CASE ~Cycle
      <4>1. Pending' = Pending /\ phase' = phase
        BY <1>4, <2>1, <2>4, <3>3, PendingStays, PhaseStays
      <4>2. age'[t] <= age[t] /\ age'[t] \in Nat /\ age[t] \in Nat
        <5>1. CASE Tick
          BY <2>1, <2>4, <5>1, Counting DEF Tick, Watched
        <5>2. QED
          BY <3>3, <5>1, Ages, Counting
      <4>3. QED
        BY <3>1, <4>1, <4>2, Counting, Constants DEF SeenInSteps
    <3>4. QED
      BY <3>2, <3>3
  <2>5. QED
    BY <2>2, <2>3, <2>4 DEF Supervision
<1>5. QED
  BY <1>1, <1>2, <1>3, <1>4

\* With the pace of Safety the potentials bound what the run checks.
LEMMA SupervisionHolds == TaskInv /\ Pace /\ Supervision => DriveIsSupervised
<1> SUFFICES ASSUME TaskInv, Pace, Supervision, drive, ~stopping, NEW t \in Critical
             PROVE  age[t] <= MaxAge + (IF "Safety" \in Hung THEN WatchdogTimeout
                                        ELSE SafetyPeriod + (IF stepped THEN 0 ELSE SlowTicks))
  BY DEF DriveIsSupervised
<1>1. age[t] \in Nat /\ Left("Safety") \in Nat /\ slow \in Nat /\ dog <= WatchdogTimeout /\ dog \in Nat
      /\ phase <= SafetyPeriod - 1 /\ phase \in Nat
  BY Counting, Typed, TaskNames, Constants
<1>2. "Safety" \in Hung <=> at["Safety"] = "hung"
  BY TaskNames DEF Hung
<1>3. CASE stepped
  <2>1. SeenInSteps(t) /\ "Safety" \notin Hung
    BY <1>3 DEF Supervision, Pace
  <2>2. QED
    BY <1>1, <1>3, <2>1, Constants DEF SeenInSteps
<1>4. CASE ~stepped
  <2>1. SeenInTime(t)
    BY <1>4 DEF Supervision
  <2>2. QED
    BY <1>1, <1>2, <1>4, <2>1, Constants DEF SeenInTime
<1>5. QED
  BY <1>3, <1>4

----------------------------------------------------------------------------
(***************************************************************************)
(* The parking.                                                            *)
(***************************************************************************)
\* Nothing moves once the scheduler has ended.
LEMMA Ended ==
  ASSUME TaskInv, [Next]_vars, at["Harness"] = "ended" PROVE UNCHANGED vars
<1>1. stopping
  BY DEF TaskInv, Handshake, Stepping, Periodic
<1>2. ~Tick /\ ~Interrupt /\ ~Reset /\ ~Cycle /\ ~DropHeartbeats /\ ~Conclude
  BY <1>1 DEF Tick, Interrupt, Reset, Watched, Cycle, DropHeartbeats, Conclude, Running
<1>3. ~SafetyTask /\ ~MotionTask /\ ~CommsTask /\ ~TelemetryTask
  BY DEF SafetyTask, MotionTask, CommsTask, TelemetryTask, Begin, SafetyWork, MotionWork, Disable, End, Heard,
     CommsWork, TelemetryWork, Running
<1>4. ~HarnessTask /\ \A t \in Critical : ~Hang(t)
  BY DEF HarnessTask, Release, Return, WakeStepped, Poll, Hang, Running
<1>5. QED
  BY <1>2, <1>3, <1>4 DEF Next

\* parked names the tasks that have passed a checkpoint of a stopping system.
LEMMA ParkedTogether ==
  ASSUME TaskInv, TaskInv', Parking, [Next]_vars
  PROVE  /\ parked' = {t \in Firmware : at'[t] \in {"disable", "parked"}}
         /\ parked' # {} => stopping'
<1> DEFINE Same == UNCHANGED <<parked, stopping>> /\ \A t \in Firmware :
             at'[t] \in {"disable", "parked"} <=> at[t] \in {"disable", "parked"}
<1>1. parked \subseteq Firmware /\ (parked # {} => stopping)
      /\ \A t \in Firmware : t \in parked <=> at[t] \in {"disable", "parked"}
  BY DEF Parking
<1>2. CASE Same
  BY <1>1, <1>2
<1>3. ASSUME NEW t \in Firmware, Begin(t)
      PROVE  Same \/ (Park(t) /\ stopping' = stopping)
  <2>1. CASE Park(t)
    BY <1>3, <2>1 DEF Begin
  <2>2. CASE ~Park(t)
    BY <1>3, <2>2, Typed, TaskNames DEF Begin, Listen, Go, Running
  <2>3. QED
    BY <2>1, <2>2
<1>4. ASSUME NEW t \in Firmware, Park(t), stopping' = stopping
      PROVE  /\ parked' = {u \in Firmware : at'[u] \in {"disable", "parked"}}
             /\ parked' # {} => stopping'
  <2>1. at'[t] \in {"disable", "parked"} /\ parked' = parked \cup {t} /\ stopping'
        /\ \A u \in Firmware \ {t} : at'[u] = at[u]
    BY <1>4, Typed, TaskNames DEF Park, Go
  <2>2. QED
    BY <1>1, <2>1
<1>5. CASE SafetyTask
  <2>1. CASE SafetyWork
    BY <1>2, <2>1, Typed, TaskNames DEF SafetyWork, Go, Running
  <2>2. CASE End("Safety", SafetyPeriod)
    BY <1>2, <2>2, Typed, TaskNames DEF End, PeriodicWait, Go, Running
  <2>3. QED
    BY <1>2, <1>3, <1>4, <1>5, <2>1, <2>2, TaskNames DEF SafetyTask
<1>6. CASE MotionTask
  <2>1. CASE MotionWork \/ Disable
    BY <1>2, <2>1, Typed, TaskNames DEF MotionWork, Disable, Go, Running
  <2>2. CASE End("Motion", MotionPeriod)
    BY <1>2, <2>2, Typed, TaskNames DEF End, PeriodicWait, Go, Running
  <2>3. QED
    BY <1>2, <1>3, <1>4, <1>6, <2>1, <2>2, TaskNames DEF MotionTask
<1>7. CASE CommsTask
  <2>1. CASE Heard
    <3>1. CASE Park("Comms")
      BY <1>4, <2>1, <3>1, TaskNames DEF Heard
    <3>2. CASE ~Park("Comms")
      BY <1>2, <2>1, <3>2, Typed, TaskNames DEF Heard, Go, Running
    <3>3. QED
      BY <3>1, <3>2
  <2>2. CASE CommsWork
    BY <1>2, <2>2, Typed, TaskNames DEF CommsWork, Go, Running
  <2>3. QED
    BY <1>2, <1>3, <1>4, <1>7, <2>1, <2>2, TaskNames DEF CommsTask
<1>8. CASE TelemetryTask
  <2>1. CASE TelemetryWork
    BY <1>2, <2>1, Typed, TaskNames DEF TelemetryWork, PeriodicWait, Go, Running
  <2>2. QED
    BY <1>2, <1>3, <1>4, <1>8, <2>1, TaskNames DEF TelemetryTask
<1>9. CASE HarnessTask \/ Cycle \/ DropHeartbeats
  <2>1. UNCHANGED <<parked, stopping>> /\ \A t \in Firmware : at'[t] = at[t]
    BY <1>9, Typed, TaskNames
       DEF HarnessTask, Release, Return, WakeStepped, Poll, Cycle, DropHeartbeats, kernel, Go
  <2>2. QED
    BY <1>2, <2>1
<1>10. CASE Conclude
  <2>1. parked' = parked /\ stopping' /\ \A t \in Firmware : at'[t] = at[t]
    BY <1>10, Typed, TaskNames DEF Conclude, Go
  <2>2. QED
    BY <1>1, <2>1
<1>11. CASE Tick \/ Interrupt \/ UNCHANGED vars
  BY <1>2, <1>11 DEF Tick, Interrupt, vars, kernel
<1>12. CASE Reset
  <2>1. parked' = {} /\ \A t \in Firmware : at'[t] = "begin"
    BY <1>1, <1>12, TaskNames DEF Reset, Watched, Boot
  <2>2. QED
    BY <2>1
<1>13. CASE \E t \in Critical : Hang(t)
  BY <1>2, <1>13, Typed, TaskNames DEF Hang, Go, Running
<1>14. QED
  BY <1>5, <1>6, <1>7, <1>8, <1>9, <1>10, <1>11, <1>12, <1>13 DEF Next

LEMMA OthersDoNotDrive ==
  ASSUME [Next]_vars, ~SafetyWork, ~MotionTask, ~Reset PROVE drive' = drive
<1>1. CASE SafetyTask \/ CommsTask \/ TelemetryTask
  BY <1>1 DEF SafetyTask, CommsTask, TelemetryTask, Begin, End, Heard, CommsWork, TelemetryWork, output
<1>2. CASE HarnessTask
  BY <1>2 DEF HarnessTask, Release, Return, WakeStepped, Poll, output
<1>3. CASE Cycle \/ DropHeartbeats \/ Conclude
  BY <1>3 DEF Cycle, DropHeartbeats, Conclude, output
<1>4. CASE Tick \/ Interrupt
  BY <1>4 DEF Tick, Interrupt, output
<1>5. CASE (\E t \in Critical : Hang(t)) \/ UNCHANGED vars
  BY <1>5 DEF Hang, vars, output
<1>6. QED
  BY <1>1, <1>2, <1>3, <1>4, <1>5 DEF Next

\* Only a look makes the harness sleep, and only looks are counted.
LEMMA OnlyPollSleeps ==
  ASSUME TaskInv, [Next]_vars, ~Poll
  PROVE  /\ polls' = polls
         /\ at'["Harness"] = "sleep" => at["Harness"] = "sleep" /\ (Tick \/ due'["Harness"] = due["Harness"])
         /\ at'["Harness"] = "ended" => at["Harness"] = "ended"
<1>1. CASE SafetyTask
  BY <1>1, Typed, TaskNames DEF SafetyTask, Begin, Park, Listen, SafetyWork, End, PeriodicWait, Delay, Go
<1>2. CASE MotionTask
  BY <1>2, Typed, TaskNames DEF MotionTask, Begin, Park, Listen, MotionWork, Disable, End, PeriodicWait, Delay, Go
<1>3. CASE CommsTask
  BY <1>3, Typed, TaskNames DEF CommsTask, Begin, Park, Listen, Heard, CommsWork, Delay, Go
<1>4. CASE TelemetryTask
  BY <1>4, Typed, TaskNames DEF TelemetryTask, Begin, Park, Listen, TelemetryWork, PeriodicWait, Delay, Go
<1>5. CASE HarnessTask
  BY <1>5, Typed, TaskNames DEF HarnessTask, Release, Return, WakeStepped, Go
<1>6. CASE Cycle \/ DropHeartbeats \/ Conclude
  BY <1>6, Typed, TaskNames DEF Cycle, DropHeartbeats, Conclude, kernel, Go
<1>7. CASE Tick \/ Interrupt
  BY <1>7 DEF Tick, Interrupt
<1>8. CASE Reset
  BY <1>8, TaskNames DEF Reset, Boot
<1>9. CASE (\E t \in Critical : Hang(t)) \/ UNCHANGED vars
  BY <1>9, Typed, TaskNames DEF Hang, Go, vars, kernel
<1>10. QED
  BY <1>1, <1>2, <1>3, <1>4, <1>5, <1>6, <1>7, <1>8, <1>9 DEF Next


\* Motion suspends itself with the output off, and nobody else drives.
LEMMA ParkedIsOff ==
  ASSUME TaskInv, Parking, [Next]_vars, at'["Motion"] = "parked" PROVE ~drive'
<1>1. at["Motion"] = "parked" => ~drive
  BY DEF Parking
<1>2. CASE MotionTask
  <2>1. CASE Disable
    BY <2>1 DEF Disable, MotorOff
  <2>2. CASE Begin("Motion")
    BY <2>2, Typed, TaskNames DEF Begin, Park, Go
  <2>3. CASE MotionWork
    BY <2>3, Typed, TaskNames DEF MotionWork, Go
  <2>4. CASE End("Motion", MotionPeriod)
    BY <2>4, Typed, TaskNames DEF End, PeriodicWait, Go
  <2>5. QED
    BY <1>2, <2>1, <2>2, <2>3, <2>4 DEF MotionTask
<1>3. CASE Reset
  BY <1>3 DEF Reset
<1>4. CASE ~MotionTask /\ ~Reset
  <2>1. at'["Motion"] = at["Motion"]
    <3>1. CASE Tick \/ Cycle
      BY <3>1, Typed, TaskNames DEF Tick, Cycle, Go
    <3>2. CASE \E t \in Critical : Hang(t)
      BY <3>2, Typed, TaskNames DEF Hang, Go
    <3>3. QED
      BY <1>4, <3>1, <3>2, OtherTasks, TaskNames DEF Own, LeftAlone
  <2>2. drive' = drive \/ ~drive'
    <3>1. CASE SafetyWork
      BY <3>1 DEF SafetyWork
    <3>2. CASE ~SafetyWork
      BY <1>4, <3>2, OthersDoNotDrive
    <3>3. QED
      BY <3>1, <3>2
  <2>3. QED
    BY <1>1, <2>1, <2>2
<1>5. QED
  BY <1>2, <1>3, <1>4

LEMMA WithinPeriod ==
  ASSUME TaskInv, Pace, NEW t \in Firmware
  PROVE  Remaining(t) \in Nat /\ Remaining(t) <= Period(t) /\ Period(t) \in Nat \ {0}
BY Counting, Periods, TaskNames DEF Remaining, Left, Pace

LEMMA WithinPeriodNext ==
  ASSUME TaskInv', Pace', NEW t \in Firmware
  PROVE  Remaining(t)' \in Nat /\ Remaining(t)' <= Period(t)
<1>1. due'[t] \in Int /\ due'[t] <= Period(t)
  BY TaskNames DEF TaskInv, TypeOK, Pace, Period
<1>2. Left(t)' \in Nat /\ Left(t)' <= Period(t)
  BY <1>1, Periods DEF Left
<1>3. Remaining(t)' = (IF at'[t] \in {"work", "end"} THEN Period(t) ELSE Left(t)')
  BY DEF Remaining, Period
<1>4. QED
  BY <1>2, <1>3, Periods

\* What a step that leaves a task where it stands leaves of its wait.
LEMMA SameRemaining ==
  ASSUME NEW t \in Firmware, at'[t] = at[t], due'[t] = due[t], stepped' = stepped
  PROVE  Remaining(t)' = Remaining(t) /\ (t \in Unparked' => t \in Unparked)
<1>1. Left(t)' = Left(t)
  BY DEF Left
<1>2. Remaining(t)' = (IF at'[t] \in {"work", "end"} THEN Period(t) ELSE Left(t)')
  BY DEF Remaining, Period
<1>3. t \in Unparked' => t \in Unparked
  BY DEF Unparked
<1>4. QED
  BY <1>1, <1>2, <1>3 DEF Remaining

LEMMA Stopping ==
  ASSUME TaskInv, at["Harness"] \in {"poll", "sleep"} PROVE stopping
BY DEF TaskInv, Handshake, Stepping, Periodic

\* A task that goes on after the request has its wait still before it.
LEMMA LastRound ==
  ASSUME TaskInv, TaskInv', Pace, Pace', stopping, [Next]_vars, NEW t \in Firmware, Own(t), t \in Unparked'
  PROVE  t \in Unparked /\ Remaining(t)' <= Remaining(t) /\ slow' = slow
<1>1. stepped' = stepped /\ stopping'
  BY ModeStays
<1>2. t \notin Stepped \/ ~stepped
  BY <1>1 DEF Unparked
<1>3. at'[t] \notin {"disable", "parked"}
  BY DEF Unparked
<1>4. ~Park(t)
  BY <1>3, Typed, TaskNames DEF Park, Go
<1>5. at[t] \in {"work", "end"} /\ slow' = slow
  <2>1. CASE t = "Safety"
    BY <1>4, <2>1, TaskNames DEF Own, SafetyTask, Begin, SafetyWork, End, Running
  <2>2. CASE t = "Motion"
    <3>1. ~Disable
      BY <1>3, <2>2, Typed, TaskNames DEF Disable, Go
    <3>2. QED
      BY <1>4, <2>2, <3>1, TaskNames DEF Own, MotionTask, Begin, MotionWork, End, Running
  <2>3. CASE t = "Comms"
    BY <1>4, <2>3, TaskNames DEF Own, CommsTask, Begin, Heard, CommsWork, Running
  <2>4. CASE t = "Telemetry"
    BY <1>4, <2>4, TaskNames DEF Own, TelemetryTask, Begin, TelemetryWork, Running
  <2>5. QED
    BY <2>1, <2>2, <2>3, <2>4, TaskNames
<1>6. Remaining(t) = Period(t) /\ t \in Unparked
  BY <1>2, <1>5 DEF Remaining, Unparked
<1>7. Remaining(t)' <= Period(t)
  BY WithinPeriodNext
<1>8. QED
  BY <1>5, <1>6, <1>7

LEMMA PatienceKept ==
  ASSUME TaskInv, TaskInv', Pace, Pace', Parking, [Next]_vars PROVE Patience'
<1> SUFFICES ASSUME at'["Harness"] = "sleep", NEW t \in Firmware, t \in Unparked'
             PROVE  Remaining(t)' + slow' + polls' <= Period(t) + SlowTicks + Left("Harness")'
  BY DEF Patience, Unparked, Period
<1>0. /\ Remaining(t) \in Nat /\ Remaining(t)' \in Nat /\ Remaining(t) <= Period(t) /\ Period(t) \in Nat
      /\ slow \in Nat /\ slow' \in Nat /\ slow <= SlowTicks /\ SlowTicks \in Nat
      /\ polls \in Nat /\ polls' \in Nat /\ due["Harness"] \in Int /\ due'["Harness"] \in Int
  <2>1. /\ Remaining(t) \in Nat /\ Remaining(t)' \in Nat /\ Remaining(t) <= Period(t) /\ Period(t) \in Nat
    BY WithinPeriod, WithinPeriodNext, Periods
  <2>2. slow \in Nat /\ slow <= SlowTicks /\ SlowTicks \in Nat /\ polls \in Nat /\ due["Harness"] \in Int
    BY Counting, Constants, Typed, TaskNames
  <2>3. slow' \in Nat /\ polls' \in Nat /\ due'["Harness"] \in Int
    BY Constants, TaskNames DEF TaskInv, TypeOK
  <2>4. QED
    BY <2>1, <2>2, <2>3
<1>1. CASE Poll
  <2>1. /\ polls' = polls + 1 /\ due'["Harness"] = 1 /\ UNCHANGED <<slow, stepped>>
        /\ \A u \in Firmware : at'[u] = at[u] /\ due'[u] = due[u]
    BY <1>1, Typed, TaskNames DEF Poll, Go, Delay
  <2>2. t \in Unparked /\ Remaining(t)' = Remaining(t) /\ Left("Harness")' = 1
    BY <2>1, SameRemaining DEF Left
  <2>3. CASE at["Harness"] = "poll"
    <3>1. polls = 0
      BY <2>3 DEF Parking
    <3>2. QED
      BY <1>0, <2>1, <2>2, <3>1
  <2>4. CASE at["Harness"] = "sleep"
    <3>1. due["Harness"] <= 0
      BY <1>1, <2>4, ReadyHarness DEF Poll, Running
    <3>2. Left("Harness") = 0
      BY <1>0, <3>1 DEF Left
    <3>3. Remaining(t) + slow + polls <= Period(t) + SlowTicks
      BY <1>0, <2>2, <2>4, <3>2 DEF Parking, Patience
    <3>4. QED
      BY <1>0, <2>1, <2>2, <3>3
  <2>5. QED
    BY <1>1, <2>3, <2>4 DEF Poll, Running
<1>2. CASE ~Poll
  <2>1. at["Harness"] = "sleep" /\ polls' = polls /\ (Tick \/ due'["Harness"] = due["Harness"])
    BY <1>2, OnlyPollSleeps
  <2>2. stopping /\ Hung = {} /\ ~Cycle /\ ~Reset /\ (\A u \in Critical : ~Hang(u))
    <3>1. stopping
      BY <2>1, Stopping
    <3>2. QED
      BY <2>1, <3>1 DEF Pace, Cycle, Running, Reset, Hang, Watched
  <2>3. t \in Unparked => Remaining(t) + slow + polls <= Period(t) + SlowTicks + Left("Harness")
    BY <2>1 DEF Parking, Patience
  <2>4. CASE Tick
    <3>1. at' = at /\ stepped' = stepped /\ due'["Harness"] >= due["Harness"] - 1
      BY <1>0, <2>4, Typed, TaskNames, Constants DEF Tick, Countdown
    <3>2. t \in Unparked /\ Left("Harness")' >= Left("Harness") - 1 /\ Left("Harness") \in Nat
          /\ Left("Harness")' \in Nat
      BY <1>0, <3>1 DEF Unparked, Left
    <3>3. at[t] \in {"begin", "wait", "work", "end"} /\ ~WaitsForStep(t)
      BY <2>2, <3>2, TaskNames, NoneHung DEF Unparked, WaitsForStep, TaskInv, Stands
    <3>4. Remaining(t)' + slow' <= Remaining(t) + slow - 1
      <4>1. Remaining(t)' = (IF at'[t] \in {"work", "end"} THEN Period(t) ELSE Left(t)')
        BY DEF Remaining, Period
      <4>2. CASE at[t] \in {"begin", "wait"}
        <5>1. Remaining(t)' = Left(t)' /\ Remaining(t) = Left(t)
          BY <3>1, <4>1, <4>2 DEF Remaining
        <5>2. Left(t)' + slow' <= Left(t) + slow - 1
          BY <2>2, <2>4, <3>3, <4>2, AliveTick
        <5>3. QED
          BY <5>1, <5>2
      <4>3. CASE at[t] \in {"work", "end"}
        BY <1>0, <2>2, <2>4, <3>1, <3>3, <4>1, <4>3, AliveTick DEF Remaining
      <4>4. QED
        BY <3>3, <4>2, <4>3
    <3>5. QED
      BY <1>0, <2>1, <2>3, <3>2, <3>4
  <2>5. CASE ~Tick
    <3>1. Left("Harness")' = Left("Harness") /\ Left("Harness") \in Nat
      BY <1>0, <2>1, <2>5 DEF Left
    <3>2. t \in Unparked /\ Remaining(t)' <= Remaining(t) /\ slow' = slow
      <4>1. CASE Own(t)
        BY <2>2, <4>1, LastRound
      <4>2. CASE LeftAlone(t)
        BY <1>0, <4>2, ModeStays, SameRemaining DEF LeftAlone
      <4>3. QED
        BY <2>2, <2>5, <4>1, <4>2, OtherTasks
    <3>3. QED
      BY <1>0, <2>1, <2>3, <3>1, <3>2
  <2>6. QED
    BY <2>4, <2>5
<1>3. QED
  BY <1>1, <1>2

LEMMA SleepIsLeftByPoll ==
  ASSUME TaskInv, [Next]_vars, ~Poll, at["Harness"] = "sleep" PROVE at'["Harness"] = "sleep"
<1>1. stopping
  BY Stopping
<1>2. ASSUME NEW t \in Firmware, NEW place, Go(t, place) PROVE at'["Harness"] = "sleep"
  BY <1>2, Typed, TaskNames DEF Go
<1>3. CASE SafetyTask
  BY <1>2, <1>3, TaskNames DEF SafetyTask, Begin, Park, Listen, SafetyWork, End, PeriodicWait
<1>4. CASE MotionTask
  BY <1>2, <1>4, TaskNames DEF MotionTask, Begin, Park, Listen, MotionWork, Disable, End, PeriodicWait
<1>5. CASE CommsTask
  BY <1>2, <1>5, TaskNames DEF CommsTask, Begin, Park, Listen, Heard, CommsWork
<1>6. CASE TelemetryTask
  BY <1>2, <1>6, TaskNames DEF TelemetryTask, Begin, Park, Listen, TelemetryWork, PeriodicWait
<1>7. CASE HarnessTask \/ Cycle \/ DropHeartbeats \/ Conclude
  BY <1>7 DEF HarnessTask, Release, Return, WakeStepped, Cycle, DropHeartbeats, Conclude, Running
<1>8. CASE Tick \/ Interrupt \/ Reset
  BY <1>1, <1>8 DEF Tick, Interrupt, Reset, Watched
<1>9. CASE (\E t \in Critical : Hang(t)) \/ UNCHANGED vars
  BY <1>1, <1>9 DEF Hang, Watched, vars, kernel
<1>10. QED
  BY <1>3, <1>4, <1>5, <1>6, <1>7, <1>8, <1>9 DEF Next

\* When the harness ends the scheduler, no task it waits for is left: while one
\* was, the harness had a look to spare.
LEMMA AllHaveParked ==
  ASSUME TaskInv, Pace, Parking, Poll, parked = Firmware \/ polls = Polls, NEW t \in Firmware
  PROVE  at[t] = "parked"
<1>1. at["Harness"] \in {"poll", "sleep"} /\ ~Ready("Safety") /\ ~Ready("Motion")
  BY HarnessRuns DEF Poll, Running
<1>2. at[t] \in {"disable", "parked"} => at[t] = "parked"
  <2>1. at["Motion"] # "disable"
    BY <1>1, ReadyAtWork, TaskNames
  <2>2. QED
    BY <2>1, TaskNames DEF TaskInv, Stands
<1>3. CASE parked = Firmware
  BY <1>2, <1>3 DEF Parking
<1>4. CASE polls = Polls
  <2>1. at["Harness"] = "sleep" /\ polls \in Nat
    BY <1>1, <1>4, Constants, Typed DEF Parking
  <2>2. Left("Harness") = 0
    BY <2>1, ReadyHarness, Typed, TaskNames DEF Poll, Running, Left
  <2>3. t \notin Unparked
    <3>1. SUFFICES ASSUME t \in Unparked PROVE FALSE
      OBVIOUS
    <3>2. Remaining(t) + slow + polls <= Period(t) + SlowTicks
      BY <2>1, <2>2, <3>1, Constants, Periods DEF Parking, Patience
    <3>3. Period(t) + SlowTicks < Polls
      BY TimingAssumption, TaskNames DEF TimingAssumption, Period
    <3>4. QED
      BY <1>4, <3>2, <3>3, WithinPeriod, Counting, Constants
  <2>4. CASE stepped /\ t \in Stepped
    <3>1. Woken(t)
      BY <1>1, <2>4, Stopping, TaskNames DEF TaskInv, Handshake, Winding
    <3>2. ~(at[t] = "begin" /\ notes[t] = 1)
      BY <1>1, <2>4, ReadyForStep, TaskNames
    <3>3. QED
      BY <1>2, <3>1, <3>2 DEF Woken
  <2>5. QED
    BY <1>2, <2>3, <2>4 DEF Unparked
<1>5. QED
  BY <1>3, <1>4

LEMMA ParkingKept ==
  TaskInv /\ TaskInv' /\ Pace /\ Pace' /\ Parking /\ [Next]_vars => Parking'
<1> SUFFICES ASSUME TaskInv, TaskInv', Pace, Pace', Parking, [Next]_vars PROVE Parking'
  OBVIOUS
<1>1. /\ parked' = {t \in Firmware : at'[t] \in {"disable", "parked"}}
      /\ parked' # {} => stopping'
  BY ParkedTogether
<1>2. at'["Motion"] = "parked" => ~drive'
  BY ParkedIsOff
<1>3. Patience'
  BY PatienceKept
<1>4. at'["Harness"] \notin {"sleep", "ended"} => polls' = 0
  <2>1. CASE Poll
    BY <2>1, Typed, TaskNames DEF Poll, Go
  <2>2. CASE ~Poll
    <3>1. polls' = polls /\ (at["Harness"] = "ended" => at' = at)
      BY <2>2, OnlyPollSleeps, Ended DEF vars, kernel
    <3>2. at["Harness"] = "sleep" => at'["Harness"] = "sleep"
      BY <2>2, SleepIsLeftByPoll
    <3>3. QED
      BY <3>1, <3>2 DEF Parking
  <2>3. QED
    BY <2>1, <2>2
<1>5. at'["Harness"] = "ended" => \A t \in Firmware : at'[t] = "parked"
  <2>1. CASE Poll /\ at'["Harness"] = "ended"
    <3>1. (parked = Firmware \/ polls = Polls) /\ \A t \in Firmware : at'[t] = at[t]
      BY <2>1, Typed, TaskNames DEF Poll, Go
    <3>2. QED
      BY <2>1, <3>1, AllHaveParked
  <2>2. CASE ~Poll /\ at'["Harness"] = "ended"
    BY <2>2, OnlyPollSleeps, Ended DEF vars, kernel, Parking
  <2>3. QED
    BY <2>1, <2>2
<1>6. QED
  BY <1>1, <1>2, <1>3, <1>4, <1>5 DEF Parking

----------------------------------------------------------------------------
(***************************************************************************)
(* The theorems.                                                           *)
(***************************************************************************)
RuntimeInv == TaskInv /\ Pace /\ Beats /\ Supervision /\ Parking

LEMMA RuntimeStarts == Init => RuntimeInv
<1> SUFFICES ASSUME Init PROVE RuntimeInv
  OBVIOUS
<1>1. TaskInv /\ Pace
  BY StartsWhole, PaceStarts
<1>2. /\ \A t \in Tasks : at[t] \in {"begin", "idle"}
      /\ seen = {} /\ parked = {} /\ polls = 0 /\ ~drive /\ inhibited
      /\ (~stepped => ~dropping)
  BY DEF Init, Boot
<1>3. Beats
  BY <1>2 DEF Beats
<1>4. Supervision
  BY <1>2 DEF Supervision
<1>5. Parking
  BY <1>2, TaskNames DEF Parking, Patience
<1>6. QED
  BY <1>1, <1>3, <1>4, <1>5 DEF RuntimeInv

LEMMA RuntimeKept == RuntimeInv /\ [Next]_vars => RuntimeInv'
<1> SUFFICES ASSUME RuntimeInv, [Next]_vars PROVE RuntimeInv'
  OBVIOUS
<1>1. TaskInv' /\ Pace'
  BY WholeStep, PaceKept DEF RuntimeInv
<1>2. Beats' /\ Supervision' /\ Parking'
  BY <1>1, BeatsKept, SupervisionKept, ParkingKept DEF RuntimeInv
<1>3. QED
  BY <1>1, <1>2 DEF RuntimeInv

LEMMA RuntimeStays == Spec => []RuntimeInv
BY RuntimeStarts, RuntimeKept, PTL DEF Spec

\* safety_runtime.c:29-43, safety_task.c:15-19, task_health.c.  What Safety
\* believes of the tasks is true in both directions.  The output is on only while
\* every critical task has beaten within MaxAge and one period of Safety, or the
\* watchdog's timeout when Safety itself spins; and as long as nobody hangs, none
\* that has ever beaten is taken for dead, whatever overruns, preemptions and
\* early notifications fall between two beats.
THEOREM HealthStaysExact == Spec => []HealthIsExact
<1>1. RuntimeInv => HealthIsExact
  BY SupervisionHolds, BeatsAreFresh DEF RuntimeInv, HealthIsExact
<1>2. QED
  BY <1>1, RuntimeStays, PTL

\* runtime.c:63-75 and 91-97, simulator/main.c:101-105.  Wherever the request to
\* stop finds the tasks, when the harness ends the scheduler all four have parked
\* themselves and the motor is off: the patience of the harness never runs out.
THEOREM AllTasksPark == Spec => []AllParkInTime
<1>1. RuntimeInv => AllParkInTime
  <2>1. SUFFICES ASSUME TaskInv, Parking, at["Harness"] = "ended"
                 PROVE  (\A t \in Firmware : at[t] = "parked") /\ ~drive
    BY DEF RuntimeInv, AllParkInTime
  <2>2. \A t \in Firmware : at[t] = "parked"
    BY <2>1 DEF Parking
  <2>3. ~drive
    BY <2>1, <2>2, TaskNames DEF Parking
  <2>4. QED
    BY <2>2, <2>3
<1>2. QED
  BY <1>1, RuntimeStays, PTL
=============================================================================
