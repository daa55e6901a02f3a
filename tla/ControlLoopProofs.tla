-------------------------- MODULE ControlLoopProofs --------------------------
(***************************************************************************)
(* Theorems about the control loop, for every value of the constants that  *)
(* satisfies the assumptions: type correctness, and that between any two   *)
(* sections of the two tasks the motor gate agrees with what Safety has    *)
(* decided.  The agreement is stronger than the two properties that follow *)
(* from it: the flags of the gate, not only its output, must be right in   *)
(* every state, because Motion's next duty is judged by the flags alone.   *)
(***************************************************************************)
EXTENDS ControlLoop, RuntimeProofs

\* The inductive invariant.
GateInv == TypeOK /\ Good(Counts, World)

LEMMA CountsTravel == Travel(Counts)
<1>1. MinTarget \in Int /\ MaxTarget \in Int
  BY MotionAssumption
<1>2. QED
  BY <1>1, LoopAssumption DEF Travel, Counts

LEMMA EnvType ==
  ASSUME TypeOK, NEW inputs \in Inputs PROVE Env(inputs) \in EnvSet
BY DEF TypeOK, Env, EnvSet

LEMMA ToggledType ==
  ASSUME NEW p \in Inputs PROVE Toggled(p) \subseteq Inputs
<1>1. SUFFICES ASSUME NEW i \in EnvPins PROVE [p EXCEPT ![i] = ~p[i]] \in Inputs
  BY DEF Toggled
<1>2. i = "estop" \/ i = "positive" \/ i = "negative"
  BY LoopAssumption
<1>3. QED
  BY <1>2 DEF Inputs

LEMMA BecomeWorld ==
  ASSUME NEW w, w \in Worlds(Counts), Become(w) PROVE World' = w
BY DEF Become, World, Worlds

\* A section that ends in a Good world, with well typed locals, keeps GateInv.
LEMMA SectionKeepsGateInv ==
  ASSUME NEW w, Good(Counts, w), Become(w),
         clock' \in 0 .. TimeMod - 1, pins' \in Inputs, fresh' \in BOOLEAN,
         app' \in {"BOOT", "INITIALIZING", "IDLE"},
         pc' \in {"begin", "sync", "command", "update"},
         now' \in 0 .. TimeMod - 1, before' \in MotionStates, sampled' \in BOOLEAN,
         slots' \in 0 .. CommandsPerCycle, accepted' \in 0 .. MaxOps
  PROVE  GateInv'
<1>1. World' = w
  BY BecomeWorld DEF Good
<1>2. Good(Counts, World')
  BY <1>1
<1>3. TypeOK'
  BY <1>2 DEF TypeOK, Good, Counts
<1>4. QED
  BY <1>2, <1>3 DEF GateInv, Counts

LEMMA InitGateInv == Init => GateInv
<1> SUFFICES ASSUME Init PROVE GateInv
  OBVIOUS
<1>1. 0 \in 0 .. TimeMod - 1 /\ 0 \in Counts /\ 0 \in 0 .. CommandsPerCycle /\ 0 \in 0 .. MaxOps
  BY SafetyAssumption, LoopAssumption DEF Counts
<1>2. gate \in Gate /\ SafeGate(gate) /\ gate.inhibited
  BY DutyAssumption DEF Init, Gate, GateInit, SafeGate
<1>3. safety \in SafetyRecord(Counts) /\ ~safety.valid
  BY <1>1 DEF Init, SafetyRecord, SafetyInit, SafetyStates, FaultCodes, Inputs, NoInputs
<1>4. motion \in MotionRecord(Counts) /\ pub \in Published(Counts)
  BY <1>1 DEF Init, MotionRecord, MotionInit, MotionStates, ActiveStates, HomingResults,
             Published, Snapshot
<1>5. World \in Worlds(Counts)
  BY <1>1, <1>2, <1>3, <1>4 DEF Init, World, Worlds, Reports
<1>6. TypeOK
  BY <1>1, <1>5 DEF Init, TypeOK, MotionStates
<1>7. Good(Counts, World)
  <2>1. Honest(safety) /\ safety.state = "IDLE"
    BY DEF Init, SafetyInit, NoInputs, Honest, Remembers, Heeds
  <2>2. QED
    BY <1>2, <1>3, <1>5, <2>1 DEF Good, GateAgrees, Reported, World
<1>8. QED
  BY <1>6, <1>7 DEF GateInv

----------------------------------------------------------------------------
LEMMA BeginGood ==
  ASSUME NEW w, Good(Counts, w), NEW gap
  PROVE  Good(Counts, Sample(Booted(w), gap))
<1> DEFINE off == [w EXCEPT !.gate = Disable(@)]
<1>1. Good(Counts, off)
  <2>1. w.gate \in Gate /\ w \in Worlds(Counts)
    BY DEF Good, Worlds
  <2>2. /\ off \in Worlds(Counts)
        /\ off.gate = Disable(w.gate) /\ off.safety = w.safety /\ off.report = w.report
    BY <2>1, DisableKept DEF Worlds
  <2> HIDE DEF off
  <2>3. Kept(Counts, w, off)
    BY <2>1, <2>2, ReplaceKept, DutyAssumption DEF SameVerdict
  <2>4. QED
    BY <2>3, KeptGood
<1>2. Booted(w) \in {w, off}
  BY DEF Booted
<1> HIDE DEF off
<1>3. QED
  BY <1>1, <1>2, SampleKept, GoodThenKept

\* An INTERNAL fault latches, so the enforcement that follows shuts the gate.
LEMMA InternalGood ==
  ASSUME NEW C, NEW w, Good(C, w)
  PROVE  Good(C, Enforce([w EXCEPT !.safety = InternalFault(@)]))
<1>1. w.safety \in SafetyRecord(C)
  BY DEF Good, Worlds
<1>2. Honest(InternalFault(w.safety))
  BY <1>1, InternalHonest DEF Good, Honest, Loyal
<1>3. QED
  BY <1>1, <1>2, InternalLatches, LatchGood

LEMMA SampleFailedGood ==
  ASSUME NEW w, Good(Counts, w) PROVE Good(Counts, SampleFailed(w))
<1> DEFINE counted == IF before \in ActiveStates THEN Abandon(w) ELSE w
           ended   == IF before = "HOMING" THEN HomingAbort(counted, "FAULTED") ELSE counted
<1>1. Good(Counts, counted)
  BY AbandonKept, GoodThenKept
<1> HIDE DEF counted
<1>2. Good(Counts, ended)
  <2>1. "FAULTED" \in HomingResults
    BY DEF HomingResults
  <2>2. QED
    BY <1>1, <2>1, HomingAbortKept, GoodThenKept
<1>3. SampleFailed(w) = Enforce([ended EXCEPT !.safety = InternalFault(@)])
  BY DEF SampleFailed, counted
<1> HIDE DEF ended
<1>4. QED
  BY <1>2, <1>3, InternalGood

LEMMA UpdateFailedGood ==
  ASSUME NEW w, Good(Counts, w), NEW wasActive
  PROVE  Good(Counts, UpdateFailed(w, wasActive))
<1> DEFINE counted == IF wasActive THEN Abandon(w) ELSE w
           latched == Enforce([counted EXCEPT !.safety = InternalFault(@)])
<1>1. Good(Counts, counted)
  BY AbandonKept, GoodThenKept
<1> HIDE DEF counted
<1>2. Good(Counts, latched)
  BY <1>1, InternalGood
<1>3. UpdateFailed(w, wasActive) = Sync(latched)
  BY DEF UpdateFailed, counted
<1> HIDE DEF latched
<1>4. QED
  BY <1>2, <1>3, SyncKept, GoodThenKept

LEMMA ClosedGood ==
  ASSUME TypeOK, NEW w, Good(Counts, w) PROVE Good(Counts, Closed(w))
<1> DEFINE shown == IF w.safety.state # "IDLE" THEN w.safety.state
                    ELSE IF app = "IDLE" THEN w.motion.state ELSE app
           v     == [w EXCEPT !.report = shown]
<1>1. w \in Worlds(Counts)
  BY DEF Good
<1>2. shown \in Reports
  BY <1>1 DEF TypeOK, Worlds, SafetyRecord, MotionRecord, Reports, SafetyStates, MotionStates
<1>3. w.safety.state # "IDLE" => shown = w.safety.state
  OBVIOUS
<1> HIDE DEF shown
<1>4. /\ v \in Worlds(Counts) /\ v.gate = w.gate
      /\ v.safety = w.safety /\ v.report = shown
  BY <1>1, <1>2 DEF Worlds
<1>5. Closed(w) = Publish(v)
  BY DEF Closed, shown
<1> HIDE DEF v
<1>6. Good(Counts, v)
  BY <1>3, <1>4 DEF Good, GateAgrees, Reported
<1>7. QED
  BY <1>5, <1>6, PublishKept, GoodThenKept

----------------------------------------------------------------------------
LEMMA NextGateInv == GateInv /\ [Next]_vars => GateInv'
<1> SUFFICES ASSUME GateInv, [Next]_vars PROVE GateInv'
  OBVIOUS
<1>1. TypeOK /\ Good(Counts, World) /\ Travel(Counts) /\ 0 \in Counts
  BY CountsTravel DEF GateInv, Travel
<1>2. pins \in Inputs /\ Env(pins) \in EnvSet
  BY <1>1, EnvType DEF TypeOK
<1>3. ASSUME UNCHANGED world PROVE Become(World)
  BY <1>3 DEF world, Become, World
<1>4. CASE Tick
  <2>1. (clock + 1) % TimeMod \in 0 .. TimeMod - 1
    BY <1>1, SafetyAssumption DEF TypeOK
  <2>2. QED
    BY <1>1, <1>3, <1>4, <2>1, SectionKeepsGateInv DEF Tick, TypeOK, cycle
<1>5. CASE PinChange
  <2>1. pins' \in Inputs
    BY <1>2, <1>5, ToggledType DEF PinChange
  <2>2. QED
    BY <1>1, <1>3, <1>5, <2>1, SectionKeepsGateInv DEF PinChange, TypeOK, cycle
<1>6. CASE EncoderCount
  <2> DEFINE v == [World EXCEPT !.count = count']
  <2>1. count' \in Counts /\ Become(v)
    BY <1>6 DEF EncoderCount, Become, World
  <2>2. Good(Counts, v)
    BY <1>1, <2>1 DEF Good, GateAgrees, Reported, Worlds
  <2> HIDE DEF v
  <2>3. QED
    BY <1>1, <1>6, <2>1, <2>2, SectionKeepsGateInv DEF EncoderCount, TypeOK, cycle
<1>7. CASE Heartbeats
  BY <1>1, <1>3, <1>7, SectionKeepsGateInv DEF Heartbeats, TypeOK, cycle
<1>8. CASE SafetyTask
  <2>1. Good(Counts, EvaluateNow(World, Env(pins)))
    BY <1>1, <1>2, EvaluateGood DEF Good, Honest
  <2>2. QED
    BY <1>1, <1>8, <2>1, SectionKeepsGateInv DEF SafetyTask, TypeOK, cycle
<1>9. CASE BeginCycle
  <2>1. Good(Counts, Sample(Booted(World), Gap))
    BY <1>1, BeginGood
  <2>2. motion.state \in MotionStates
    BY <1>1 DEF TypeOK, World, Worlds, MotionRecord
  <2>3. SampleOK(Gap) \in BOOLEAN /\ NextApp \in {"INITIALIZING", "IDLE"}
    BY DEF SampleOK, NextApp
  <2>4. QED
    BY <1>1, <1>9, <2>1, <2>2, <2>3, SectionKeepsGateInv DEF BeginCycle, TypeOK
<1>10. CASE SyncSection
  <2> DEFINE w == IF sampled THEN World ELSE SampleFailed(World)
  <2>1. Good(Counts, w)
    BY <1>1, SampleFailedGood
  <2>2. Become(Sync(w))
    BY <1>10 DEF SyncSection
  <2> HIDE DEF w
  <2>3. Good(Counts, Sync(w))
    BY <2>1, SyncKept, GoodThenKept
  <2>4. CommandsPerCycle \in 0 .. CommandsPerCycle /\ "IDLE" \in MotionStates
    BY LoopAssumption DEF MotionStates
  <2>5. QED
    BY <1>1, <1>10, <2>2, <2>3, <2>4, SectionKeepsGateInv DEF SyncSection, TypeOK
<1>11. CASE CommandSection
  <2>1. PICK command \in Commands :
          LET answer == IF app = "IDLE" THEN SafetyCommand(World, command, Env(pins))
                        ELSE Answer(World, "INVALID_STATE")
              starts == command.type \in OpTypes /\ answer.result = "ACCEPTED"
          IN  /\ starts => accepted < MaxOps
              /\ accepted' = IF starts THEN accepted + 1 ELSE accepted
              /\ Become(answer.world)
    BY <1>11 DEF CommandSection
  <2> DEFINE w == IF app = "IDLE" THEN SafetyCommand(World, command, Env(pins)).world
                                  ELSE World
  <2>2. Become(w)
    BY <2>1 DEF Answer
  <2>3. Good(Counts, w)
    BY <1>1, <1>2, SafetyCommandGood
  <2>4. accepted' \in 0 .. MaxOps
    BY <1>1, <2>1, LoopAssumption DEF TypeOK
  <2>5. slots' \in 0 .. CommandsPerCycle
    BY <1>1, <1>11, LoopAssumption DEF CommandSection, TypeOK
  <2> HIDE DEF w
  <2>6. QED
    BY <1>1, <1>11, <2>2, <2>3, <2>4, <2>5, SectionKeepsGateInv DEF CommandSection, TypeOK
<1>12. CASE CommandsDone
  <2>1. 0 \in 0 .. CommandsPerCycle
    BY LoopAssumption
  <2>2. QED
    BY <1>1, <1>3, <1>12, <2>1, SectionKeepsGateInv DEF CommandsDone, TypeOK
<1>13. CASE UpdateSection
  <2>1. PICK duty \in Duty, later \in {pins} \cup Toggled(pins) :
          LET synced  == Sync(World)
              updated == IF sampled THEN ControlUpdate(synced, duty, now, pins, Env(later))
                         ELSE [world |-> synced, ok |-> FALSE]
              ended   == IF updated.ok THEN updated.world
                         ELSE UpdateFailed(updated.world, synced.motion.state \in ActiveStates)
          IN  Become(Closed(ended)) /\ pins' = later
    BY <1>13 DEF UpdateSection
  <2> DEFINE synced  == Sync(World)
             updated == IF sampled THEN ControlUpdate(synced, duty, now, pins, Env(later))
                        ELSE [world |-> synced, ok |-> FALSE]
             active  == synced.motion.state \in ActiveStates
             ended   == IF updated.ok THEN updated.world
                        ELSE UpdateFailed(updated.world, active)
  <2>2. later \in Inputs
    BY <1>2, ToggledType
  <2>3. Good(Counts, synced)
    BY <1>1, SyncKept, GoodThenKept
  <2>4. Become(Closed(ended)) /\ pins' = later
    BY <2>1
  <2> HIDE DEF synced
  <2>5. Good(Counts, updated.world)
    <3>1. Good(Counts, ControlUpdate(synced, duty, now, pins, Env(later)).world)
      BY <1>1, <2>2, <2>3, EnvType, ControlUpdateGood
    <3>2. QED
      BY <2>3, <3>1
  <2> HIDE DEF updated, active
  <2>6. Good(Counts, ended)
    BY <2>5, UpdateFailedGood
  <2> HIDE DEF ended
  <2>7. Good(Counts, Closed(ended))
    BY <1>1, <2>6, ClosedGood
  <2>8. QED
    BY <1>1, <1>13, <2>2, <2>4, <2>7, SectionKeepsGateInv DEF UpdateSection, TypeOK
<1>14. CASE UNCHANGED vars
  BY <1>1, <1>3, <1>14, SectionKeepsGateInv DEF vars, TypeOK, cycle
<1>15. QED
  BY <1>4, <1>5, <1>6, <1>7, <1>8, <1>9, <1>10, <1>11, <1>12, <1>13, <1>14
     DEF Next, MotionTask

----------------------------------------------------------------------------
\* Every behaviour of the control loop is well typed: no section of either task
\* leaves a target outside the travel, a clock outside its modulus or a record
\* with a state the enumerations of the code do not have.
THEOREM TypeCorrect == Spec => []TypeOK
<1>1. GateInv => TypeOK
  BY DEF GateInv
<1>2. QED
  BY <1>1, InitGateInv, NextGateInv, PTL DEF Spec

\* Whatever Motion was doing when Safety latched, or while a heartbeat is
\* missing, the gate of motor.c is inhibited and applies nothing, for every
\* travel, every set of commands and every timing.
THEOREM LatchShutsGate == Spec => []LatchHoldsGate
<1>1. GateInv => LatchHoldsGate
  BY DEF GateInv, Good, SafeGate, GateAgrees, World, LatchHoldsGate
<1>2. QED
  BY <1>1, InitGateInv, NextGateInv, PTL DEF Spec

\* Once Safety has observed the home switch nothing drives further into it, by
\* the full inhibit or by the directional guard.
THEOREM ContactBlocksDrive == Spec => []NoDriveIntoContact
<1>1. GateInv => NoDriveIntoContact
  <2> SUFFICES ASSUME GateInv, safety.valid, safety.inputs.negative
               PROVE  gate.output >= 0
    BY DEF NoDriveIntoContact
  <2>1. SafeGate(gate) /\ (gate.inhibited \/ gate.blocked)
    BY DEF GateInv, Good, GateAgrees, World
  <2>2. QED
    BY <2>1 DEF SafeGate
<1>2. QED
  BY <1>1, InitGateInv, NextGateInv, PTL DEF Spec

\* Every hazard Safety remembers or last saw keeps the latch, and a fault is
\* retained exactly while FAULT is, whichever of them tripped first and whatever
\* RESET was tried in between.
THEOREM HazardsKeepLatch == Spec => []HazardKeepsLatch
<1>1. GateInv => HazardKeepsLatch
  BY DEF GateInv, Good, Honest, Remembers, Heeds, World, Hazard, HazardKeepsLatch
<1>2. QED
  BY <1>1, InitGateInv, NextGateInv, PTL DEF Spec

\* runtime_data.state shows a latch from the section that raised it until RESET,
\* although Motion and Safety both write it.
THEOREM LatchIsSeen == Spec => []LatchIsReported
<1>1. GateInv => LatchIsReported
  BY DEF GateInv, Good, Reported, World, LatchIsReported
<1>2. QED
  BY <1>1, InitGateInv, NextGateInv, PTL DEF Spec

----------------------------------------------------------------------------
(***************************************************************************)
(* The control loop implements the promise of SafetyLatch, and RESET is    *)
(* the only way out of a latch.  Every function of the safety manager and  *)
(* of the adapter upholds the latch, except the one branch of RESET; what  *)
(* that branch has seen is what the way out demands.                       *)
(***************************************************************************)
\* From s to t a latch was kept or raised and the first fault retained.
Upholds(s, t) ==
  /\ s.state # "IDLE" => t.state # "IDLE"
  /\ s.state = "ESTOP" => t.state = "ESTOP"
  /\ s.code # "NONE" => t.code = s.code

LEMMA UpholdsItself == ASSUME NEW s PROVE Upholds(s, s)
BY DEF Upholds

LEMMA UpholdsTwice ==
  ASSUME NEW r, NEW s, NEW t, Upholds(r, s), Upholds(s, t) PROVE Upholds(r, t)
BY DEF Upholds

LEMMA KeptUpholds ==
  ASSUME NEW C, NEW w, NEW v, Kept(C, w, v) PROVE Upholds(w.safety, v.safety)
BY DEF Kept, SameVerdict, Upholds

----------------------------------------------------------------------------
\* The safety manager.
LEMMA TripUpholds ==
  ASSUME NEW C, NEW s \in SafetyRecord(C), NEW code \in FaultCodes
  PROVE  Upholds(s, Trip(s, code)) /\ Trip(s, code) \in SafetyRecord(C)
<1>1. /\ Trip(s, code).state = IF s.state = "IDLE" THEN "FAULT" ELSE s.state
      /\ Trip(s, code).code = IF s.code = "NONE" THEN code ELSE s.code
  BY DEF Trip, FaultRaise, SafetyRecord
<1>2. QED
  BY <1>1, TripLatches DEF Upholds

LEMMA EstopUpholds ==
  ASSUME NEW C, NEW s \in SafetyRecord(C)
  PROVE  Upholds(s, Estop(s)) /\ Estop(s) \in SafetyRecord(C)
<1>1. Estop(s).state = "ESTOP" /\ Estop(s).code = s.code
  BY DEF Estop, SafetyRecord
<1>2. QED
  BY <1>1, EstopType DEF Upholds

LEMMA InternalUpholds ==
  ASSUME NEW C, NEW s \in SafetyRecord(C)
  PROVE  Upholds(s, InternalFault(s)) /\ InternalFault(s) \in SafetyRecord(C)
<1> DEFINE raised == [s EXCEPT !.internal = TRUE]
<1>1. raised \in SafetyRecord(C) /\ Upholds(s, raised)
  BY DEF SafetyRecord, Upholds
<1> HIDE DEF raised
<1>2. Upholds(raised, Trip(raised, "INTERNAL"))
  BY <1>1, TripUpholds DEF FaultCodes
<1>3. QED
  BY <1>1, <1>2, UpholdsTwice, InternalLatches DEF InternalFault, raised

LEMMA ObserveUpholds ==
  ASSUME NEW C, NEW s \in SafetyRecord(C), NEW inputs \in Inputs, NEW valid \in BOOLEAN,
         NEW healthy \in BOOLEAN
  PROVE  LET o == Observe(s, inputs, valid, healthy)
         IN  Upholds(s, o) /\ o \in SafetyRecord(C) /\ o.healthy = healthy
<1> DEFINE seen     == Record(s, inputs, valid, healthy)
           readable == SeeGpio(seen)
           estopped == SeeEstop(readable)
           limited  == SeePositive(estopped)
           Fine(t)  == Upholds(s, t) /\ t \in SafetyRecord(C) /\ t.healthy = healthy
<1>1. Fine(seen)
  BY DEF Record, SafetyRecord, Upholds
<1> HIDE DEF seen
<1>2. Fine(readable)
  <2>1. InternalFault(seen).healthy = seen.healthy
    BY <1>1 DEF InternalFault, Trip, FaultRaise, SafetyRecord
  <2>2. QED
    BY <1>1, <2>1, InternalUpholds, UpholdsTwice DEF SeeGpio, When
<1> HIDE DEF readable
<1>3. Fine(estopped)
  <2>1. Estop(readable).healthy = readable.healthy
    BY <1>2 DEF Estop, SafetyRecord
  <2>2. QED
    BY <1>2, <2>1, EstopUpholds, UpholdsTwice DEF SeeEstop, When
<1> HIDE DEF estopped
<1>4. Fine(limited)
  <2>1. "POSITIVE_LIMIT" \in FaultCodes
    BY DEF FaultCodes
  <2>2. Trip(estopped, "POSITIVE_LIMIT").healthy = estopped.healthy
    BY <1>3 DEF Trip, FaultRaise, SafetyRecord
  <2>3. QED
    BY <1>3, <2>1, <2>2, TripUpholds, UpholdsTwice DEF SeePositive, When
<1> HIDE DEF limited
<1>5. Fine(SeeRelease(limited))
  <2> DEFINE released == [limited EXCEPT !.homeContact = FALSE]
  <2>1. /\ released \in SafetyRecord(C) /\ released.healthy = limited.healthy
        /\ Upholds(limited, released)
    BY <1>4 DEF SafetyRecord, Upholds
  <2>2. SeeRelease(limited) \in {limited, released}
    BY DEF SeeRelease, When
  <2> HIDE DEF released
  <2>3. QED
    BY <1>4, <2>1, <2>2, UpholdsTwice
<1>6. QED
  BY <1>5 DEF Observe, limited, estopped, readable, seen

LEMMA StallUpholds ==
  ASSUME NEW C, NEW s \in SafetyRecord(C), NEW at \in 0 .. TimeMod - 1,
         NEW m, NEW position \in C, NEW pwm, NEW expectedHome
  PROVE  LET t == Stall(s, at, m, position, pwm, expectedHome)
         IN  Upholds(s, t) /\ t.healthy = s.healthy
<1> DEFINE begun  == When(~s.candidate,
                          [s EXCEPT !.candidate = TRUE, !.candidateStart = at], s)
           marked == [begun EXCEPT !.recovery = TRUE, !.faultPosition = position]
           ended  == [s EXCEPT !.candidate = FALSE, !.candidateStart = 0]
           tripped == Trip(marked, "NO_MOTION")
           Fine(t) == Upholds(s, t) /\ t.healthy = s.healthy
<1>1. begun \in SafetyRecord(C) /\ Fine(begun)
  BY DEF When, SafetyRecord, Upholds
<1>2. Fine(ended)
  BY DEF SafetyRecord, Upholds
<1>3. Fine(tripped)
  <2> HIDE DEF begun
  <2>1. /\ marked \in SafetyRecord(C) /\ marked.healthy = begun.healthy
        /\ Upholds(begun, marked)
    BY <1>1 DEF SafetyRecord, Upholds
  <2> HIDE DEF marked
  <2>2. "NO_MOTION" \in FaultCodes
    BY DEF FaultCodes
  <2>3. tripped.healthy = marked.healthy
    BY <2>1 DEF Trip, FaultRaise, SafetyRecord
  <2>4. QED
    BY <1>1, <2>1, <2>2, <2>3, TripUpholds, UpholdsTwice
<1>4. Stall(s, at, m, position, pwm, expectedHome) \in {begun, tripped, ended}
  <2> HIDE DEF begun
  <2> QED BY DEF Stall, begun
<1>5. QED
  <2> HIDE DEF begun, tripped, ended
  <2> QED BY <1>1, <1>2, <1>3, <1>4

\* An evaluation upholds the latch and notes the health it was given.
Judges(s, e, healthy) == Upholds(s, e) /\ e.healthy = healthy

LEMMA EvaluateUpholds ==
  ASSUME NEW C, 0 \in C, NEW s \in SafetyRecord(C), NEW at \in 0 .. TimeMod - 1,
         NEW inputs \in Inputs, NEW valid \in BOOLEAN, NEW m, NEW position \in C, NEW pwm,
         NEW healthy \in BOOLEAN
  PROVE  Judges(s, Evaluate(s, at, inputs, valid, m, position, pwm, healthy), healthy)
<1> DEFINE seen    == Observe(s, inputs, valid, healthy)
           limited == SeeNegative(seen, m, position, pwm)
           watched == SeeHealth(limited, at)
           moved   == SeeRecovery(watched, position)
           checked == Stall(moved, at, m, position, pwm, ExpectedHome(seen, m))
           Fine(t) == Upholds(s, t) /\ t \in SafetyRecord(C) /\ t.healthy = healthy
<1>1. Fine(seen)
  BY ObserveUpholds
<1> HIDE DEF seen
<1>2. ASSUME NEW t, Fine(t), NEW code \in FaultCodes PROVE Fine(Trip(t, code))
  <2>1. Trip(t, code).healthy = t.healthy
    BY <1>2 DEF Trip, FaultRaise, SafetyRecord
  <2>2. QED
    BY <1>2, <2>1, TripUpholds, UpholdsTwice
<1>3. {"NEGATIVE_LIMIT", "WATCHDOG"} \subseteq FaultCodes
  BY DEF FaultCodes
<1>4. Fine(limited)
  BY <1>1, <1>2, <1>3 DEF SeeNegative, When
<1> HIDE DEF limited
<1>5. Fine(watched)
  BY <1>2, <1>3, <1>4 DEF SeeHealth, When
<1> HIDE DEF watched
<1>6. Fine(moved)
  <2>1. moved \in SafetyRecord(C)
    BY <1>5, SeeRecoveryAfter DEF After
  <2>2. moved \in {watched, [watched EXCEPT !.recovery = FALSE, !.faultPosition = 0]}
    BY DEF SeeRecovery, When
  <2>3. moved.healthy = watched.healthy /\ Upholds(watched, moved)
    <3> HIDE DEF moved
    <3> QED BY <1>5, <2>2 DEF SafetyRecord, Upholds
  <2>4. QED
    BY <1>5, <2>1, <2>3, UpholdsTwice
<1> HIDE DEF moved
<1>7. Fine(checked)
  BY <1>6, StallAfter, StallUpholds, UpholdsTwice DEF After
<1> HIDE DEF checked
<1>8. Settle(checked).healthy = healthy /\ Upholds(checked, Settle(checked))
  BY <1>7 DEF Settle, SafetyRecord, Upholds
<1>9. QED
  BY <1>7, <1>8, UpholdsTwice DEF Judges, Evaluate, checked, moved, watched, limited, seen

----------------------------------------------------------------------------
\* The adapter.
Firm(C, w, v) == Good(C, v) /\ Upholds(w.safety, v.safety)

LEMMA FirmItself == ASSUME NEW C, NEW w, Good(C, w) PROVE Firm(C, w, w)
BY UpholdsItself DEF Firm

LEMMA FirmTwice ==
  ASSUME NEW C, NEW u, NEW v, NEW w, Firm(C, u, v), Firm(C, v, w) PROVE Firm(C, u, w)
BY UpholdsTwice DEF Firm

LEMMA KeptFirm ==
  ASSUME NEW C, NEW w, NEW v, Good(C, w), w \in Worlds(C) => Kept(C, w, v)
  PROVE  Firm(C, w, v)
BY KeptUpholds, GoodThenKept DEF Firm, Good

LEMMA EnforceSafety ==
  ASSUME NEW C, NEW w \in Worlds(C) PROVE Enforce(w).safety = w.safety
<1> DEFINE guarded == Guarded(w)
           shut    == IF Unsafe(w) # guarded.inhibited THEN Inhibit(guarded, Unsafe(w))
                                                       ELSE guarded
           told    == IF w.safety.state # "IDLE" THEN w.safety.state ELSE w.report
<1>1. Enforce(w) = [w EXCEPT !.gate = shut, !.report = told]
  BY DEF Enforce
<1> HIDE DEF shut, told
<1>2. QED
  BY <1>1 DEF Worlds

\* An evaluation ends with what it read.
LEMMA EvaluateFirm ==
  ASSUME NEW C, 0 \in C, NEW w \in Worlds(C), SafeGate(w.gate), Remembers(w.safety),
         NEW env \in EnvSet
  PROVE  LET v == EvaluateNow(w, env)
         IN  /\ Firm(C, w, v)
             /\ v.safety.inputs = env.inputs /\ v.safety.healthy = env.healthy
<1> DEFINE e == Evaluate(w.safety, env.now, env.inputs, TRUE, w.pub, w.count,
                         w.gate.output, env.healthy)
           v == [w EXCEPT !.safety = e]
<1>1. /\ w.safety \in SafetyRecord(C) /\ w.count \in C
      /\ env.now \in 0 .. TimeMod - 1 /\ env.inputs \in Inputs /\ env.healthy \in BOOLEAN
  BY DEF Worlds, EnvSet
<1>2. /\ e \in SafetyRecord(C) /\ e.inputs = env.inputs
      /\ Upholds(w.safety, e) /\ e.healthy = env.healthy
  <2>1. e \in SafetyRecord(C) /\ Outcome(e, w.pub, env.inputs)
    BY <1>1, EvaluateFacts
  <2>2. Judges(w.safety, e, env.healthy)
    BY <1>1, EvaluateUpholds
  <2> HIDE DEF e
  <2>3. QED
    BY <2>1, <2>2 DEF Outcome, Judges
<1> HIDE DEF e
<1>3. v \in Worlds(C) /\ v.safety = e
  BY <1>2 DEF Worlds
<1>4. EvaluateNow(w, env) = Enforce(v)
  BY DEF EvaluateNow, e
<1> HIDE DEF v
<1>5. EvaluateNow(w, env).safety = e
  BY <1>3, <1>4, EnforceSafety
<1>6. QED
  BY <1>2, <1>5, EvaluateGood DEF Firm

LEMMA EvaluateSyncFirm ==
  ASSUME NEW C, 0 \in C, NEW w \in Worlds(C), SafeGate(w.gate), Remembers(w.safety),
         NEW env \in EnvSet
  PROVE  Firm(C, w, EvaluateSync(w, env))
<1>1. Firm(C, w, EvaluateNow(w, env))
  BY EvaluateFirm
<1>2. Firm(C, EvaluateNow(w, env), Sync(EvaluateNow(w, env)))
  BY <1>1, SyncKept, KeptFirm DEF Firm
<1>3. QED
  BY <1>1, <1>2, FirmTwice DEF EvaluateSync

\* Publishing, then evaluating.
LEMMA PublishedEvaluation ==
  ASSUME NEW C, 0 \in C, NEW w, Good(C, w), NEW env \in EnvSet
  PROVE  Firm(C, w, EvaluateSync(Publish(w), env))
<1>1. Firm(C, w, Publish(w))
  BY PublishKept, KeptFirm
<1>2. Firm(C, Publish(w), EvaluateSync(Publish(w), env))
  BY <1>1, EvaluateSyncFirm DEF Firm, Good, Honest
<1>3. QED
  BY <1>1, <1>2, FirmTwice

\* A fault raised by the adapter and enforced.
LEMMA LatchFirm ==
  ASSUME NEW C, NEW w, Good(C, w), NEW s \in SafetyRecord(C), s.state # "IDLE",
         Honest(s), Upholds(w.safety, s)
  PROVE  Firm(C, w, Enforce([w EXCEPT !.safety = s]))
<1> DEFINE v == [w EXCEPT !.safety = s]
<1>1. v \in Worlds(C) /\ v.safety = s
  BY DEF Good, Worlds
<1>2. Good(C, Enforce(v))
  BY LatchGood
<1> HIDE DEF v
<1>3. Firm(C, w, Enforce(v))
  BY <1>1, <1>2, EnforceSafety DEF Firm
<1>4. QED
  BY <1>3 DEF v

LEMMA InternalFirm ==
  ASSUME NEW C, NEW w, Good(C, w)
  PROVE  Firm(C, w, Enforce([w EXCEPT !.safety = InternalFault(@)]))
<1>1. w.safety \in SafetyRecord(C) /\ Honest(w.safety)
  BY DEF Good, Worlds
<1>2. Honest(InternalFault(w.safety)) /\ Upholds(w.safety, InternalFault(w.safety))
  BY <1>1, InternalHonest, InternalUpholds DEF Honest, Loyal
<1>3. QED
  BY <1>1, <1>2, InternalLatches, LatchFirm

----------------------------------------------------------------------------
\* Commands; RESET is the exception.
LEMMA CommandEstopFirm ==
  ASSUME NEW C, NEW w, Good(C, w) PROVE Firm(C, w, CommandEstop(w).world)
<1> DEFINE latched == Enforce([w EXCEPT !.safety = Estop(w.safety)])
<1>1. w.safety \in SafetyRecord(C) /\ Honest(w.safety)
  BY DEF Good, Worlds
<1>2. /\ Estop(w.safety) \in SafetyRecord(C) /\ Estop(w.safety).state = "ESTOP"
      /\ Honest(Estop(w.safety)) /\ Upholds(w.safety, Estop(w.safety))
  BY <1>1, EstopType, EstopHonest, EstopUpholds DEF Honest
<1>3. Firm(C, w, latched)
  BY <1>2, LatchFirm
<1>4. CommandEstop(w).world = Sync(latched)
  BY DEF CommandEstop, Answer
<1> HIDE DEF latched
<1>5. Firm(C, latched, Sync(latched))
  BY <1>3, SyncKept, KeptFirm DEF Firm
<1>6. QED
  BY <1>3, <1>4, <1>5, FirmTwice

LEMMA CommandStopHomingFirm ==
  ASSUME NEW C, NEW w, Good(C, w) PROVE Firm(C, w, CommandStopHoming(w).world)
<1> DEFINE aborted  == HomingAbort(w, "STOPPED")
           ended    == Abandon(aborted)
           stopping == [ended.motion EXCEPT !.state = "STOPPING"]
           v        == [ended EXCEPT !.motion = stopping]
<1>1. Firm(C, w, aborted)
  <2>1. "STOPPED" \in HomingResults
    BY DEF HomingResults
  <2>2. QED
    BY <2>1, HomingAbortKept, KeptFirm
<1> HIDE DEF aborted
<1>2. Firm(C, w, ended)
  BY <1>1, AbandonKept, KeptFirm, FirmTwice DEF Firm
<1>3. CommandStopHoming(w).world = Publish(v)
  BY <1>2 DEF CommandStopHoming, Answer, aborted, Firm, Good, Worlds, MotionRecord
<1> HIDE DEF ended
<1>4. stopping \in MotionRecord(C)
  BY <1>2 DEF Firm, Good, Worlds, MotionRecord, MotionStates, ActiveStates
<1> HIDE DEF stopping
<1>5. Firm(C, w, v)
  <2>1. Firm(C, ended, v)
    BY <1>2, <1>4, MotionOnlyKept, KeptFirm DEF Firm
  <2>2. QED
    BY <1>2, <2>1, FirmTwice
<1> HIDE DEF v
<1>6. Firm(C, v, Publish(v))
  BY <1>5, PublishKept, KeptFirm DEF Firm
<1>7. QED
  BY <1>3, <1>5, <1>6, FirmTwice

LEMMA CommandHomeFirm ==
  ASSUME NEW C, 0 \in C, NEW w, Good(C, w), NEW env \in EnvSet
  PROVE  Firm(C, w, CommandHome(w, env).world)
<1> DEFINE begun == HomingBegin(w, env.now).world
<1>1. Firm(C, w, begun)
  <2>1. env.now \in 0 .. TimeMod - 1
    BY DEF EnvSet
  <2>2. QED
    BY <2>1, HomingBeginKept, KeptFirm
<1>2. CommandHome(w, env).world \in {EvaluateSync(Publish(begun), env), Publish(begun)}
  BY DEF CommandHome, Answer
<1> HIDE DEF begun
<1>3. Firm(C, begun, Publish(begun)) /\ Firm(C, begun, EvaluateSync(Publish(begun), env))
  BY <1>1, PublishKept, KeptFirm, PublishedEvaluation DEF Firm
<1>4. QED
  BY <1>1, <1>2, <1>3, FirmTwice

LEMMA CommandDepartFirm ==
  ASSUME NEW C, Travel(C), NEW w, Good(C, w), NEW command, NEW env \in EnvSet
  PROVE  Firm(C, w, CommandDepart(w, command, env).world)
<1> DEFINE moved == MotionCommand(w, command).world
<1>1. Firm(C, w, moved)
  BY MotionCommandKept, KeptFirm
<1>2. CommandDepart(w, command, env).world \in {w, EvaluateSync(Publish(moved), env)}
  BY DEF CommandDepart, Answer
<1> HIDE DEF moved
<1>3. Firm(C, moved, EvaluateSync(Publish(moved), env))
  BY <1>1, PublishedEvaluation DEF Firm, Travel
<1>4. QED
  BY <1>1, <1>2, <1>3, FirmItself, FirmTwice

\* What a way out of the latch has seen, and where it leads.
Released(v, env) ==
  /\ ~env.inputs.estop /\ ~env.inputs.positive /\ ~env.inputs.negative /\ env.healthy
  /\ v.safety.state = "IDLE" /\ v.safety.code = "NONE" /\ ~Hazard(v.safety)
  /\ v.gate.output = 0
  /\ v.motion.state = "IDLE" /\ v.motion.target = v.motion.position

LEMMA CommandResetReleases ==
  ASSUME NEW C, 0 \in C, NEW w, Good(C, w), NEW env \in EnvSet
  PROVE  LET v == CommandReset(w, env).world
         IN  Firm(C, w, v) \/ (Good(C, v) /\ Released(v, env))
<1> DEFINE seen   == EvaluateNow(w, env)
           freed  == Reset(seen.safety)
           shut   == Inhibit(Disable(seen.gate), FALSE)
           idle   == [seen.motion EXCEPT !.state = "IDLE", !.target = seen.motion.position,
                                         !.stable = 0]
<1>1. /\ Firm(C, w, seen)
      /\ seen.safety.inputs = env.inputs /\ seen.safety.healthy = env.healthy
  BY EvaluateFirm DEF Good, Honest
<1>2. \/ CommandReset(w, env).world \in {w, seen}
      \/ CommandReset(w, env).world = Freed(seen) /\ CanReset(seen.safety)
  BY DEF CommandReset, ResetAfter, Answer
<1> HIDE DEF seen
<1>3. seen.safety \in SafetyRecord(C) /\ seen.gate \in Gate /\ seen.motion \in MotionRecord(C)
  BY <1>1 DEF Firm, Good, Worlds
<1>4. /\ freed.state = "IDLE" /\ freed.code = "NONE" /\ freed.inputs = seen.safety.inputs
      /\ freed.recovery = seen.safety.recovery /\ freed.internal = seen.safety.internal
  BY <1>3 DEF Reset, FaultReset, SafetyRecord
<1>5. shut.output = 0
  BY <1>3 DEF Inhibit, Disable, Gate
<1>6. idle.state = "IDLE" /\ idle.target = idle.position
  BY <1>3 DEF MotionRecord
<1>7. Freed(seen) = [seen EXCEPT !.safety = freed, !.gate = shut, !.motion = idle]
  BY DEF Freed
<1> HIDE DEF freed, shut, idle
<1>8. Freed(seen).safety = freed /\ Freed(seen).gate = shut /\ Freed(seen).motion = idle
  BY <1>1, <1>7 DEF Firm, Good, Worlds
<1>9. CanReset(seen.safety) => Released(Freed(seen), env)
  BY <1>1, <1>4, <1>5, <1>6, <1>8 DEF CanReset, Released, Hazard
<1>10. Firm(C, w, w) /\ Good(C, CommandReset(w, env).world)
  BY FirmItself, CommandResetGood
<1>11. QED
  BY <1>1, <1>2, <1>9, <1>10

LEMMA SafetyCommandReleases ==
  ASSUME NEW C, Travel(C), NEW w, Good(C, w), NEW command, NEW env \in EnvSet
  PROVE  LET v == SafetyCommand(w, command, env).world
         IN  Firm(C, w, v) \/ (Good(C, v) /\ Released(v, env))
<1>1. SafetyCommand(w, command, env).world
        \in {w, CommandEstop(w).world, CommandReset(w, env).world,
             CommandStopHoming(w).world, CommandHome(w, env).world,
             CommandDepart(w, command, env).world, MotionCommand(w, command).world}
  BY DEF SafetyCommand, Answer
<1>2. Firm(C, w, MotionCommand(w, command).world) /\ Firm(C, w, w)
  BY MotionCommandKept, KeptFirm, FirmItself
<1>3. 0 \in C
  BY DEF Travel
<1>4. QED
  BY <1>1, <1>2, <1>3, CommandEstopFirm, CommandResetReleases, CommandStopHomingFirm,
     CommandHomeFirm, CommandDepartFirm

----------------------------------------------------------------------------
\* The control update.
LEMMA RegularUpdateFirm ==
  ASSUME NEW C, 0 \in C, NEW w, Good(C, w), NEW duty \in Duty, NEW env \in EnvSet
  PROVE  Firm(C, w, RegularUpdate(w, duty, env).world)
<1> DEFINE seen == IF w.safety.homeContact THEN EvaluateSync(Publish(w), env) ELSE w
<1>1. Firm(C, w, seen)
  BY PublishedEvaluation, FirmItself
<1>2. RegularUpdate(w, duty, env) = MotionUpdate(seen, duty)
  BY DEF RegularUpdate
<1> HIDE DEF seen
<1>3. Firm(C, seen, MotionUpdate(seen, duty).world)
  BY <1>1, MotionUpdateKept, KeptFirm DEF Firm
<1>4. QED
  BY <1>1, <1>2, <1>3, FirmTwice

LEMMA FinishSeekFirm ==
  ASSUME NEW C, 0 \in C, NEW w, Good(C, w), NEW env \in EnvSet
  PROVE  Firm(C, w, FinishSeek(w, env))
<1> DEFINE s        == HomingTimeoutFault(w.safety)
           timedOut == Enforce([w EXCEPT !.safety = s])
           allowed  == [w.safety EXCEPT !.homeContact = TRUE]
           v        == [w EXCEPT !.safety = allowed]
<1>1. w \in Worlds(C) /\ w.safety \in SafetyRecord(C) /\ Honest(w.safety)
  BY DEF Good, Worlds
<1>2. Firm(C, w, Sync(timedOut))
  <2>1. "HOMING_TIMEOUT" \in FaultCodes \ {"NONE"}
    BY DEF FaultCodes
  <2>2. s \in SafetyRecord(C) /\ s.state # "IDLE" /\ Honest(s)
    BY <1>1, <2>1, TripLatches, TripLoyal DEF HomingTimeoutFault, Honest, Loyal
  <2>3. Upholds(w.safety, s)
    BY <1>1, <2>1, TripUpholds DEF HomingTimeoutFault
  <2> HIDE DEF s
  <2>4. Firm(C, w, timedOut)
    BY <2>2, <2>3, LatchFirm
  <2> HIDE DEF timedOut
  <2>5. Firm(C, timedOut, Sync(timedOut))
    BY <2>4, SyncKept, KeptFirm DEF Firm
  <2>6. QED
    BY <2>4, <2>5, FirmTwice
<1>3. allowed \in SafetyRecord(C) /\ Remembers(allowed) /\ Upholds(w.safety, allowed)
  BY <1>1 DEF SafetyRecord, Honest, Remembers, Upholds
<1>4. [w EXCEPT !.safety.homeContact = TRUE] = v
  BY <1>1 DEF Worlds, SafetyRecord
<1> HIDE DEF allowed
<1>5. v \in Worlds(C) /\ v.gate = w.gate /\ v.safety = allowed
  BY <1>1, <1>3 DEF Worlds
<1>6. FinishSeek(w, env) \in {Sync(timedOut), EvaluateNow(Publish(v), env), w}
  BY <1>4 DEF FinishSeek
<1> HIDE DEF v, timedOut
<1>7. Kept(C, v, Publish(v))
  BY <1>5, PublishKept
<1>8. /\ Publish(v) \in Worlds(C) /\ SafeGate(Publish(v).gate)
      /\ Remembers(Publish(v).safety) /\ Upholds(w.safety, Publish(v).safety)
  <2>1. Upholds(v.safety, Publish(v).safety)
    BY <1>7, KeptUpholds
  <2>2. Upholds(w.safety, Publish(v).safety)
    BY <1>3, <1>5, <2>1, UpholdsTwice
  <2>3. QED
    BY <1>3, <1>5, <1>7, <2>2 DEF Kept, SameVerdict, Remembers, Good
<1>9. Firm(C, Publish(v), EvaluateNow(Publish(v), env))
  BY <1>8, EvaluateFirm
<1>10. Firm(C, w, EvaluateNow(Publish(v), env))
  BY <1>8, <1>9, UpholdsTwice DEF Firm
<1>11. QED
  BY <1>2, <1>6, <1>10, FirmItself

LEMMA SeekUpdateFirm ==
  ASSUME NEW C, 0 \in C, NEW w, Good(C, w), NEW at, NEW inputs, NEW env \in EnvSet
  PROVE  Firm(C, w, SeekUpdate(w, at, inputs, env).world)
<1> DEFINE alarm  == inputs.estop \/ inputs.positive \/ inputs.negative
           seen   == IF alarm THEN EvaluateSync(Publish(w), env) ELSE w
           sought == HomingUpdate(seen, inputs, at)
<1>1. Firm(C, w, seen)
  BY PublishedEvaluation, FirmItself
<1>2. SeekUpdate(w, at, inputs, env).world
        \in {seen, sought.world, FinishSeek(sought.world, env)}
  BY DEF SeekUpdate
<1> HIDE DEF seen
<1>3. Firm(C, seen, sought.world)
  BY <1>1, HomingUpdateKept, KeptFirm DEF Firm
<1> HIDE DEF sought
<1>4. Firm(C, w, sought.world)
  BY <1>1, <1>3, FirmTwice
<1>5. Firm(C, w, FinishSeek(sought.world, env))
  BY <1>4, FinishSeekFirm, FirmTwice DEF Firm
<1>6. QED
  BY <1>1, <1>2, <1>4, <1>5

LEMMA ControlUpdateFirm ==
  ASSUME NEW C, 0 \in C, NEW w, Good(C, w), NEW duty \in Duty, NEW at, NEW inputs,
         NEW env \in EnvSet
  PROVE  Firm(C, w, ControlUpdate(w, duty, at, inputs, env).world)
BY SeekUpdateFirm, RegularUpdateFirm DEF ControlUpdate

----------------------------------------------------------------------------
\* Motion's own sections.
LEMMA BeginFirm ==
  ASSUME NEW w, Good(Counts, w), NEW gap
  PROVE  Firm(Counts, w, Sample(Booted(w), gap))
<1> DEFINE off == [w EXCEPT !.gate = Disable(@)]
<1>1. off.safety = w.safety
  BY DEF Good, Worlds
<1>2. Booted(w) \in {w, off}
  BY DEF Booted
<1> HIDE DEF off
<1>3. Booted(w).safety = w.safety
  BY <1>1, <1>2
<1>4. Kept(Counts, Booted(w), Sample(Booted(w), gap))
  <2>1. Booted(w) \in Worlds(Counts)
    <3>1. w.gate \in Gate /\ w \in Worlds(Counts)
      BY DEF Good, Worlds
    <3>2. off \in Worlds(Counts)
      BY <3>1, DisableKept DEF Worlds, off
    <3>3. QED
      BY <1>2, <3>1, <3>2
  <2>2. QED
    BY <2>1, SampleKept
<1>5. QED
  BY <1>3, <1>4, KeptUpholds, BeginGood DEF Firm

LEMMA SampleFailedFirm ==
  ASSUME NEW w, Good(Counts, w) PROVE Firm(Counts, w, SampleFailed(w))
<1> DEFINE counted == IF before \in ActiveStates THEN Abandon(w) ELSE w
           ended   == IF before = "HOMING" THEN HomingAbort(counted, "FAULTED") ELSE counted
<1>1. Firm(Counts, w, counted)
  BY AbandonKept, KeptFirm, FirmItself
<1> HIDE DEF counted
<1>2. Firm(Counts, w, ended)
  <2>1. "FAULTED" \in HomingResults
    BY DEF HomingResults
  <2>2. Firm(Counts, counted, HomingAbort(counted, "FAULTED"))
    BY <1>1, <2>1, HomingAbortKept, KeptFirm DEF Firm
  <2>3. QED
    BY <1>1, <2>2, FirmTwice
<1>3. SampleFailed(w) = Enforce([ended EXCEPT !.safety = InternalFault(@)])
  BY DEF SampleFailed, counted
<1> HIDE DEF ended
<1>4. Firm(Counts, ended, SampleFailed(w))
  BY <1>2, <1>3, InternalFirm DEF Firm
<1>5. QED
  BY <1>2, <1>4, FirmTwice

LEMMA UpdateFailedFirm ==
  ASSUME NEW w, Good(Counts, w), NEW wasActive
  PROVE  Firm(Counts, w, UpdateFailed(w, wasActive))
<1> DEFINE counted == IF wasActive THEN Abandon(w) ELSE w
           latched == Enforce([counted EXCEPT !.safety = InternalFault(@)])
<1>1. Firm(Counts, w, counted)
  BY AbandonKept, KeptFirm, FirmItself
<1> HIDE DEF counted
<1>2. Firm(Counts, w, latched)
  BY <1>1, InternalFirm, FirmTwice DEF Firm
<1>3. UpdateFailed(w, wasActive) = Sync(latched)
  BY DEF UpdateFailed, counted
<1> HIDE DEF latched
<1>4. Firm(Counts, latched, Sync(latched))
  BY <1>2, SyncKept, KeptFirm DEF Firm
<1>5. QED
  BY <1>2, <1>3, <1>4, FirmTwice

LEMMA ClosedFirm ==
  ASSUME TypeOK, NEW w, Good(Counts, w) PROVE Firm(Counts, w, Closed(w))
<1>1. Closed(w).safety = w.safety
  BY DEF Closed, Publish, Good, Worlds
<1>2. QED
  BY <1>1, UpholdsItself, ClosedGood DEF Firm

----------------------------------------------------------------------------
\* The way out of a latch.
Leaves ==
  /\ pc = "command" /\ slots > 0
  /\ ~pins.estop /\ ~pins.positive /\ ~pins.negative /\ fresh
  /\ safety'.state = "IDLE" /\ safety'.code = "NONE" /\ ~Hazard(safety')
  /\ gate'.output = 0
  /\ motion'.state = "IDLE" /\ motion'.target = motion'.position

LEMMA FirmSection ==
  ASSUME NEW w, Firm(Counts, World, w), Become(w) PROVE Upholds(safety, safety')
BY DEF Firm, Become, World

\* Every step upholds the latch, or is a RESET that may leave it.
LEMMA NextUpholds == GateInv /\ [Next]_vars => Upholds(safety, safety') \/ Leaves
<1> SUFFICES ASSUME GateInv, [Next]_vars PROVE Upholds(safety, safety') \/ Leaves
  OBVIOUS
<1>1. TypeOK /\ Good(Counts, World) /\ Travel(Counts) /\ 0 \in Counts
  BY CountsTravel DEF GateInv, Travel
<1>2. pins \in Inputs /\ Env(pins) \in EnvSet
  BY <1>1, EnvType DEF TypeOK
<1>3. ASSUME safety' = safety PROVE Upholds(safety, safety')
  BY <1>3 DEF Upholds
<1>4. CASE Tick \/ PinChange \/ EncoderCount \/ Heartbeats \/ CommandsDone \/ UNCHANGED vars
  BY <1>3, <1>4 DEF Tick, PinChange, EncoderCount, Heartbeats, CommandsDone, vars, world
<1>5. CASE SafetyTask
  <2>1. Firm(Counts, World, EvaluateNow(World, Env(pins)))
    BY <1>1, <1>2, EvaluateFirm DEF Good, Honest
  <2>2. QED
    BY <1>5, <2>1, FirmSection DEF SafetyTask
<1>6. CASE BeginCycle
  <2>1. Firm(Counts, World, Sample(Booted(World), Gap))
    BY <1>1, BeginFirm
  <2>2. QED
    BY <1>6, <2>1, FirmSection DEF BeginCycle
<1>7. CASE SyncSection
  <2> DEFINE w == IF sampled THEN World ELSE SampleFailed(World)
  <2>1. Firm(Counts, World, w)
    BY <1>1, SampleFailedFirm, FirmItself
  <2>2. Become(Sync(w))
    BY <1>7 DEF SyncSection
  <2> HIDE DEF w
  <2>3. Firm(Counts, w, Sync(w))
    BY <2>1, SyncKept, KeptFirm DEF Firm
  <2>4. Firm(Counts, World, Sync(w))
    BY <2>1, <2>3, FirmTwice
  <2>5. QED
    BY <2>2, <2>4, FirmSection
<1>8. CASE CommandSection
  <2>1. PICK command \in Commands :
          Become((IF app = "IDLE" THEN SafetyCommand(World, command, Env(pins))
                                  ELSE Answer(World, "INVALID_STATE")).world)
    BY <1>8 DEF CommandSection
  <2> DEFINE w == IF app = "IDLE" THEN SafetyCommand(World, command, Env(pins)).world
                                  ELSE World
  <2>2. Become(w)
    BY <2>1 DEF Answer
  <2>3. Firm(Counts, World, w) \/ Released(w, Env(pins))
    BY <1>1, <1>2, SafetyCommandReleases, FirmItself
  <2> HIDE DEF w
  <2>4. Released(w, Env(pins)) => Leaves
    BY <1>8, <2>2 DEF Released, Leaves, Become, Env, CommandSection
  <2>5. QED
    BY <2>2, <2>3, <2>4, FirmSection
<1>9. CASE UpdateSection
  <2>1. PICK duty \in Duty, later \in {pins} \cup Toggled(pins) :
          LET synced  == Sync(World)
              updated == IF sampled THEN ControlUpdate(synced, duty, now, pins, Env(later))
                         ELSE [world |-> synced, ok |-> FALSE]
              ended   == IF updated.ok THEN updated.world
                         ELSE UpdateFailed(updated.world, synced.motion.state \in ActiveStates)
          IN  Become(Closed(ended)) /\ pins' = later
    BY <1>9 DEF UpdateSection
  <2> DEFINE synced  == Sync(World)
             updated == IF sampled THEN ControlUpdate(synced, duty, now, pins, Env(later))
                        ELSE [world |-> synced, ok |-> FALSE]
             active  == synced.motion.state \in ActiveStates
             ended   == IF updated.ok THEN updated.world
                        ELSE UpdateFailed(updated.world, active)
  <2>2. Become(Closed(ended))
    BY <2>1
  <2>3. Env(later) \in EnvSet
    BY <1>1, <1>2, ToggledType, EnvType
  <2>4. Firm(Counts, World, synced)
    BY <1>1, SyncKept, KeptFirm
  <2> HIDE DEF synced
  <2>5. Firm(Counts, synced, updated.world)
    BY <1>1, <2>3, <2>4, ControlUpdateFirm, FirmItself DEF Firm
  <2> HIDE DEF updated, active
  <2>6. Firm(Counts, updated.world, ended)
    BY <2>5, UpdateFailedFirm, FirmItself DEF Firm
  <2> HIDE DEF ended
  <2>7. Firm(Counts, ended, Closed(ended))
    BY <1>1, <2>6, ClosedFirm DEF Firm
  <2>8. Firm(Counts, World, Closed(ended))
    BY <2>4, <2>5, <2>6, <2>7, FirmTwice
  <2>9. QED
    BY <2>2, <2>8, FirmSection
<1>10. QED
  BY <1>4, <1>5, <1>6, <1>7, <1>8, <1>9 DEF Next, MotionTask

----------------------------------------------------------------------------
\* RESET, with the inputs clear, the heartbeats fresh and no hazard left, is the
\* only way out of a latch, and it leads to a standstill with nothing to resume,
\* for every set of commands and every interleaving of the tasks.
THEOREM OnlyResetReleases == Spec => LatchLeftByReset
<1>1. GateInv /\ [Next]_vars
        => [safety.state # "IDLE" /\ safety'.state = "IDLE" =>
             /\ pc = "command" /\ slots > 0
             /\ ~pins.estop /\ ~pins.positive /\ ~pins.negative /\ fresh
             /\ ~Hazard(safety') /\ gate'.output = 0
             /\ motion'.state = "IDLE" /\ motion'.target = motion'.position]_vars
  BY NextUpholds DEF Upholds, Leaves
<1>2. QED
  BY <1>1, InitGateInv, NextGateInv, PTL DEF Spec, LatchLeftByReset

\* What every step does to the latch, the retained fault and the drive is a step
\* of SafetyLatch: the sections of the two tasks, in any order, are trips, resets
\* and drives with nothing latched.
LEMMA StepIsPromised ==
  GateInv /\ GateInv' /\ [Next]_vars
    => [Promise!Next]_<<safety.state, safety.code, gate.output>>
<1> SUFFICES ASSUME GateInv, GateInv', [Next]_vars PROVE Promise!Next
  OBVIOUS
<1>1. /\ safety.state \in SafetyStates /\ safety.code \in FaultCodes /\ Remembers(safety)
  BY DEF GateInv, Good, Honest, World, Worlds, SafetyRecord
<1>2. /\ safety'.state \in SafetyStates /\ safety'.code \in FaultCodes
      /\ Remembers(safety)' /\ gate'.output \in Duty
      /\ safety'.state # "IDLE" => gate'.output = 0
  BY DEF GateInv, Good, Honest, World, Worlds, SafetyRecord, Gate, SafeGate, GateAgrees, Counts
<1>3. CASE safety'.state = "IDLE" /\ safety.state = "IDLE"
  <2>1. safety.code = "NONE" /\ safety'.code = "NONE"
    BY <1>1, <1>2, <1>3 DEF Remembers
  <2>2. Promise!Drive
    BY <1>2, <1>3, <2>1 DEF Promise!Drive
  <2>3. QED
    BY <2>2 DEF Promise!Next
<1>4. CASE safety'.state = "IDLE" /\ safety.state # "IDLE"
  <2>1. Leaves
    BY <1>4, NextUpholds DEF Upholds
  <2>2. Promise!Reset
    BY <1>4, <2>1 DEF Leaves, Promise!Reset
  <2>3. QED
    BY <2>2 DEF Promise!Next
<1>5. CASE safety'.state # "IDLE"
  <2>1. Upholds(safety, safety')
    BY <1>5, NextUpholds DEF Leaves
  <2>2. safety'.state = "FAULT" => safety'.code # "NONE"
    BY <1>2 DEF Remembers
  <2>3. Promise!Trip
    BY <1>1, <1>2, <1>5, <2>1, <2>2 DEF Upholds, SafetyStates, Promise!Trip
  <2>4. QED
    BY <2>3 DEF Promise!Next
<1>6. QED
  BY <1>3, <1>4, <1>5

\* The control loop implements the promise of SafetyLatch, for every travel, set
\* of commands and timing.
THEOREM LatchPromiseKept == Spec => ImplementsLatch
<1>1. Init => Promise!Init
  BY DEF Init, SafetyInit, GateInit, Promise!Init
<1>2. QED
  BY <1>1, StepIsPromised, InitGateInv, NextGateInv, PTL
     DEF Spec, ImplementsLatch, Promise!Spec
=============================================================================
