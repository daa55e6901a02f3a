--------------------------- MODULE OperationProofs ---------------------------
(***************************************************************************)
(* What the outcomes of Motion's operations mean: the drive has an owner,  *)
(* the departure allowance was earned, the reference is set on the switch, *)
(* a completed move is at rest on its target.  A world is Fit when the     *)
(* first two hold in it; a section is Sound when it keeps that, counts no  *)
(* outcome and only ever takes drive away, which all of them do but the    *)
(* control update.                                                         *)
(***************************************************************************)
EXTENDS ControlLoopProofs

Owned(w) ==
  w.gate.output # 0 =>
    /\ w.motion.state \in {"MOVING", "HOMING"}
    /\ w.motion.state = "HOMING" => w.gate.output = HomingPwm

\* The allowance of a safety record stands on what Safety observes.
Granted(s) == s.homeContact => s.state = "IDLE" /\ s.valid /\ s.inputs.negative

\* FinishSeek grants the allowance on the strength of the result alone, so the
\* result COMPLETE must itself stand for a reference.
Earned(w) ==
  /\ Granted(w.safety)
  /\ w.safety.homeContact => w.motion.homed > 0
  /\ w.motion.result = "COMPLETE" => w.motion.homed > 0

Fit(w) == Owned(w) /\ Earned(w)

\* The inductive invariant.
LoopInv == GateInv /\ Fit(World)

\* No outcome is counted from w to v.
SameOutcomes(w, v) ==
  v.motion.homed = w.motion.homed /\ v.motion.completed = w.motion.completed

Sound(C, w, v) ==
  Good(C, v) /\ Fit(v) /\ SameOutcomes(w, v) /\ v.gate.output \in {0, w.gate.output}

LEMMA SoundItself ==
  ASSUME NEW C, NEW w, Good(C, w), Fit(w) PROVE Sound(C, w, w)
BY DEF Sound, SameOutcomes

LEMMA SoundTwice ==
  ASSUME NEW C, NEW u, NEW v, NEW w, Sound(C, u, v), Sound(C, v, w)
  PROVE  Sound(C, u, w)
BY DEF Sound, SameOutcomes

\* From s to t the allowance is at most withdrawn.
Withdraws(s, t) == t.homeContact => s.homeContact /\ Granted(t)

\* What makes a section Sound: the drive goes, or it and the state stay.
LEMMA SectionSound ==
  ASSUME NEW C, NEW w, NEW v, Fit(w), Good(C, v), SameOutcomes(w, v),
         \/ v.gate.output = 0
         \/ v.gate.output = w.gate.output /\ v.motion.state = w.motion.state,
         v.motion.result = "COMPLETE" => w.motion.result = "COMPLETE",
         Withdraws(w.safety, v.safety)
  PROVE  Sound(C, w, v)
<1>1. Owned(v)
  BY DEF Fit, Owned
<1>2. Earned(v)
  BY DEF Fit, Earned, SameOutcomes, Withdraws, Granted
<1>3. QED
  BY <1>1, <1>2 DEF Sound, Fit

LEMMA SameSafetyWithdraws ==
  ASSUME NEW w, Fit(w) PROVE Withdraws(w.safety, w.safety)
BY DEF Fit, Earned, Withdraws

----------------------------------------------------------------------------
\* The safety manager: an evaluation withdraws the allowance with every trip
\* and on release of the switch, grants none, and counts nothing.
Spares(C, s, t) ==
  /\ t \in SafetyRecord(C) /\ t.aborted = s.aborted
  /\ t.inputs = s.inputs /\ t.valid = s.valid
  /\ t.homeContact => s.homeContact /\ t.state = s.state

LEMMA SparesItself ==
  ASSUME NEW C, NEW s \in SafetyRecord(C) PROVE Spares(C, s, s)
BY DEF Spares

LEMMA SparesTwice ==
  ASSUME NEW C, NEW r, NEW s, NEW t, Spares(C, r, s), Spares(C, s, t)
  PROVE  Spares(C, r, t)
BY DEF Spares

LEMMA TripSpares ==
  ASSUME NEW C, NEW s \in SafetyRecord(C), NEW code \in FaultCodes
  PROVE  Spares(C, s, Trip(s, code)) /\ ~Trip(s, code).homeContact
<1>1. /\ Trip(s, code).aborted = s.aborted /\ Trip(s, code).inputs = s.inputs
      /\ Trip(s, code).valid = s.valid /\ Trip(s, code).homeContact = FALSE
  BY DEF Trip, FaultRaise, SafetyRecord
<1>2. QED
  BY <1>1, TripLatches DEF Spares

LEMMA EstopSpares ==
  ASSUME NEW C, NEW s \in SafetyRecord(C)
  PROVE  Spares(C, s, Estop(s)) /\ ~Estop(s).homeContact
<1>1. /\ Estop(s).aborted = s.aborted /\ Estop(s).inputs = s.inputs
      /\ Estop(s).valid = s.valid /\ Estop(s).homeContact = FALSE
  BY DEF Estop, SafetyRecord
<1>2. QED
  BY <1>1, EstopType DEF Spares

LEMMA InternalSpares ==
  ASSUME NEW C, NEW s \in SafetyRecord(C)
  PROVE  Spares(C, s, InternalFault(s)) /\ ~InternalFault(s).homeContact
<1> DEFINE raised == [s EXCEPT !.internal = TRUE]
<1>1. raised \in SafetyRecord(C) /\ Spares(C, s, raised)
  BY DEF SafetyRecord, Spares
<1> HIDE DEF raised
<1>2. /\ Spares(C, raised, Trip(raised, "INTERNAL"))
      /\ ~Trip(raised, "INTERNAL").homeContact
  BY <1>1, TripSpares DEF FaultCodes
<1>3. QED
  BY <1>1, <1>2, SparesTwice DEF InternalFault, raised

\* No allowance stands with a latch.
Unlatched(s) == s.homeContact => s.state = "IDLE"

\* The observation leaves an allowance only with the switch seen active.
LEMMA ObserveSpares ==
  ASSUME NEW C, NEW s \in SafetyRecord(C), NEW inputs \in Inputs, NEW valid \in BOOLEAN,
         NEW healthy \in BOOLEAN, Unlatched(s)
  PROVE  LET o == Observe(s, inputs, valid, healthy)
         IN  o \in SafetyRecord(C) /\ o.aborted = s.aborted /\ Withdraws(s, o)
<1> DEFINE seen     == Record(s, inputs, valid, healthy)
           readable == SeeGpio(seen)
           estopped == SeeEstop(readable)
           limited  == SeePositive(estopped)
           released == [limited EXCEPT !.homeContact = FALSE]
<1>1. /\ seen \in SafetyRecord(C) /\ seen.aborted = s.aborted
      /\ seen.homeContact = s.homeContact /\ seen.state = s.state
  BY DEF Record, SafetyRecord
<1> HIDE DEF seen
<1>2. Spares(C, seen, readable) /\ (readable.homeContact => readable.valid)
  BY <1>1, InternalSpares, SparesItself DEF SeeGpio, When
<1> HIDE DEF readable
<1>3. Spares(C, readable, estopped)
  BY <1>2, EstopSpares, SparesItself DEF SeeEstop, When, Spares
<1> HIDE DEF estopped
<1>4. Spares(C, estopped, limited)
  <2>1. "POSITIVE_LIMIT" \in FaultCodes
    BY DEF FaultCodes
  <2>2. QED
    BY <1>3, <2>1, TripSpares, SparesItself DEF SeePositive, When, Spares
<1> HIDE DEF limited
<1>5. /\ limited \in SafetyRecord(C) /\ limited.aborted = s.aborted
      /\ limited.homeContact => s.homeContact /\ limited.state = "IDLE" /\ limited.valid
  BY <1>1, <1>2, <1>3, <1>4 DEF Spares, Unlatched
<1>6. /\ released \in SafetyRecord(C) /\ released.aborted = s.aborted
      /\ released.homeContact = FALSE
  BY <1>5 DEF SafetyRecord
<1> HIDE DEF released
<1>7. SeeRelease(limited) = IF limited.valid /\ ~limited.inputs.negative THEN released
                                                                          ELSE limited
  BY DEF SeeRelease, When, released
<1>8. LET o == SeeRelease(limited)
      IN  o \in SafetyRecord(C) /\ o.aborted = s.aborted /\ Withdraws(s, o)
  BY <1>5, <1>6, <1>7 DEF Withdraws, Granted, Unlatched
<1>9. QED
  BY <1>8 DEF Observe, limited, estopped, readable, seen

\* An evaluation withdraws at most the allowance and counts nothing.
Lessens(s, e) == e.aborted = s.aborted /\ Withdraws(s, e)

LEMMA StallSpares ==
  ASSUME NEW C, NEW s \in SafetyRecord(C), NEW at \in 0 .. TimeMod - 1,
         NEW m, NEW position \in C, NEW pwm, NEW expectedHome
  PROVE  Spares(C, s, Stall(s, at, m, position, pwm, expectedHome))
<1> DEFINE begun  == When(~s.candidate,
                          [s EXCEPT !.candidate = TRUE, !.candidateStart = at], s)
           marked == [begun EXCEPT !.recovery = TRUE, !.faultPosition = position]
           ended  == [s EXCEPT !.candidate = FALSE, !.candidateStart = 0]
<1>1. begun \in SafetyRecord(C) /\ Spares(C, s, begun)
  BY DEF When, SafetyRecord, Spares
<1>2. marked \in SafetyRecord(C) /\ Spares(C, begun, marked)
  <2> HIDE DEF begun
  <2> QED BY <1>1 DEF SafetyRecord, Spares
<1>3. Spares(C, marked, Trip(marked, "NO_MOTION"))
  <2> HIDE DEF marked
  <2> QED BY <1>2, TripSpares DEF FaultCodes
<1>4. Spares(C, s, ended)
  <2>1. 0 \in 0 .. TimeMod - 1
    BY SafetyAssumption
  <2>2. QED
    BY <2>1 DEF SafetyRecord, Spares
<1>5. Stall(s, at, m, position, pwm, expectedHome)
        \in {begun, Trip(marked, "NO_MOTION"), ended}
  <2> HIDE DEF begun
  <2> QED BY DEF Stall, begun
<1>6. QED
  <2> HIDE DEF begun, marked, ended
  <2> QED BY <1>1, <1>2, <1>3, <1>4, <1>5, SparesTwice

LEMMA EvaluateSpares ==
  ASSUME NEW C, 0 \in C, NEW s \in SafetyRecord(C), NEW at \in 0 .. TimeMod - 1,
         NEW inputs \in Inputs, NEW valid \in BOOLEAN, NEW m, NEW position \in C, NEW pwm,
         NEW healthy \in BOOLEAN, Unlatched(s)
  PROVE  Lessens(s, Evaluate(s, at, inputs, valid, m, position, pwm, healthy))
<1> DEFINE seen    == Observe(s, inputs, valid, healthy)
           limited == SeeNegative(seen, m, position, pwm)
           watched == SeeHealth(limited, at)
           moved   == SeeRecovery(watched, position)
           checked == Stall(moved, at, m, position, pwm, ExpectedHome(seen, m))
<1>1. seen \in SafetyRecord(C) /\ seen.aborted = s.aborted /\ Withdraws(s, seen)
  BY ObserveSpares
<1> HIDE DEF seen
<1>2. {"NEGATIVE_LIMIT", "WATCHDOG"} \subseteq FaultCodes
  BY DEF FaultCodes
<1>3. Spares(C, seen, limited)
  BY <1>1, <1>2, TripSpares, SparesItself DEF SeeNegative, When
<1> HIDE DEF limited
<1>4. Spares(C, limited, watched)
  BY <1>2, <1>3, TripSpares, SparesItself DEF SeeHealth, When, Spares
<1> HIDE DEF watched
<1>5. Spares(C, watched, moved)
  <2> DEFINE cleared == [watched EXCEPT !.recovery = FALSE, !.faultPosition = 0]
  <2>1. watched \in SafetyRecord(C)
    BY <1>4 DEF Spares
  <2>2. Spares(C, watched, cleared)
    BY <2>1 DEF SafetyRecord, Spares
  <2>3. moved \in {watched, cleared}
    BY DEF SeeRecovery, When
  <2> HIDE DEF cleared, moved
  <2>4. QED
    BY <2>1, <2>2, <2>3, SparesItself
<1> HIDE DEF moved
<1>6. Spares(C, moved, checked)
  BY <1>5, StallSpares DEF Spares
<1> HIDE DEF checked
<1>7. Spares(C, checked, Settle(checked))
  <2>1. ConditionActive(checked) \in BOOLEAN
    BY DEF ConditionActive
  <2>2. QED
    BY <1>6, <2>1 DEF Settle, SafetyRecord, Spares
<1>8. Spares(C, seen, Settle(checked))
  BY <1>3, <1>4, <1>5, <1>6, <1>7, SparesTwice
<1>9. Lessens(s, Settle(checked))
  BY <1>1, <1>8 DEF Spares, Lessens, Withdraws, Granted
<1>10. QED
  BY <1>9 DEF Evaluate, checked, moved, watched, limited, seen

----------------------------------------------------------------------------
\* The motion controller and homing: what they leave of a world, field by field.
\* From w to v only the motion side acted, counting nothing and driving nothing.
Rests(w, v) ==
  /\ v.gate.output = 0 /\ SameOutcomes(w, v)
  /\ v.safety = w.safety /\ v.count = w.count

LEMMA FailRests ==
  ASSUME NEW C, NEW w \in Worlds(C)
  PROVE  Rests(w, Fail(w)) /\ Fail(w).motion.result = w.motion.result
BY DEF Fail, Disable, Worlds, Gate, MotionRecord, Rests, SameOutcomes

LEMMA StoppedRests ==
  ASSUME NEW C, NEW w \in Worlds(C)
  PROVE  Rests(w, Stopped(w)) /\ Stopped(w).motion.result = w.motion.result
BY DEF Stopped, Disable, Worlds, Gate, MotionRecord, Rests, SameOutcomes

LEMMA ClearControlRests ==
  ASSUME NEW C, NEW w \in Worlds(C)
  PROVE  LET v == ClearControl(w)
         IN  /\ Rests(w, v) /\ v.motion.result = w.motion.result
             /\ v.motion.state = w.motion.state
BY DEF ClearControl, Disable, Worlds, Gate, MotionRecord, Rests, SameOutcomes

LEMMA HomingAbortRests ==
  ASSUME NEW C, NEW w \in Worlds(C), NEW result, result # "COMPLETE"
  PROVE  LET v == HomingAbort(w, result)
         IN  /\ Rests(w, v) /\ v.motion.state = w.motion.state
             /\ v.motion.result = "COMPLETE" => w.motion.result = "COMPLETE"
<1> DEFINE cleared == ClearControl(w)
<1>1. /\ Rests(w, cleared) /\ cleared.motion.result = w.motion.result
      /\ cleared.motion.state = w.motion.state
  BY ClearControlRests
<1>2. cleared \in Worlds(C)
  BY ClearControlKept DEF Kept
<1> DEFINE shown == IF cleared.motion.result = "RUNNING" THEN result ELSE cleared.motion.result
           ended == [cleared.motion EXCEPT !.result = shown, !.started = 0]
<1>3. HomingAbort(w, result) = [cleared EXCEPT !.motion = ended]
  BY DEF HomingAbort
<1> HIDE DEF cleared
<1>4. shown = "COMPLETE" => w.motion.result = "COMPLETE"
  BY <1>1
<1> HIDE DEF shown
<1>5. /\ ended.result = shown /\ ended.state = cleared.motion.state
      /\ ended.homed = cleared.motion.homed /\ ended.completed = cleared.motion.completed
  BY <1>2 DEF Worlds, MotionRecord
<1> HIDE DEF ended
<1>6. LET v == [cleared EXCEPT !.motion = ended]
      IN  /\ v.motion = ended /\ v.gate = cleared.gate
          /\ v.safety = cleared.safety /\ v.count = cleared.count
  BY <1>2 DEF Worlds
<1>7. QED
  BY <1>1, <1>3, <1>4, <1>5, <1>6 DEF Rests, SameOutcomes

\* Whatever leaves the motion side at rest is Sound.
LEMMA RestsSound ==
  ASSUME NEW C, NEW w, NEW v, Good(C, w), Fit(w), Kept(C, w, v), Rests(w, v),
         v.motion.result = "COMPLETE" => w.motion.result = "COMPLETE"
  PROVE  Sound(C, w, v)
<1>1. Good(C, v)
  BY KeptGood
<1>2. QED
  BY <1>1, SectionSound, SameSafetyWithdraws DEF Rests

LEMMA HomingAbortSound ==
  ASSUME NEW C, NEW w, Good(C, w), Fit(w),
         NEW result \in HomingResults \ {"COMPLETE"}
  PROVE  Sound(C, w, HomingAbort(w, result))
BY HomingAbortKept, HomingAbortRests, RestsSound DEF Good

LEMMA AbandonSound ==
  ASSUME NEW C, NEW w, Good(C, w), Fit(w) PROVE Sound(C, w, Abandon(w))
<1>1. /\ Abandon(w).gate = w.gate /\ Abandon(w).motion = w.motion
      /\ Abandon(w).safety.homeContact = w.safety.homeContact
      /\ Abandon(w).safety.state = w.safety.state
      /\ Abandon(w).safety.valid = w.safety.valid
      /\ Abandon(w).safety.inputs = w.safety.inputs
  BY DEF Abandon, Good, Worlds, SafetyRecord
<1>2. Good(C, Abandon(w))
  BY AbandonKept, GoodThenKept
<1>3. QED
  BY <1>1, <1>2, SectionSound DEF SameOutcomes, Fit, Earned, Withdraws, Granted

LEMMA PublishSound ==
  ASSUME NEW C, NEW w, Good(C, w), Fit(w) PROVE Sound(C, w, Publish(w))
<1>1. /\ Publish(w).gate = w.gate /\ Publish(w).motion = w.motion
      /\ Publish(w).safety = w.safety
  BY DEF Publish, Good, Worlds
<1>2. Good(C, Publish(w))
  BY PublishKept, GoodThenKept
<1>3. QED
  BY <1>1, <1>2, SectionSound, SameSafetyWithdraws DEF SameOutcomes

LEMMA MotionCommandSound ==
  ASSUME NEW C, Travel(C), NEW w, Good(C, w), Fit(w), NEW command
  PROVE  Sound(C, w, MotionCommand(w, command).world)
<1> DEFINE target == Target(w.motion, command)
           moving == [w EXCEPT !.motion = [@ EXCEPT !.target = target,
                                                    !.state = "MOVING", !.stable = 0]]
           v == MotionCommand(w, command).world
<1>1. w \in Worlds(C) /\ Good(C, v)
  BY MotionCommandKept, GoodThenKept DEF Good
<1>2. \/ v = w
      \/ v = Stopped(w)
      \/ v = moving /\ w.motion.state = "IDLE"
  BY DEF MotionCommand, Answer
<1> HIDE DEF v
<1>3. ASSUME v = w PROVE Sound(C, w, v)
  BY <1>3, SoundItself
<1>4. ASSUME v = Stopped(w) PROVE Sound(C, w, v)
  BY <1>1, <1>4, StoppedRests, StoppedKept, RestsSound
<1>5. ASSUME v = moving, w.motion.state = "IDLE" PROVE Sound(C, w, v)
  <2>1. /\ v.gate = w.gate /\ v.safety = w.safety /\ SameOutcomes(w, v)
        /\ v.motion.result = w.motion.result
    <3> HIDE DEF target
    <3> QED BY <1>1, <1>5 DEF Worlds, MotionRecord, SameOutcomes
  <2>2. w.gate.output = 0
    BY <1>5 DEF Fit, Owned
  <2>3. QED
    BY <1>1, <2>1, <2>2, SectionSound, SameSafetyWithdraws
<1>6. QED
  BY <1>2, <1>3, <1>4, <1>5 DEF v

----------------------------------------------------------------------------
\* The adapter: enforcement and evaluation leave the motion side alone.
LEMMA EnforceLeaves ==
  ASSUME NEW C, NEW w \in Worlds(C), SafeGate(w.gate)
  PROVE  LET v == Enforce(w)
         IN  /\ v.motion = w.motion /\ v.safety = w.safety /\ v.count = w.count
             /\ v.gate.output \in {0, w.gate.output}
<1> DEFINE guarded == Guarded(w)
           shut    == IF Unsafe(w) # guarded.inhibited THEN Inhibit(guarded, Unsafe(w))
                                                       ELSE guarded
<1>1. w.gate \in Gate
  BY DEF Worlds
<1>2. guarded \in Gate /\ guarded.output \in {0, w.gate.output}
  <2> DEFINE guard == w.safety.homeContact /\ w.safety.valid /\ w.safety.inputs.negative
  <2>1. guarded = BlockNegative(w.gate, guard) /\ guard \in BOOLEAN
    BY DEF Guarded
  <2> HIDE DEF guard
  <2>2. guarded \in Gate
    BY <1>1, <2>1, BlockNegativeSafe
  <2>3. QED
    BY <1>1, <2>1, <2>2 DEF BlockNegative, Gate
<1> HIDE DEF guarded
<1>3. shut.output \in {0, w.gate.output}
  BY <1>2 DEF Inhibit, Gate
<1>4. Enforce(w) = [w EXCEPT !.gate = shut,
                             !.report = IF w.safety.state # "IDLE" THEN w.safety.state ELSE @]
  BY DEF Enforce, guarded
<1> HIDE DEF shut
<1>5. QED
  BY <1>3, <1>4 DEF Worlds

LEMMA EvaluateLeaves ==
  ASSUME NEW C, 0 \in C, NEW w \in Worlds(C), SafeGate(w.gate), Remembers(w.safety),
         Unlatched(w.safety), NEW env \in EnvSet
  PROVE  LET v == EvaluateNow(w, env)
         IN  /\ Good(C, v) /\ v.motion = w.motion /\ v.count = w.count
             /\ v.gate.output \in {0, w.gate.output}
             /\ v.safety.aborted = w.safety.aborted /\ Withdraws(w.safety, v.safety)
<1> DEFINE e == Evaluate(w.safety, env.now, env.inputs, TRUE, w.pub, w.count,
                         w.gate.output, env.healthy)
           x == [w EXCEPT !.safety = e]
<1>1. /\ w.safety \in SafetyRecord(C) /\ w.count \in C
      /\ env.now \in 0 .. TimeMod - 1 /\ env.inputs \in Inputs /\ env.healthy \in BOOLEAN
  BY DEF Worlds, EnvSet
<1>2. e \in SafetyRecord(C)
  BY <1>1, EvaluateFacts
<1>3. Lessens(w.safety, e)
  BY <1>1, EvaluateSpares
<1>4. EvaluateNow(w, env) = Enforce(x)
  BY DEF EvaluateNow
<1> HIDE DEF e
<1>5. /\ x \in Worlds(C) /\ x.gate = w.gate /\ x.safety = e
      /\ x.motion = w.motion /\ x.count = w.count
  BY <1>2 DEF Worlds
<1> HIDE DEF x
<1>6. Good(C, EvaluateNow(w, env))
  BY EvaluateGood
<1>7. QED
  BY <1>3, <1>4, <1>5, <1>6, EnforceLeaves DEF Lessens

LEMMA EvaluateSound ==
  ASSUME NEW C, 0 \in C, NEW w, Good(C, w), Fit(w), NEW env \in EnvSet
  PROVE  LET v == EvaluateNow(w, env)
         IN  /\ Sound(C, w, v) /\ v.motion = w.motion /\ v.count = w.count
             /\ v.safety.aborted = w.safety.aborted
<1> DEFINE v == EvaluateNow(w, env)
<1>1. /\ Good(C, v) /\ v.motion = w.motion /\ v.count = w.count
      /\ v.gate.output \in {0, w.gate.output}
      /\ v.safety.aborted = w.safety.aborted /\ Withdraws(w.safety, v.safety)
  BY EvaluateLeaves DEF Good, Honest, Fit, Earned, Granted, Unlatched
<1> HIDE DEF v
<1>2. Sound(C, w, v)
  BY <1>1, SectionSound DEF SameOutcomes
<1>3. QED
  BY <1>1, <1>2 DEF v

\* A fault raised outside an evaluation takes drive and allowance away.
LEMMA LatchSound ==
  ASSUME NEW C, NEW w, Good(C, w), Fit(w), NEW s \in SafetyRecord(C), s.state # "IDLE",
         Honest(s), ~s.homeContact
  PROVE  Sound(C, w, Enforce([w EXCEPT !.safety = s]))
<1> DEFINE x == [w EXCEPT !.safety = s]
           v == Enforce(x)
<1>1. x \in Worlds(C) /\ x.gate = w.gate /\ x.safety = s /\ x.motion = w.motion
  BY DEF Good, Worlds
<1>2. Good(C, v)
  BY LatchGood
<1> HIDE DEF x
<1>3. /\ v.motion = w.motion /\ v.safety = s /\ v.gate.output \in {0, w.gate.output}
  BY <1>1, EnforceLeaves DEF Good
<1> HIDE DEF v
<1>4. Sound(C, w, v)
  BY <1>2, <1>3, SectionSound DEF SameOutcomes, Withdraws
<1>5. QED
  BY <1>4 DEF v, x

LEMMA InternalSound ==
  ASSUME NEW C, NEW w, Good(C, w), Fit(w)
  PROVE  Sound(C, w, Enforce([w EXCEPT !.safety = InternalFault(@)]))
<1>1. w.safety \in SafetyRecord(C)
  BY DEF Good, Worlds
<1>2. Honest(InternalFault(w.safety))
  BY <1>1, InternalHonest DEF Good, Honest, Loyal
<1>3. QED
  BY <1>1, <1>2, InternalLatches, InternalSpares, LatchSound

\* Motion has adopted the latch.
Adopted(w) == w.safety.state # "IDLE" => w.motion.state = w.safety.state

LEMMA SyncSound ==
  ASSUME NEW C, NEW w, Good(C, w), Fit(w)
  PROVE  LET v == Sync(w)
         IN  /\ Sound(C, w, v) /\ Adopted(v) /\ v.safety.state = w.safety.state
             /\ w.safety.state = "IDLE" => v = w
<1> DEFINE counted == IF w.motion.state \in ActiveStates THEN Abandon(w) ELSE w
           ended   == IF w.motion.state = "HOMING" THEN EndSeek(counted) ELSE counted
           held    == [ended.motion EXCEPT !.state = w.safety.state,
                                           !.target = w.motion.position, !.stable = 0]
           v       == [ended EXCEPT !.motion = held]
<1>1. Sync(w) = IF w.safety.state = "IDLE" THEN w ELSE v
  BY DEF Sync
<1>2. CASE w.safety.state = "IDLE"
  BY <1>1, <1>2, SoundItself DEF Adopted
<1>3. CASE w.safety.state # "IDLE"
  <2>1. Sound(C, w, counted)
    BY AbandonSound, SoundItself
  <2> HIDE DEF counted
  <2>2. Sound(C, w, ended)
    <3>1. {"ESTOPPED", "FAULTED"} \subseteq HomingResults \ {"COMPLETE"}
      BY DEF HomingResults
    <3>2. Sound(C, counted, EndSeek(counted))
      BY <2>1, <3>1, HomingAbortSound DEF EndSeek, Sound
    <3>3. QED
      BY <2>1, <3>2, SoundTwice
  <2> HIDE DEF ended
  <2>3. Good(C, ended) /\ Fit(ended) /\ ended \in Worlds(C)
    BY <2>2 DEF Sound, Good
  <2>4. w.gate.output = 0
    BY <1>3 DEF Good, SafeGate, GateAgrees
  <2>5. Sync(w) = v
    BY <1>1, <1>3
  <2>6. Good(C, v)
    <3>1. Good(C, Sync(w))
      BY SyncKept, GoodThenKept
    <3>2. QED
      BY <2>5, <3>1
  <2>7. /\ held.state = w.safety.state /\ held.result = ended.motion.result
        /\ held.homed = ended.motion.homed /\ held.completed = ended.motion.completed
    BY <2>3 DEF Worlds, MotionRecord
  <2> HIDE DEF held
  <2>8. v.motion = held /\ v.gate = ended.gate /\ v.safety = ended.safety
    BY <2>3 DEF Worlds
  <2>9. ended.gate.output = 0
    BY <2>2, <2>4 DEF Sound
  <2>10. v.safety.state = w.safety.state
    <3>1. Kept(C, w, Sync(w))
      BY SyncKept DEF Good
    <3>2. QED
      BY <2>5, <3>1 DEF Kept, SameVerdict
  <2> HIDE DEF v
  <2>11. Sound(C, ended, v)
    BY <2>3, <2>6, <2>7, <2>8, <2>9, SectionSound, SameSafetyWithdraws DEF SameOutcomes
  <2>12. Sound(C, w, v)
    BY <2>2, <2>11, SoundTwice
  <2>13. QED
    BY <1>3, <2>5, <2>7, <2>8, <2>10, <2>12 DEF Adopted
<1>4. QED
  BY <1>2, <1>3

LEMMA EvaluateSyncSound ==
  ASSUME NEW C, 0 \in C, NEW w, Good(C, w), Fit(w), NEW env \in EnvSet
  PROVE  LET v == EvaluateSync(w, env)
         IN  /\ Sound(C, w, v) /\ Adopted(v)
             /\ v.safety.state = "IDLE" =>
                  v.motion = w.motion /\ v.safety.aborted = w.safety.aborted
<1> DEFINE seen == EvaluateNow(w, env)
<1>1. /\ Sound(C, w, seen) /\ seen.motion = w.motion
      /\ seen.safety.aborted = w.safety.aborted
  BY EvaluateSound
<1>2. EvaluateSync(w, env) = Sync(seen)
  BY DEF EvaluateSync
<1> HIDE DEF seen
<1>3. /\ Sound(C, seen, Sync(seen)) /\ Adopted(Sync(seen))
      /\ Sync(seen).safety.state = seen.safety.state
      /\ seen.safety.state = "IDLE" => Sync(seen) = seen
  BY <1>1, SyncSound DEF Sound
<1>4. QED
  BY <1>1, <1>2, <1>3, SoundTwice

----------------------------------------------------------------------------
\* The adapter: every command is Sound; none sets the motor moving.
LEMMA CommandEstopSound ==
  ASSUME NEW C, NEW w, Good(C, w), Fit(w) PROVE Sound(C, w, CommandEstop(w).world)
<1> DEFINE latched == Enforce([w EXCEPT !.safety = Estop(@)])
<1>1. w.safety \in SafetyRecord(C) /\ Honest(w.safety)
  BY DEF Good, Worlds
<1>2. /\ Estop(w.safety) \in SafetyRecord(C) /\ Estop(w.safety).state # "IDLE"
      /\ Honest(Estop(w.safety)) /\ ~Estop(w.safety).homeContact
  BY <1>1, EstopType, EstopHonest, EstopSpares DEF Honest
<1>3. Sound(C, w, latched)
  BY <1>2, LatchSound
<1>4. CommandEstop(w).world = Sync(latched)
  BY DEF CommandEstop, Answer
<1> HIDE DEF latched
<1>5. QED
  BY <1>3, <1>4, SyncSound, SoundTwice DEF Sound

LEMMA CommandResetSound ==
  ASSUME NEW C, 0 \in C, NEW w, Good(C, w), Fit(w), NEW env \in EnvSet
  PROVE  Sound(C, w, CommandReset(w, env).world)
<1> DEFINE seen   == EvaluateNow(w, env)
           safe   == Reset(seen.safety)
           freed  == Inhibit(Disable(seen.gate), FALSE)
           idle   == [seen.motion EXCEPT !.state = "IDLE", !.target = seen.motion.position,
                                         !.stable = 0]
           v      == CommandReset(w, env).world
<1>1. Sound(C, w, seen)
  BY EvaluateSound
<1>2. Good(C, v)
  BY CommandResetGood
<1>3. v \in {w, seen} \/ v = Freed(seen)
  BY DEF CommandReset, ResetAfter, Answer
<1> HIDE DEF seen, v
<1>4. seen \in Worlds(C) /\ Fit(seen)
  BY <1>1 DEF Sound, Good
<1>5. ASSUME v = Freed(seen) PROVE Sound(C, seen, v)
  <2>1. Freed(seen) = [seen EXCEPT !.safety = safe, !.gate = freed, !.motion = idle]
    BY DEF Freed
  <2>2. freed.output = 0
    BY <1>4 DEF Worlds, Gate, Disable, Inhibit
  <2>3. Withdraws(seen.safety, safe)
    <3>1. /\ safe.homeContact = seen.safety.homeContact /\ safe.state = "IDLE"
          /\ safe.valid = seen.safety.valid /\ safe.inputs = seen.safety.inputs
      BY <1>4 DEF Worlds, SafetyRecord, Reset, FaultReset
    <3>2. QED
      BY <1>4, <3>1 DEF Fit, Earned, Withdraws, Granted
  <2>4. /\ idle.homed = seen.motion.homed /\ idle.completed = seen.motion.completed
        /\ idle.result = seen.motion.result
    BY <1>4 DEF Worlds, MotionRecord
  <2> HIDE DEF safe, freed, idle
  <2>5. v.safety = safe /\ v.gate = freed /\ v.motion = idle
    BY <1>4, <1>5, <2>1 DEF Worlds
  <2>6. QED
    BY <1>2, <1>4, <2>2, <2>3, <2>4, <2>5, SectionSound DEF SameOutcomes
<1>6. Sound(C, w, v)
  BY <1>1, <1>3, <1>5, SoundItself, SoundTwice
<1>7. QED
  BY <1>6 DEF v

LEMMA CommandStopHomingSound ==
  ASSUME NEW C, NEW w, Good(C, w), Fit(w) PROVE Sound(C, w, CommandStopHoming(w).world)
<1> DEFINE aborted  == HomingAbort(w, "STOPPED")
           ended    == Abandon(aborted)
           stopping == [ended.motion EXCEPT !.state = "STOPPING"]
           v        == [ended EXCEPT !.motion = stopping]
<1>1. Sound(C, w, aborted) /\ aborted.gate.output = 0
  <2>1. "STOPPED" \in HomingResults \ {"COMPLETE"}
    BY DEF HomingResults
  <2>2. QED
    BY <2>1, HomingAbortSound, HomingAbortRests DEF Rests, Good
<1> HIDE DEF aborted
<1>2. Sound(C, aborted, ended)
  BY <1>1, AbandonSound DEF Sound
<1>3. CommandStopHoming(w).world = Publish(v)
  BY <1>2 DEF CommandStopHoming, Answer, aborted, Sound, Good, Worlds, MotionRecord
<1> HIDE DEF ended
<1>4. ended \in Worlds(C) /\ Fit(ended) /\ ended.gate.output = 0
  BY <1>1, <1>2 DEF Sound, Good
<1>5. /\ stopping \in MotionRecord(C) /\ stopping.result = ended.motion.result
      /\ stopping.homed = ended.motion.homed
      /\ stopping.completed = ended.motion.completed
  BY <1>4 DEF Worlds, MotionRecord, MotionStates, ActiveStates
<1> HIDE DEF stopping
<1>6. v.motion = stopping /\ v.gate = ended.gate /\ v.safety = ended.safety
  BY <1>4 DEF Worlds
<1>7. Good(C, v)
  <2>1. Good(C, ended)
    BY <1>2 DEF Sound
  <2>2. QED
    BY <1>5, <2>1, MotionOnlyKept, GoodThenKept
<1> HIDE DEF v
<1>8. Sound(C, ended, v)
  BY <1>4, <1>5, <1>6, <1>7, SectionSound, SameSafetyWithdraws DEF SameOutcomes
<1>9. Sound(C, v, Publish(v))
  BY <1>8, PublishSound DEF Sound
<1>10. QED
  BY <1>1, <1>2, <1>3, <1>8, <1>9, SoundTwice

LEMMA HomingBeginSound ==
  ASSUME NEW C, NEW w, Good(C, w), Fit(w), NEW at \in 0 .. TimeMod - 1
  PROVE  Sound(C, w, HomingBegin(w, at).world)
<1> DEFINE cleared == ClearControl(w)
           seeking == [cleared.motion EXCEPT !.result = "RUNNING", !.started = at,
                                             !.referenced = FALSE, !.state = "HOMING"]
           begun   == [cleared EXCEPT !.motion = seeking]
           v       == HomingBegin(w, at).world
<1>1. Rests(w, cleared) /\ cleared \in Worlds(C)
  BY ClearControlRests, ClearControlKept DEF Kept, Good
<1>2. Good(C, v)
  BY HomingBeginKept, GoodThenKept
<1>3. v \in {w, begun}
  BY DEF HomingBegin, Answer
<1> HIDE DEF cleared, v
<1>4. /\ seeking.result = "RUNNING" /\ seeking.homed = cleared.motion.homed
      /\ seeking.completed = cleared.motion.completed
  BY <1>1 DEF Worlds, MotionRecord
<1> HIDE DEF seeking
<1>5. begun.motion = seeking /\ begun.gate = cleared.gate /\ begun.safety = cleared.safety
  BY <1>1 DEF Worlds
<1> HIDE DEF begun
<1>6. ASSUME v = begun PROVE Sound(C, w, v)
  BY <1>1, <1>2, <1>4, <1>5, <1>6, SectionSound, SameSafetyWithdraws
     DEF Rests, SameOutcomes
<1>7. Sound(C, w, v)
  BY <1>3, <1>6, SoundItself
<1>8. QED
  BY <1>7 DEF v

LEMMA CommandHomeSound ==
  ASSUME NEW C, 0 \in C, NEW w, Good(C, w), Fit(w), NEW env \in EnvSet
  PROVE  Sound(C, w, CommandHome(w, env).world)
<1> DEFINE begun == HomingBegin(w, env.now).world
           shown == Publish(begun)
<1>1. Sound(C, w, begun)
  BY HomingBeginSound DEF EnvSet
<1>2. CommandHome(w, env).world \in {EvaluateSync(shown, env), shown}
  BY DEF CommandHome, Answer
<1> HIDE DEF begun
<1>3. Sound(C, w, shown)
  BY <1>1, PublishSound, SoundTwice DEF Sound
<1> HIDE DEF shown
<1>4. Sound(C, shown, EvaluateSync(shown, env))
  BY <1>3, EvaluateSyncSound DEF Sound
<1>5. QED
  BY <1>2, <1>3, <1>4, SoundTwice

LEMMA CommandDepartSound ==
  ASSUME NEW C, Travel(C), NEW w, Good(C, w), Fit(w), NEW command, NEW env \in EnvSet
  PROVE  Sound(C, w, CommandDepart(w, command, env).world)
<1> DEFINE moved == MotionCommand(w, command).world
           shown == Publish(moved)
<1>1. Sound(C, w, moved)
  BY MotionCommandSound
<1>2. CommandDepart(w, command, env).world \in {w, EvaluateSync(shown, env)}
  BY DEF CommandDepart, Answer
<1> HIDE DEF moved
<1>3. Sound(C, w, shown)
  BY <1>1, PublishSound, SoundTwice DEF Sound
<1> HIDE DEF shown
<1>4. Sound(C, shown, EvaluateSync(shown, env))
  BY <1>3, EvaluateSyncSound DEF Sound, Travel
<1>5. QED
  BY <1>2, <1>3, <1>4, SoundItself, SoundTwice

LEMMA SafetyCommandSound ==
  ASSUME NEW C, Travel(C), NEW w, Good(C, w), Fit(w), NEW command, NEW env \in EnvSet
  PROVE  Sound(C, w, SafetyCommand(w, command, env).world)
<1>1. SafetyCommand(w, command, env).world
        \in {w, CommandEstop(w).world, CommandReset(w, env).world,
             CommandStopHoming(w).world, CommandHome(w, env).world,
             CommandDepart(w, command, env).world, MotionCommand(w, command).world}
  BY DEF SafetyCommand, Answer
<1>2. 0 \in C
  BY DEF Travel
<1>3. QED
  BY <1>1, <1>2, SoundItself, MotionCommandSound, CommandEstopSound, CommandResetSound,
     CommandStopHomingSound, CommandHomeSound, CommandDepartSound

----------------------------------------------------------------------------
\* The control update, the one section that drives and counts outcomes.
\* From w to v a seek met the switch that inputs showed.
Homes(w, v, inputs) ==
  /\ w.motion.state = "HOMING" /\ inputs.negative
  /\ ~inputs.estop /\ ~inputs.positive
  /\ w.safety.state = "IDLE" /\ v.gate.output = 0 /\ v.count = 0

\* From w to v a move came to rest on its target.
Completes(w, v) ==
  /\ w.motion.state = "MOVING" /\ w.motion.slow
  /\ Abs(w.motion.target - w.motion.position) <= Tolerance
  /\ v.safety.aborted = w.safety.aborted /\ v.safety.state = "IDLE"

HonestOutcomes(w, v, inputs) ==
  /\ v.motion.homed # w.motion.homed => Homes(w, v, inputs)
  /\ v.motion.completed # w.motion.completed => Completes(w, v)

LEMMA DwellOutcome ==
  ASSUME NEW C, NEW m \in MotionRecord(C)
  PROVE  LET n == Dwell(m)
         IN  /\ n.result = m.result /\ n.homed = m.homed /\ n.state \in {m.state, "IDLE"}
             /\ n.completed # m.completed =>
                  /\ m.state = "MOVING" /\ n.state = "IDLE"
                  /\ m.slow /\ Abs(m.target - m.position) <= Tolerance
<1> DEFINE stable == IF InBand(m) THEN m.stable + 1 ELSE 0
           done   == stable >= DwellCycles
           completed == IF done /\ m.state = "MOVING" THEN m.completed + 1 ELSE m.completed
           state  == IF done THEN "IDLE" ELSE m.state
           n      == [m EXCEPT !.stable = stable, !.completed = completed, !.state = state]
<1>1. Dwell(m) = IF m.state \notin {"MOVING", "STOPPING"} THEN m ELSE n
  BY DEF Dwell
<1>2. done => InBand(m)
  BY MotionAssumption
<1> HIDE DEF done
<1>3. completed # m.completed =>
        /\ m.state = "MOVING" /\ state = "IDLE"
        /\ m.slow /\ Abs(m.target - m.position) <= Tolerance
  BY <1>2 DEF InBand
<1>4. state \in {m.state, "IDLE"}
  OBVIOUS
<1> HIDE DEF stable, completed, state
<1>5. /\ n.result = m.result /\ n.homed = m.homed /\ n.state = state
      /\ n.completed = completed
  BY DEF MotionRecord
<1> HIDE DEF n
<1>6. QED
  BY <1>1, <1>3, <1>4, <1>5

LEMMA MotionUpdateOutcome ==
  ASSUME NEW C, NEW w, Good(C, w), Fit(w), w.motion.state # "HOMING", NEW duty \in Duty
  PROVE  LET u == MotionUpdate(w, duty)
             v == u.world
         IN  /\ Good(C, v) /\ Fit(v) /\ v.safety = w.safety
             /\ v.motion.homed = w.motion.homed
             /\ v.motion.completed # w.motion.completed =>
                  /\ w.motion.state = "MOVING" /\ w.motion.slow
                  /\ Abs(w.motion.target - w.motion.position) <= Tolerance
                  /\ u.ok
<1> DEFINE m      == w.motion
           n      == Dwell(m)
           dwelt  == [w EXCEPT !.motion = n]
           driven == [dwelt EXCEPT !.gate = SetOutput(w.gate, duty)]
           off    == [dwelt EXCEPT !.gate = Disable(w.gate)]
           u      == MotionUpdate(w, duty)
           v      == u.world
<1>1. w \in Worlds(C) /\ m \in MotionRecord(C) /\ w.gate \in Gate
  BY DEF Good, Worlds
<1>2. Good(C, v)
  BY MotionUpdateKept, GoodThenKept
<1>3. /\ n \in MotionRecord(C) /\ n.result = m.result /\ n.homed = m.homed
      /\ n.state \in {m.state, "IDLE"}
      /\ n.completed # m.completed =>
           /\ m.state = "MOVING" /\ n.state = "IDLE"
           /\ m.slow /\ Abs(m.target - m.position) <= Tolerance
  BY <1>1, DwellType, DwellOutcome
<1>4. \/ v = Fail(w) /\ u.ok = FALSE
      \/ v = Fail(driven) /\ u.ok = FALSE /\ n.state = "MOVING"
      \/ v = off /\ u.ok = TRUE /\ n.state # "MOVING"
      \/ v = driven /\ u.ok = TRUE /\ n.state = "MOVING"
  <2>1. dwelt.motion = n /\ dwelt.gate = w.gate
    BY <1>1, <1>3 DEF Worlds
  <2>2. driven = [dwelt EXCEPT !.gate = SetOutput(@, duty)]
        /\ off = [dwelt EXCEPT !.gate = Disable(@)]
    BY <2>1
  <2> HIDE DEF n, driven, off
  <2>3. QED
    BY <2>1, <2>2 DEF MotionUpdate, n
<1> HIDE DEF n, u, v
<1>5. SetOutput(w.gate, duty) \in Gate /\ Disable(w.gate) \in Gate /\ Disable(w.gate).output = 0
  BY <1>1, SetOutputKept, DisableKept DEF Disable, Gate
<1>6. /\ driven \in Worlds(C) /\ driven.motion = n /\ driven.safety = w.safety
      /\ off.gate.output = 0 /\ off.motion = n /\ off.safety = w.safety
  BY <1>1, <1>3, <1>5 DEF Worlds
<1> HIDE DEF driven, off
<1>7. Rests(w, Fail(w)) /\ Fail(w).motion.result = m.result
  BY <1>1, FailRests
<1>8. Rests(driven, Fail(driven)) /\ Fail(driven).motion.result = n.result
  BY <1>6, FailRests
<1>9. Owned(v)
  BY <1>3, <1>4, <1>6, <1>7, <1>8 DEF Rests, Owned
<1>10. v.safety = w.safety
  BY <1>4, <1>6, <1>7, <1>8 DEF Rests
<1>11. v.motion.homed = m.homed /\ v.motion.result = m.result
  BY <1>3, <1>4, <1>6, <1>7, <1>8 DEF Rests, SameOutcomes
<1>12. v.motion.completed # m.completed => n.completed # m.completed /\ u.ok
  BY <1>3, <1>4, <1>6, <1>7, <1>8 DEF Rests, SameOutcomes
<1>13. Fit(v)
  BY <1>9, <1>10, <1>11 DEF Fit, Earned
<1>14. QED
  BY <1>2, <1>3, <1>10, <1>11, <1>12, <1>13 DEF u, v

LEMMA RegularUpdateOutcome ==
  ASSUME NEW C, 0 \in C, NEW w, Good(C, w), Fit(w), Adopted(w),
         w.motion.state # "HOMING", NEW duty \in Duty, NEW env \in EnvSet, NEW inputs
  PROVE  LET u == RegularUpdate(w, duty, env)
         IN  /\ Good(C, u.world) /\ Fit(u.world)
             /\ HonestOutcomes(w, u.world, inputs)
             /\ u.ok \/ SameOutcomes(w, u.world)
<1> DEFINE shown == Publish(w)
           seen  == IF w.safety.homeContact THEN EvaluateSync(shown, env) ELSE w
           u     == RegularUpdate(w, duty, env)
<1>1. Sound(C, w, shown) /\ shown.motion = w.motion /\ shown.safety = w.safety
  <2>1. shown.motion = w.motion /\ shown.safety = w.safety
    BY DEF Publish, Good, Worlds
  <2>2. QED
    BY <2>1, PublishSound
<1> HIDE DEF shown
<1>2. /\ Sound(C, w, seen) /\ Adopted(seen)
      /\ seen.safety.state = "IDLE" =>
           seen.motion = w.motion /\ seen.safety.aborted = w.safety.aborted
  <2>1. /\ Sound(C, shown, EvaluateSync(shown, env)) /\ Adopted(EvaluateSync(shown, env))
        /\ EvaluateSync(shown, env).safety.state = "IDLE" =>
             /\ EvaluateSync(shown, env).motion = shown.motion
             /\ EvaluateSync(shown, env).safety.aborted = shown.safety.aborted
    BY <1>1, EvaluateSyncSound DEF Sound
  <2>2. QED
    BY <1>1, <2>1, SoundItself, SoundTwice
<1>3. u = MotionUpdate(seen, duty)
  BY DEF RegularUpdate, shown
<1> HIDE DEF seen, u
<1>4. seen \in Worlds(C) /\ Good(C, seen) /\ Fit(seen)
  BY <1>2 DEF Sound, Good
<1>5. seen.safety.state # "IDLE" => seen.motion.state \notin {"MOVING", "HOMING"}
  BY <1>2, <1>4 DEF Adopted, Worlds, SafetyRecord, SafetyStates
<1>6. seen.motion.state # "HOMING"
  BY <1>2, <1>5
<1>7. /\ Good(C, u.world) /\ Fit(u.world) /\ u.world.safety = seen.safety
      /\ u.world.motion.homed = seen.motion.homed
      /\ u.world.motion.completed # seen.motion.completed =>
           /\ seen.motion.state = "MOVING" /\ seen.motion.slow
           /\ Abs(seen.motion.target - seen.motion.position) <= Tolerance
           /\ u.ok
  BY <1>3, <1>4, <1>6, MotionUpdateOutcome
<1>8. SameOutcomes(w, seen)
  BY <1>2 DEF Sound
<1>9. HonestOutcomes(w, u.world, inputs)
  BY <1>2, <1>5, <1>7, <1>8 DEF HonestOutcomes, Completes, SameOutcomes
<1>10. u.ok \/ SameOutcomes(w, u.world)
  BY <1>7, <1>8 DEF SameOutcomes
<1>11. QED
  BY <1>7, <1>9, <1>10 DEF u

LEMMA ReferenceOutcome ==
  ASSUME NEW C, 0 \in C, NEW w, Good(C, w), Fit(w)
  PROVE  LET v == Reference(w)
         IN  /\ Good(C, v) /\ Fit(v) /\ v.safety = w.safety
             /\ v.gate.output = 0 /\ v.count = 0 /\ v.motion.result = "COMPLETE"
             /\ v.motion.completed = w.motion.completed
<1> DEFINE cleared == ClearControl(w)
           homed   == w.motion.homed + 1
           zeroed  == [cleared.motion EXCEPT !.position = 0, !.target = 0, !.slow = TRUE,
                        !.sampled = FALSE, !.result = "COMPLETE", !.started = 0,
                        !.referenced = TRUE, !.homed = homed, !.state = "IDLE"]
           v == [cleared EXCEPT !.count = 0, !.motion = zeroed]
<1>1. Rests(w, cleared) /\ cleared \in Worlds(C)
  BY ClearControlRests, ClearControlKept DEF Kept, Good
<1>2. homed \in Nat /\ homed > 0
  BY DEF Good, Worlds, MotionRecord
<1>3. Reference(w) = v
  BY DEF Reference
<1> HIDE DEF cleared, homed
<1>4. /\ zeroed.result = "COMPLETE" /\ zeroed.homed = homed
      /\ zeroed.completed = cleared.motion.completed
  BY <1>1 DEF Worlds, MotionRecord
<1> HIDE DEF zeroed
<1>5. /\ v.motion = zeroed /\ v.count = 0 /\ v.gate = cleared.gate
      /\ v.safety = cleared.safety
  BY <1>1 DEF Worlds
<1>6. Good(C, v)
  <2>1. Good(C, Reference(w))
    BY ReferenceKept, GoodThenKept
  <2>2. QED
    BY <1>3, <2>1
<1> HIDE DEF v
<1>7. Fit(v)
  BY <1>1, <1>2, <1>4, <1>5 DEF Fit, Owned, Earned, Rests
<1>8. QED
  BY <1>1, <1>3, <1>4, <1>5, <1>6, <1>7 DEF Rests, SameOutcomes

LEMMA HomingUpdateOutcome ==
  ASSUME NEW C, 0 \in C, NEW w, Good(C, w), Fit(w), NEW inputs, NEW at
  PROVE  LET u == HomingUpdate(w, inputs, at)
             v == u.world
         IN  /\ Good(C, v) /\ Fit(v) /\ v.safety = w.safety
             /\ v.motion.completed = w.motion.completed
             /\ v.motion.homed # w.motion.homed =>
                  /\ inputs.negative /\ ~inputs.estop /\ ~inputs.positive
                  /\ v.gate.output = 0 /\ v.count = 0 /\ v.motion.result = "COMPLETE"
                  /\ u.ok
<1> DEFINE u       == HomingUpdate(w, inputs, at)
           v       == u.world
           driven  == [w EXCEPT !.gate = SetOutput(@, HomingPwm)]
           aborted == HomingAbort(w, "TIMEOUT")
<1>1. w \in Worlds(C) /\ w.gate \in Gate
  BY DEF Good, Worlds
<1>2. Good(C, v)
  BY HomingUpdateKept, GoodThenKept
<1>3. \/ v = w
      \/ v = ClearControl(w)
      \/ v = aborted
      \/ v = Reference(w) /\ u.ok /\ inputs.negative /\ ~inputs.estop /\ ~inputs.positive
      \/ v = driven /\ w.motion.state = "HOMING"
  BY DEF HomingUpdate
<1> HIDE DEF u, v
<1> DEFINE Fine ==
             /\ Fit(v) /\ v.safety = w.safety
             /\ v.motion.completed = w.motion.completed
             /\ v.motion.homed # w.motion.homed =>
                  /\ inputs.negative /\ ~inputs.estop /\ ~inputs.positive
                  /\ v.gate.output = 0 /\ v.count = 0 /\ v.motion.result = "COMPLETE"
                  /\ u.ok
<1>4. ASSUME v = w PROVE Fine
  BY <1>4
<1>5. ASSUME v = ClearControl(w) PROVE Fine
  <2>1. Rests(w, v) /\ v.motion.result = w.motion.result
    BY <1>1, <1>5, ClearControlRests
  <2>2. Sound(C, w, v)
    BY <1>1, <1>5, <2>1, ClearControlKept, RestsSound
  <2>3. QED
    BY <2>1, <2>2 DEF Sound, SameOutcomes, Rests
<1>6. ASSUME v = aborted PROVE Fine
  <2>1. "TIMEOUT" \in HomingResults \ {"COMPLETE"}
    BY DEF HomingResults
  <2>2. Rests(w, v) /\ Sound(C, w, v)
    BY <1>1, <1>6, <2>1, HomingAbortRests, HomingAbortSound
  <2>3. QED
    BY <2>2 DEF Sound, SameOutcomes, Rests
<1>7. ASSUME v = Reference(w), u.ok, inputs.negative, ~inputs.estop, ~inputs.positive
      PROVE  Fine
  BY <1>7, ReferenceOutcome
<1>8. ASSUME v = driven, w.motion.state = "HOMING" PROVE Fine
  <2>1. v.motion = w.motion /\ v.safety = w.safety /\ v.gate = SetOutput(w.gate, HomingPwm)
    BY <1>1, <1>8 DEF Worlds
  <2>2. v.gate.output \in {0, HomingPwm}
    BY <1>1, <2>1 DEF SetOutput, Gate
  <2>3. QED
    BY <1>8, <2>1, <2>2 DEF Fit, Owned, Earned
<1>9. Fine
  <2> HIDE DEF Fine, aborted, driven
  <2> QED BY <1>3, <1>4, <1>5, <1>6, <1>7, <1>8
<1>10. QED
  BY <1>2, <1>9 DEF u, v

LEMMA FinishSeekSound ==
  ASSUME NEW C, 0 \in C, NEW w, Good(C, w), Fit(w), w.safety.state = "IDLE",
         NEW env \in EnvSet
  PROVE  LET v == FinishSeek(w, env)
         IN  /\ Sound(C, w, v)
             /\ w.motion.result = "COMPLETE" => v.count = w.count
<1> DEFINE timedOut == Enforce([w EXCEPT !.safety = HomingTimeoutFault(@)])
           allowed  == [w.safety EXCEPT !.homeContact = TRUE]
           granted  == [w EXCEPT !.safety = allowed]
           shown    == Publish(granted)
           seen     == EvaluateNow(shown, env)
           v        == FinishSeek(w, env)
<1>1. w \in Worlds(C) /\ w.safety \in SafetyRecord(C) /\ Remembers(w.safety)
  BY DEF Good, Worlds, Honest
<1>2. Sound(C, w, Sync(timedOut))
  <2>1. "HOMING_TIMEOUT" \in FaultCodes /\ "HOMING_TIMEOUT" \in FaultCodes \ {"NONE"}
    BY DEF FaultCodes
  <2>2. /\ HomingTimeoutFault(w.safety) \in SafetyRecord(C)
        /\ HomingTimeoutFault(w.safety).state # "IDLE"
        /\ Honest(HomingTimeoutFault(w.safety))
        /\ ~HomingTimeoutFault(w.safety).homeContact
    BY <1>1, <2>1, TripLatches, TripLoyal, TripSpares
       DEF HomingTimeoutFault, Good, Honest, Loyal
  <2>3. Sound(C, w, timedOut)
    BY <2>2, LatchSound
  <2> HIDE DEF timedOut
  <2>4. QED
    BY <2>3, SyncSound, SoundTwice DEF Sound
<1>3. /\ allowed \in SafetyRecord(C) /\ Remembers(allowed) /\ Unlatched(allowed)
      /\ allowed.state = "IDLE"
  BY <1>1 DEF SafetyRecord, Remembers, Unlatched
<1>4. [w EXCEPT !.safety.homeContact = TRUE] = granted
  BY <1>1 DEF Worlds, SafetyRecord
<1> HIDE DEF allowed
<1>5. /\ granted \in Worlds(C) /\ granted.safety = allowed
      /\ granted.gate = w.gate /\ granted.motion = w.motion /\ granted.count = w.count
  BY <1>1, <1>3 DEF Worlds
<1>6. v \in {Sync(timedOut), seen, w}
      /\ (w.motion.result = "COMPLETE" => v = seen)
  BY <1>4 DEF FinishSeek
<1> HIDE DEF granted, timedOut, v
<1>7. /\ shown \in Worlds(C) /\ shown.safety = allowed
      /\ shown.gate = w.gate /\ shown.motion = w.motion /\ shown.count = w.count
  <2>1. shown \in Worlds(C)
    BY <1>5, PublishKept DEF Kept
  <2>2. QED
    BY <1>5, <2>1 DEF Publish, Worlds
<1> HIDE DEF shown
<1>8. /\ Good(C, seen) /\ seen.motion = w.motion /\ seen.count = w.count
      /\ seen.gate.output \in {0, w.gate.output} /\ Withdraws(allowed, seen.safety)
  BY <1>3, <1>7, EvaluateLeaves DEF Good
<1> HIDE DEF seen
<1>9. ASSUME w.motion.result = "COMPLETE" PROVE Sound(C, w, seen)
  <2>1. Owned(seen)
    BY <1>8 DEF Fit, Owned
  <2>2. Earned(seen)
    BY <1>8, <1>9 DEF Fit, Earned, Withdraws, Granted
  <2>3. QED
    BY <1>8, <2>1, <2>2 DEF Sound, Fit, SameOutcomes
<1>10. w.motion.result # "COMPLETE" => v \in {Sync(timedOut), w}
  BY DEF FinishSeek, v, timedOut
<1>11. Sound(C, w, v)
  BY <1>2, <1>6, <1>9, <1>10, SoundItself
<1>12. QED
  BY <1>6, <1>8, <1>11 DEF v

LEMMA SeekUpdateOutcome ==
  ASSUME NEW C, 0 \in C, NEW w, Good(C, w), Fit(w), Adopted(w),
         w.motion.state = "HOMING", NEW at, NEW inputs, NEW env \in EnvSet
  PROVE  LET u == SeekUpdate(w, at, inputs, env)
         IN  /\ Good(C, u.world) /\ Fit(u.world)
             /\ HonestOutcomes(w, u.world, inputs)
             /\ u.ok \/ SameOutcomes(w, u.world)
<1> DEFINE shown  == Publish(w)
           alarm  == inputs.estop \/ inputs.positive \/ inputs.negative
           seen   == IF alarm THEN EvaluateSync(shown, env) ELSE w
           sought == HomingUpdate(seen, inputs, at)
           u      == SeekUpdate(w, at, inputs, env)
           done   == FinishSeek(sought.world, env)
<1>1. w.safety.state = "IDLE"
  BY DEF Adopted, Good, Worlds, SafetyRecord, SafetyStates
<1>2. Sound(C, w, shown)
  BY PublishSound
<1>3. u = IF alarm /\ seen.safety.state # "IDLE" THEN [world |-> seen, ok |-> TRUE]
          ELSE IF ~sought.ok THEN sought ELSE [world |-> done, ok |-> TRUE]
  BY DEF SeekUpdate
<1> HIDE DEF shown
<1>4. Sound(C, w, seen)
  <2>1. Sound(C, shown, EvaluateSync(shown, env))
    BY <1>2, EvaluateSyncSound DEF Sound
  <2>2. QED
    BY <1>2, <2>1, SoundItself, SoundTwice
<1>5. ~alarm => seen.safety.state = "IDLE"
  BY <1>1
<1> HIDE DEF seen, u, alarm
<1>6. /\ Good(C, sought.world) /\ Fit(sought.world) /\ sought.world.safety = seen.safety
      /\ sought.world.motion.completed = seen.motion.completed
      /\ sought.world.motion.homed # seen.motion.homed =>
           /\ inputs.negative /\ ~inputs.estop /\ ~inputs.positive
           /\ sought.world.gate.output = 0 /\ sought.world.count = 0
           /\ sought.world.motion.result = "COMPLETE" /\ sought.ok
  BY <1>4, HomingUpdateOutcome DEF Sound
<1> HIDE DEF sought
<1>7. CASE alarm /\ seen.safety.state # "IDLE"
  BY <1>3, <1>4, <1>7 DEF u, Sound, HonestOutcomes, SameOutcomes
<1>8. CASE ~(alarm /\ seen.safety.state # "IDLE") /\ ~sought.ok
  BY <1>3, <1>4, <1>6, <1>8 DEF u, Sound, HonestOutcomes, SameOutcomes
<1>9. CASE ~(alarm /\ seen.safety.state # "IDLE") /\ sought.ok
  <2>1. u.world = done /\ u.ok
    BY <1>3, <1>9
  <2>2. sought.world.safety.state = "IDLE"
    BY <1>5, <1>6, <1>9
  <2>3. /\ Sound(C, sought.world, done)
        /\ sought.world.motion.result = "COMPLETE" => done.count = sought.world.count
    BY <1>6, <2>2, FinishSeekSound
  <2> HIDE DEF done
  <2>4. HonestOutcomes(w, u.world, inputs)
    BY <1>1, <1>4, <1>6, <2>1, <2>3 DEF HonestOutcomes, Homes, Sound, SameOutcomes
  <2>5. QED
    BY <2>1, <2>3, <2>4 DEF u, Sound
<1>10. QED
  BY <1>7, <1>8, <1>9

LEMMA ControlUpdateOutcome ==
  ASSUME NEW C, 0 \in C, NEW w, Good(C, w), Fit(w), Adopted(w), NEW duty \in Duty,
         NEW at, NEW inputs, NEW env \in EnvSet
  PROVE  LET u == ControlUpdate(w, duty, at, inputs, env)
         IN  /\ Good(C, u.world) /\ Fit(u.world)
             /\ HonestOutcomes(w, u.world, inputs)
             /\ u.ok \/ SameOutcomes(w, u.world)
BY SeekUpdateOutcome, RegularUpdateOutcome DEF ControlUpdate

----------------------------------------------------------------------------
\* The sections of the two tasks.
LEMMA BeginSound ==
  ASSUME NEW C, NEW w, Good(C, w), Fit(w), NEW gap,
         Good(C, Sample(Booted(w), gap))
  PROVE  Sound(C, w, Sample(Booted(w), gap))
<1> DEFINE off    == [w EXCEPT !.gate = Disable(@)]
           booted == Booted(w)
           v      == Sample(booted, gap)
<1>1. w \in Worlds(C) /\ w.gate \in Gate /\ Good(C, v)
  BY DEF Good, Worlds
<1>2. Disable(w.gate) \in Gate /\ Disable(w.gate).output = 0
  BY <1>1, DisableKept DEF Disable, Gate
<1>3. /\ booted \in Worlds(C) /\ booted.motion = w.motion /\ booted.safety = w.safety
      /\ booted.gate.output \in {0, w.gate.output}
  <2>1. /\ off \in Worlds(C) /\ off.motion = w.motion /\ off.safety = w.safety
        /\ off.gate.output = 0
    BY <1>1, <1>2 DEF Worlds
  <2>2. booted \in {w, off}
    BY DEF Booted
  <2> HIDE DEF off, booted
  <2>3. QED
    BY <1>1, <2>1, <2>2
<1> HIDE DEF booted
<1> DEFINE taken == [booted.motion EXCEPT !.slow = Slow(booted.motion, booted.count, gap),
                                          !.position = booted.count,
                                          !.sampled = TRUE, !.valid = TRUE]
           kept  == [booted EXCEPT !.motion = taken]
<1>4. v = IF SampleOK(gap) THEN kept ELSE Fail(booted)
  BY DEF Sample
<1>5. /\ taken.state = w.motion.state /\ taken.result = w.motion.result
      /\ taken.homed = w.motion.homed /\ taken.completed = w.motion.completed
  BY <1>3 DEF Worlds, MotionRecord
<1> HIDE DEF taken, v
<1>6. kept.motion = taken /\ kept.gate = booted.gate /\ kept.safety = w.safety
  BY <1>3 DEF Worlds
<1> HIDE DEF kept
<1>7. Rests(booted, Fail(booted)) /\ Fail(booted).motion.result = w.motion.result
  BY <1>3, FailRests
<1>8. /\ SameOutcomes(w, v) /\ v.safety = w.safety /\ v.motion.result = w.motion.result
      /\ \/ v.gate.output = 0
         \/ v.gate.output = w.gate.output /\ v.motion.state = w.motion.state
  BY <1>3, <1>4, <1>5, <1>6, <1>7 DEF Rests, SameOutcomes
<1>9. Sound(C, w, v)
  BY <1>1, <1>8, SectionSound, SameSafetyWithdraws
<1>10. QED
  BY <1>9 DEF v, booted

LEMMA SampleFailedSound ==
  ASSUME NEW C, NEW w, Good(C, w), Fit(w) PROVE Sound(C, w, SampleFailed(w))
<1> DEFINE counted == IF before \in ActiveStates THEN Abandon(w) ELSE w
           ended   == IF before = "HOMING" THEN HomingAbort(counted, "FAULTED") ELSE counted
<1>1. Sound(C, w, counted)
  BY AbandonSound, SoundItself
<1> HIDE DEF counted
<1>2. Sound(C, w, ended)
  <2>1. "FAULTED" \in HomingResults \ {"COMPLETE"}
    BY DEF HomingResults
  <2>2. Sound(C, counted, HomingAbort(counted, "FAULTED"))
    BY <1>1, <2>1, HomingAbortSound DEF Sound
  <2>3. QED
    BY <1>1, <2>2, SoundTwice
<1>3. SampleFailed(w) = Enforce([ended EXCEPT !.safety = InternalFault(@)])
  BY DEF SampleFailed, counted
<1> HIDE DEF ended
<1>4. Sound(C, ended, Enforce([ended EXCEPT !.safety = InternalFault(@)]))
  BY <1>2, InternalSound DEF Sound
<1>5. QED
  BY <1>2, <1>3, <1>4, SoundTwice

LEMMA UpdateFailedSound ==
  ASSUME NEW C, NEW w, Good(C, w), Fit(w), NEW wasActive
  PROVE  Sound(C, w, UpdateFailed(w, wasActive))
<1> DEFINE counted == IF wasActive THEN Abandon(w) ELSE w
           latched == Enforce([counted EXCEPT !.safety = InternalFault(@)])
<1>1. Sound(C, w, counted)
  BY AbandonSound, SoundItself
<1> HIDE DEF counted
<1>2. Sound(C, counted, latched)
  BY <1>1, InternalSound DEF Sound
<1>3. UpdateFailed(w, wasActive) = Sync(latched)
  BY DEF UpdateFailed, counted
<1> HIDE DEF latched
<1>4. QED
  BY <1>1, <1>2, <1>3, SyncSound, SoundTwice DEF Sound

\* The report and the snapshot are all that the end of the section adds.
LEMMA ClosedLeaves ==
  ASSUME TypeOK, NEW w, Good(Counts, w), Fit(w)
  PROVE  LET v == Closed(w)
         IN  /\ Good(Counts, v) /\ Fit(v) /\ v.gate = w.gate /\ v.safety = w.safety
             /\ v.motion = w.motion /\ v.count = w.count
<1> DEFINE v == Closed(w)
<1>1. /\ v.gate = w.gate /\ v.safety = w.safety
      /\ v.motion = w.motion /\ v.count = w.count
  BY DEF Closed, Publish, Good, Worlds
<1>2. Good(Counts, v)
  BY ClosedGood
<1> HIDE DEF v
<1>3. Fit(v)
  BY <1>1 DEF Fit, Owned, Earned
<1>4. QED
  BY <1>1, <1>2, <1>3 DEF v

\* What a step of the system does to the world it starts from.
Quiet == Sound(Counts, World, World')
Drives == pc = "update" /\ pc' = "begin" /\ Fit(World') /\ HonestOutcomes(World, World', pins)

LEMMA UpdateDrives ==
  ASSUME GateInv, Fit(World), UpdateSection PROVE Drives
<1>1. TypeOK /\ Good(Counts, World) /\ 0 \in Counts
  BY CountsTravel DEF GateInv, Travel
<1>2. pins \in Inputs
  BY <1>1 DEF TypeOK
<1>3. PICK duty \in Duty, later \in {pins} \cup Toggled(pins) :
        LET synced  == Sync(World)
            updated == IF sampled THEN ControlUpdate(synced, duty, now, pins, Env(later))
                       ELSE [world |-> synced, ok |-> FALSE]
            ended   == IF updated.ok THEN updated.world
                       ELSE UpdateFailed(updated.world, synced.motion.state \in ActiveStates)
        IN  Become(Closed(ended)) /\ pins' = later
  BY DEF UpdateSection
<1> DEFINE synced  == Sync(World)
           updated == IF sampled THEN ControlUpdate(synced, duty, now, pins, Env(later))
                      ELSE [world |-> synced, ok |-> FALSE]
           active  == synced.motion.state \in ActiveStates
           failed  == UpdateFailed(updated.world, active)
           ended   == IF updated.ok THEN updated.world ELSE failed
<1>4. later \in Inputs /\ Env(later) \in EnvSet
  BY <1>1, <1>2, ToggledType, EnvType
<1>5. Become(Closed(ended))
  BY <1>3
<1>6. /\ Sound(Counts, World, synced) /\ Adopted(synced)
      /\ synced.safety.state = World.safety.state
      /\ World.safety.state = "IDLE" => synced = World
  BY <1>1, SyncSound
<1> HIDE DEF synced
<1>7. /\ Good(Counts, updated.world) /\ Fit(updated.world)
      /\ HonestOutcomes(synced, updated.world, pins)
      /\ updated.ok \/ SameOutcomes(synced, updated.world)
  <2>1. CASE sampled
    <3> DEFINE u == ControlUpdate(synced, duty, now, pins, Env(later))
    <3>1. /\ Good(Counts, u.world) /\ Fit(u.world)
          /\ HonestOutcomes(synced, u.world, pins)
          /\ u.ok \/ SameOutcomes(synced, u.world)
      BY <1>1, <1>4, <1>6, ControlUpdateOutcome DEF Sound
    <3>2. updated = u
      BY <2>1
    <3> HIDE DEF u, updated
    <3>3. QED
      BY <3>1, <3>2
  <2>2. CASE ~sampled
    BY <1>6, <2>2 DEF Sound, SameOutcomes, HonestOutcomes
  <2>3. QED
    BY <2>1, <2>2
<1> HIDE DEF updated, active
<1>8. Sound(Counts, updated.world, failed)
  BY <1>7, UpdateFailedSound
<1> HIDE DEF failed
<1>9. Good(Counts, ended) /\ Fit(ended) /\ HonestOutcomes(synced, ended, pins)
  BY <1>7, <1>8 DEF Sound, SameOutcomes, HonestOutcomes
<1> HIDE DEF ended
<1>10. /\ Fit(Closed(ended)) /\ HonestOutcomes(synced, Closed(ended), pins)
       /\ Good(Counts, Closed(ended))
  BY <1>1, <1>9, ClosedLeaves DEF HonestOutcomes, Homes, Completes
<1>11. World' = Closed(ended)
  BY <1>5, <1>10, BecomeWorld DEF Good
<1>12. HonestOutcomes(World, Closed(ended), pins)
  <2>1. CASE World.safety.state = "IDLE"
    BY <1>6, <1>10, <2>1
  <2>2. CASE World.safety.state # "IDLE"
    <3>1. synced.motion.state \notin {"MOVING", "HOMING"}
      BY <1>1, <1>6, <2>2 DEF Adopted, Good, Worlds, SafetyRecord, SafetyStates
    <3>2. QED
      BY <1>6, <1>10, <3>1 DEF HonestOutcomes, Homes, Completes, Sound, SameOutcomes
  <2>3. QED
    BY <2>1, <2>2
<1>13. QED
  BY <1>10, <1>11, <1>12 DEF Drives, UpdateSection

LEMMA StepQuietOrDrives == LoopInv /\ [Next]_vars => Quiet \/ Drives
<1> SUFFICES ASSUME LoopInv, [Next]_vars PROVE Quiet \/ Drives
  OBVIOUS
<1>1. GateInv /\ TypeOK /\ Good(Counts, World) /\ Fit(World)
  BY DEF LoopInv, GateInv
<1>2. Travel(Counts) /\ 0 \in Counts
  BY CountsTravel DEF Travel
<1>3. pins \in Inputs /\ Env(pins) \in EnvSet
  BY <1>1, EnvType DEF TypeOK
<1>4. ASSUME UNCHANGED world PROVE Quiet
  <2>1. World' = World
    BY <1>4 DEF world, World
  <2>2. QED
    BY <1>1, <2>1, SoundItself DEF Quiet
<1>5. ASSUME NEW v, Sound(Counts, World, v), Become(v) PROVE Quiet
  <2>1. World' = v
    BY <1>5, BecomeWorld DEF Sound, Good
  <2>2. QED
    BY <1>5, <2>1 DEF Quiet
<1>6. CASE Tick \/ PinChange \/ Heartbeats \/ CommandsDone
  BY <1>4, <1>6 DEF Tick, PinChange, Heartbeats, CommandsDone
<1>7. CASE EncoderCount
  <2> DEFINE v == [World EXCEPT !.count = count']
  <2>1. count' \in Counts /\ Become(v)
    BY <1>7 DEF EncoderCount, Become, World
  <2>2. Good(Counts, v)
    BY <1>1, <2>1 DEF Good, GateAgrees, Reported, Worlds
  <2>3. v.gate = World.gate /\ v.safety = World.safety /\ v.motion = World.motion
    BY DEF World
  <2> HIDE DEF v
  <2>4. Sound(Counts, World, v)
    BY <1>1, <2>2, <2>3, SectionSound, SameSafetyWithdraws DEF SameOutcomes
  <2>5. QED
    BY <1>5, <2>1, <2>4
<1>8. CASE SafetyTask
  <2>1. Sound(Counts, World, EvaluateNow(World, Env(pins)))
    BY <1>1, <1>2, <1>3, EvaluateSound
  <2>2. QED
    BY <1>5, <1>8, <2>1 DEF SafetyTask
<1>9. CASE BeginCycle
  <2>1. Sound(Counts, World, Sample(Booted(World), Gap))
    BY <1>1, BeginGood, BeginSound
  <2>2. QED
    BY <1>5, <1>9, <2>1 DEF BeginCycle
<1>10. CASE SyncSection
  <2> DEFINE w == IF sampled THEN World ELSE SampleFailed(World)
  <2>1. Sound(Counts, World, w)
    BY <1>1, SampleFailedSound, SoundItself
  <2>2. Become(Sync(w))
    BY <1>10 DEF SyncSection
  <2> HIDE DEF w
  <2>3. Sound(Counts, World, Sync(w))
    BY <2>1, SyncSound, SoundTwice DEF Sound
  <2>4. QED
    BY <1>5, <2>2, <2>3
<1>11. CASE CommandSection
  <2>1. PICK command \in Commands :
          LET answer == IF app = "IDLE" THEN SafetyCommand(World, command, Env(pins))
                        ELSE Answer(World, "INVALID_STATE")
          IN  Become(answer.world)
    BY <1>11 DEF CommandSection
  <2> DEFINE w == IF app = "IDLE" THEN SafetyCommand(World, command, Env(pins)).world
                                  ELSE World
  <2>2. Become(w)
    BY <2>1 DEF Answer
  <2>3. Sound(Counts, World, w)
    BY <1>1, <1>2, <1>3, SafetyCommandSound, SoundItself
  <2> HIDE DEF w
  <2>4. QED
    BY <1>5, <2>2, <2>3
<1>12. CASE UpdateSection
  BY <1>1, <1>12, UpdateDrives
<1>13. CASE UNCHANGED vars
  BY <1>4, <1>13 DEF vars
<1>14. QED
  BY <1>6, <1>7, <1>8, <1>9, <1>10, <1>11, <1>12, <1>13 DEF Next, MotionTask

LEMMA InitLoopInv == Init => LoopInv
<1> SUFFICES ASSUME Init PROVE LoopInv
  OBVIOUS
<1>1. Fit(World)
  BY DEF Init, World, GateInit, SafetyInit, MotionInit, Fit, Owned, Earned, Granted
<1>2. QED
  BY <1>1, InitGateInv DEF LoopInv

LEMMA NextLoopInv == LoopInv /\ [Next]_vars => LoopInv'
<1> SUFFICES ASSUME LoopInv, [Next]_vars PROVE LoopInv'
  OBVIOUS
<1>1. GateInv'
  BY NextGateInv DEF LoopInv
<1>2. Fit(World')
  BY StepQuietOrDrives DEF Quiet, Drives, Sound
<1>3. QED
  BY <1>1, <1>2 DEF LoopInv, Fit, Owned, Earned, Granted

----------------------------------------------------------------------------
\* The output is applied only for a move or a seek that is under way, and a
\* seek never gets another duty than the fixed one of homing.c, in any order of
\* commands, trips, resets and updates.
THEOREM DriveIsOwned == Spec => []DriveHasOwner
<1>1. LoopInv => DriveHasOwner
  BY DEF LoopInv, Fit, Owned, World, DriveHasOwner
<1>2. QED
  BY <1>1, InitLoopInv, NextLoopInv, PTL DEF Spec

\* The departure allowance of runtime_control_update stands only after a
\* completed HOME, and falls with the first latch and with the first observation
\* of the switch released.
THEOREM AllowanceIsEarned == Spec => []AllowanceEarned
<1>1. LoopInv => AllowanceEarned
  BY DEF LoopInv, Fit, Earned, Granted, World, AllowanceEarned
<1>2. QED
  BY <1>1, InitLoopInv, NextLoopInv, PTL DEF Spec

\* Between the control updates the Safety task, every command, every sample and
\* every failure of one can only take drive away.
THEOREM OnlyUpdatesDrive == Spec => DriveStartsInUpdate
<1>1. LoopInv /\ [Next]_vars =>
        [gate'.output # gate.output /\ gate'.output # 0 => pc = "update" /\ pc' = "begin"]_vars
  BY StepQuietOrDrives DEF Quiet, Drives, Sound, World
<1>2. QED
  BY <1>1, InitLoopInv, NextLoopInv, PTL DEF Spec, DriveStartsInUpdate

\* The reference is set in the one section that finds the seek on its switch,
\* with nothing latched even by the evaluation that the contact causes.
THEOREM ReferenceIsOnContact == Spec => ReferenceNeedsContact
<1>1. LoopInv /\ [Next]_vars =>
        [motion'.homed > motion.homed =>
           /\ motion.state = "HOMING" /\ pins.negative
           /\ ~pins.estop /\ ~pins.positive
           /\ safety.state = "IDLE"
           /\ gate'.output = 0 /\ count' = 0]_vars
  <2> SUFFICES ASSUME LoopInv, [Next]_vars, motion'.homed > motion.homed
               PROVE  Homes(World, World', pins)
    BY DEF Homes, World
  <2>1. motion.homed \in Nat
    BY DEF LoopInv, GateInv, TypeOK, World, Worlds, MotionRecord
  <2>2. motion'.homed # motion.homed
    BY <2>1
  <2>3. World.motion = motion /\ (World').motion = motion'
    BY DEF World
  <2>4. QED
    BY <2>2, <2>3, StepQuietOrDrives DEF Quiet, Drives, Sound, SameOutcomes, HonestOutcomes
<1>2. QED
  BY <1>1, InitLoopInv, NextLoopInv, PTL DEF Spec, ReferenceNeedsContact

\* A move is counted as completed only from rest within the tolerance of its
\* target, and never by a section that also counts an abort or ends latched.
THEOREM CompletionsAreHonest == Spec => CompletionIsHonest
<1>1. LoopInv /\ [Next]_vars =>
        [motion'.completed > motion.completed =>
           /\ motion.state = "MOVING" /\ motion.slow
           /\ Abs(motion.target - motion.position) <= Tolerance
           /\ safety'.aborted = safety.aborted
           /\ safety'.state = "IDLE"]_vars
  <2> SUFFICES ASSUME LoopInv, [Next]_vars, motion'.completed > motion.completed
               PROVE  Completes(World, World')
    BY DEF Completes, World
  <2>1. motion.completed \in Nat
    BY DEF LoopInv, GateInv, TypeOK, World, Worlds, MotionRecord
  <2>2. motion'.completed # motion.completed
    BY <2>1
  <2>3. World.motion = motion /\ (World').motion = motion'
    BY DEF World
  <2>4. QED
    BY <2>2, <2>3, StepQuietOrDrives DEF Quiet, Drives, Sound, SameOutcomes, HonestOutcomes
<1>2. QED
  BY <1>1, InitLoopInv, NextLoopInv, PTL DEF Spec, CompletionIsHonest
=============================================================================
