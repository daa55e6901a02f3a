---------------------------- MODULE RuntimeProofs ----------------------------
(***************************************************************************)
(* What the functions of the safety manager and of the runtime adapter     *)
(* preserve, one lemma each.  A world is Good when it is well typed and its *)
(* gate agrees with its safety record.  The functions of the motion side   *)
(* never loosen the gate (Kept); those of the safety side end in Enforce,  *)
(* which re-establishes the agreement.  The parameter C is the set of      *)
(* encoder counts.                                                         *)
(***************************************************************************)
EXTENDS SafetyRuntime, TLAPS

\* From s to t the observation stands, and nothing but a latch changed what an
\* active home switch is judged by.
After(C, s, t) ==
  /\ t \in SafetyRecord(C)
  /\ t.inputs = s.inputs /\ t.valid = s.valid
  /\ t.state = "IDLE" => s.state = "IDLE" /\ t.homeContact = s.homeContact

\* With nothing latched, there is a reason for an active home switch.
Tolerated(s, m) ==
  s.inputs.negative /\ s.state = "IDLE" => m.state = "HOMING" \/ s.homeContact

\* What an evaluation leaves behind.
Outcome(e, m, inputs) == e.inputs = inputs /\ Tolerated(e, m)

\* The latch stands for what the record remembers, the inputs aside ...
Remembers(s) ==
  /\ s.recovery \/ s.internal => s.state # "IDLE"
  /\ s.state = "FAULT" => s.code # "NONE"
  /\ s.state = "IDLE" => s.code = "NONE"

\* ... and for the inputs.
Heeds(s) ==
  /\ s.inputs.estop \/ s.inputs.positive => s.state # "IDLE"
  /\ s.inputs.estop => s.state = "ESTOP"

Honest(s) == Remembers(s) /\ Heeds(s)

\* A step that keeps what the record stands for.
Loyal(s, t) == (Remembers(s) => Remembers(t)) /\ (Heeds(s) => Heeds(t))

----------------------------------------------------------------------------
LEMMA AfterItself ==
  ASSUME NEW C, NEW s \in SafetyRecord(C) PROVE After(C, s, s)
BY DEF After

LEMMA AfterTwice ==
  ASSUME NEW C, NEW r, NEW s, NEW t, After(C, r, s), After(C, s, t)
  PROVE  After(C, r, t)
BY DEF After

LEMMA AfterOutcome ==
  ASSUME NEW C, NEW m, NEW inputs, NEW s, NEW t, After(C, s, t), Outcome(s, m, inputs)
  PROVE  Outcome(t, m, inputs)
BY DEF After, Outcome, Tolerated

\* A trip latches.
LEMMA TripLatches ==
  ASSUME NEW C, NEW s \in SafetyRecord(C), NEW code \in FaultCodes
  PROVE  Trip(s, code) \in SafetyRecord(C) /\ Trip(s, code).state # "IDLE"
BY DEF Trip, FaultRaise, SafetyRecord, SafetyStates

LEMMA TripAfter ==
  ASSUME NEW C, NEW s \in SafetyRecord(C), NEW code \in FaultCodes
  PROVE  After(C, s, Trip(s, code))
<1>1. Trip(s, code).inputs = s.inputs /\ Trip(s, code).valid = s.valid
  BY DEF Trip, FaultRaise, SafetyRecord
<1>2. QED
  BY <1>1, TripLatches DEF After

LEMMA EstopType ==
  ASSUME NEW C, NEW s \in SafetyRecord(C)
  PROVE  Estop(s) \in SafetyRecord(C) /\ Estop(s).state = "ESTOP"
BY DEF Estop, SafetyRecord, SafetyStates

LEMMA EstopAfter ==
  ASSUME NEW C, NEW s \in SafetyRecord(C) PROVE After(C, s, Estop(s))
<1>1. Estop(s).inputs = s.inputs /\ Estop(s).valid = s.valid
  BY DEF Estop, SafetyRecord
<1>2. QED
  BY <1>1, EstopType DEF After

LEMMA InternalLatches ==
  ASSUME NEW C, NEW s \in SafetyRecord(C)
  PROVE  InternalFault(s) \in SafetyRecord(C) /\ InternalFault(s).state # "IDLE"
<1>1. [s EXCEPT !.internal = TRUE] \in SafetyRecord(C)
  BY DEF SafetyRecord
<1>2. QED
  BY <1>1, TripLatches DEF InternalFault, FaultCodes

LEMMA InternalAfter ==
  ASSUME NEW C, NEW s \in SafetyRecord(C) PROVE After(C, s, InternalFault(s))
<1> DEFINE raised == [s EXCEPT !.internal = TRUE]
<1>1. After(C, s, raised) /\ raised \in SafetyRecord(C)
  BY DEF SafetyRecord, After
<1> HIDE DEF raised
<1>2. After(C, raised, Trip(raised, "INTERNAL"))
  BY <1>1, TripAfter DEF FaultCodes
<1>3. QED
  BY <1>1, <1>2, AfterTwice DEF InternalFault, raised

----------------------------------------------------------------------------
\* The observation.
LEMMA RecordFacts ==
  ASSUME NEW C, NEW s \in SafetyRecord(C), NEW inputs \in Inputs, NEW valid \in BOOLEAN,
         NEW healthy \in BOOLEAN
  PROVE  LET r == Record(s, inputs, valid, healthy)
         IN  r \in SafetyRecord(C) /\ r.inputs = inputs
BY DEF Record, SafetyRecord

LEMMA ObserveFacts ==
  ASSUME NEW C, NEW s \in SafetyRecord(C), NEW inputs \in Inputs, NEW valid \in BOOLEAN,
         NEW healthy \in BOOLEAN
  PROVE  LET o == Observe(s, inputs, valid, healthy)
         IN  o \in SafetyRecord(C) /\ o.inputs = inputs
<1> DEFINE seen     == Record(s, inputs, valid, healthy)
           readable == SeeGpio(seen)
           estopped == SeeEstop(readable)
           limited  == SeePositive(estopped)
<1>1. seen \in SafetyRecord(C) /\ seen.inputs = inputs
  BY RecordFacts
<1> HIDE DEF seen
<1>2. After(C, seen, readable) /\ readable \in SafetyRecord(C)
  BY <1>1, InternalAfter, AfterItself DEF SeeGpio, When, After
<1> HIDE DEF readable
<1>3. After(C, readable, estopped) /\ estopped \in SafetyRecord(C)
  BY <1>2, EstopAfter, AfterItself DEF SeeEstop, When, After
<1> HIDE DEF estopped
<1>4. After(C, estopped, limited) /\ limited \in SafetyRecord(C)
  <2>1. "POSITIVE_LIMIT" \in FaultCodes
    BY DEF FaultCodes
  <2>2. After(C, estopped, limited)
    BY <1>3, <2>1, TripAfter, AfterItself DEF SeePositive, When
  <2>3. QED
    BY <2>2 DEF After
<1> HIDE DEF limited
<1>5. limited.inputs = inputs
  BY <1>1, <1>2, <1>3, <1>4 DEF After
<1>6. SeeRelease(limited) \in SafetyRecord(C) /\ SeeRelease(limited).inputs = inputs
  BY <1>4, <1>5 DEF SeeRelease, When, SafetyRecord
<1>7. QED
  BY <1>6 DEF Observe, limited, estopped, readable, seen

----------------------------------------------------------------------------
\* The steps after it.  SeeNegative latches an unexpected contact.
LEMMA SeeNegativeFacts ==
  ASSUME NEW C, NEW s \in SafetyRecord(C), NEW m, NEW position, NEW pwm
  PROVE  LET t == SeeNegative(s, m, position, pwm)
         IN  t \in SafetyRecord(C) /\ Outcome(t, m, s.inputs)
<1> DEFINE unexpected == s.inputs.negative /\ ~ContactAllowed(s, m, position, pwm)
<1>1. CASE unexpected
  <2>1. "NEGATIVE_LIMIT" \in FaultCodes
    BY DEF FaultCodes
  <2>2. /\ After(C, s, Trip(s, "NEGATIVE_LIMIT"))
        /\ Trip(s, "NEGATIVE_LIMIT").state # "IDLE"
    BY <2>1, TripAfter, TripLatches
  <2>3. SeeNegative(s, m, position, pwm) = Trip(s, "NEGATIVE_LIMIT")
    BY <1>1 DEF SeeNegative, When
  <2>4. QED
    BY <2>2, <2>3 DEF After, Outcome, Tolerated
<1>2. CASE ~unexpected
  BY <1>2 DEF SeeNegative, When, ContactAllowed, ExpectedHome, Outcome, Tolerated
<1>3. QED
  BY <1>1, <1>2

LEMMA SeeHealthAfter ==
  ASSUME NEW C, NEW s \in SafetyRecord(C), NEW now
  PROVE  After(C, s, SeeHealth(s, now))
<1>1. "WATCHDOG" \in FaultCodes
  BY DEF FaultCodes
<1>2. QED
  BY <1>1, TripAfter, AfterItself DEF SeeHealth, When

LEMMA SeeRecoveryAfter ==
  ASSUME NEW C, 0 \in C, NEW s \in SafetyRecord(C), NEW position
  PROVE  After(C, s, SeeRecovery(s, position))
<1> DEFINE moved == [s EXCEPT !.recovery = FALSE, !.faultPosition = 0]
<1>1. After(C, s, moved)
  BY DEF SafetyRecord, After
<1>2. SeeRecovery(s, position) \in {moved, s}
  BY DEF SeeRecovery, When
<1>3. QED
  <2> HIDE DEF moved
  <2> QED BY <1>1, <1>2, AfterItself

LEMMA StallAfter ==
  ASSUME NEW C, NEW s \in SafetyRecord(C), NEW now \in 0 .. TimeMod - 1,
         NEW m, NEW position \in C, NEW pwm, NEW expectedHome
  PROVE  After(C, s, Stall(s, now, m, position, pwm, expectedHome))
<1> DEFINE begun  == When(~s.candidate,
                          [s EXCEPT !.candidate = TRUE, !.candidateStart = now], s)
           marked == [begun EXCEPT !.recovery = TRUE, !.faultPosition = position]
           ended  == [s EXCEPT !.candidate = FALSE, !.candidateStart = 0]
<1>1. begun \in SafetyRecord(C) /\ After(C, s, begun)
  BY DEF When, SafetyRecord, After
<1>2. marked \in SafetyRecord(C) /\ After(C, begun, marked)
  <2> HIDE DEF begun
  <2> QED BY <1>1 DEF SafetyRecord, After
<1>3. After(C, marked, Trip(marked, "NO_MOTION"))
  <2> HIDE DEF marked
  <2> QED BY <1>2, TripAfter DEF FaultCodes
<1>4. After(C, s, ended)
  <2>1. 0 \in 0 .. TimeMod - 1
    BY SafetyAssumption
  <2>2. QED
    BY <2>1 DEF SafetyRecord, After
<1>5. Stall(s, now, m, position, pwm, expectedHome) \in {begun, Trip(marked, "NO_MOTION"), ended}
  <2> HIDE DEF begun
  <2> QED BY DEF Stall, begun
<1>6. QED
  <2> HIDE DEF begun, marked, ended
  <2> QED BY <1>1, <1>2, <1>3, <1>4, <1>5, AfterTwice

LEMMA SettleAfter ==
  ASSUME NEW C, NEW s \in SafetyRecord(C) PROVE After(C, s, Settle(s))
<1>1. ConditionActive(s) \in BOOLEAN
  BY DEF ConditionActive
<1>2. QED
  BY <1>1 DEF Settle, SafetyRecord, After

----------------------------------------------------------------------------
\* The same steps, and the latch.
LEMMA TripLoyal ==
  ASSUME NEW C, NEW s \in SafetyRecord(C), NEW code \in FaultCodes \ {"NONE"}
  PROVE  Loyal(s, Trip(s, code))
<1>1. /\ Trip(s, code).inputs = s.inputs
      /\ Trip(s, code).recovery = s.recovery /\ Trip(s, code).internal = s.internal
      /\ Trip(s, code).state = IF s.state = "IDLE" THEN "FAULT" ELSE s.state
      /\ Trip(s, code).code = IF s.code = "NONE" THEN code ELSE s.code
  BY DEF Trip, FaultRaise, SafetyRecord
<1>2. QED
  BY <1>1 DEF Loyal, Remembers, Heeds

\* A trip keeps the latch honest also when it is the first to hear of its cause.
LEMMA CausedTrip ==
  ASSUME NEW C, NEW s \in SafetyRecord(C), NEW code \in FaultCodes \ {"NONE"},
         s.state = "FAULT" => s.code # "NONE", s.state = "IDLE" => s.code = "NONE"
  PROVE  Remembers(Trip(s, code))
<1>1. /\ Trip(s, code).state = IF s.state = "IDLE" THEN "FAULT" ELSE s.state
      /\ Trip(s, code).code = IF s.code = "NONE" THEN code ELSE s.code
  BY DEF Trip, FaultRaise, SafetyRecord
<1>2. QED
  BY <1>1 DEF Remembers

LEMMA InternalHonest ==
  ASSUME NEW C, NEW s \in SafetyRecord(C)
  PROVE  Loyal(s, InternalFault(s))
<1> DEFINE raised == [s EXCEPT !.internal = TRUE]
<1>1. /\ raised \in SafetyRecord(C) /\ raised.state = s.state /\ raised.code = s.code
      /\ raised.inputs = s.inputs
  BY DEF SafetyRecord
<1>2. "INTERNAL" \in FaultCodes \ {"NONE"}
  BY DEF FaultCodes
<1> HIDE DEF raised
<1>3. Remembers(s) => Remembers(Trip(raised, "INTERNAL"))
  BY <1>1, <1>2, CausedTrip DEF Remembers
<1>4. Heeds(s) => Heeds(Trip(raised, "INTERNAL"))
  BY <1>1, <1>2, TripLoyal DEF Loyal, Heeds
<1>5. QED
  BY <1>3, <1>4 DEF InternalFault, raised, Loyal

LEMMA EstopHonest ==
  ASSUME NEW C, NEW s \in SafetyRecord(C)
  PROVE  (Remembers(s) => Remembers(Estop(s))) /\ Heeds(Estop(s))
<1>1. Estop(s).state = "ESTOP"
  BY DEF Estop, SafetyRecord
<1>2. QED
  BY <1>1 DEF Remembers, Heeds

\* After the observation the latch is honest, whatever the inputs were before.
LEMMA ObserveHonest ==
  ASSUME NEW C, NEW s \in SafetyRecord(C), NEW inputs \in Inputs, NEW valid \in BOOLEAN,
         NEW healthy \in BOOLEAN, Remembers(s)
  PROVE  Honest(Observe(s, inputs, valid, healthy))
<1> DEFINE seen     == Record(s, inputs, valid, healthy)
           readable == SeeGpio(seen)
           estopped == SeeEstop(readable)
           limited  == SeePositive(estopped)
<1>1. seen \in SafetyRecord(C) /\ Remembers(seen)
  BY DEF Record, SafetyRecord, Remembers
<1> HIDE DEF seen
<1>2. readable \in SafetyRecord(C) /\ Remembers(readable)
  BY <1>1, InternalLatches, InternalHonest DEF SeeGpio, When, Loyal
<1> HIDE DEF readable
<1>3. /\ estopped \in SafetyRecord(C) /\ Remembers(estopped)
      /\ estopped.inputs.estop => estopped.state = "ESTOP"
  <2>1. Estop(readable).inputs = readable.inputs
    BY <1>2 DEF Estop, SafetyRecord
  <2>2. QED
    BY <1>2, <2>1, EstopType, EstopHonest DEF SeeEstop, When
<1> HIDE DEF estopped
<1>4. limited \in SafetyRecord(C) /\ Honest(limited)
  <2>1. "POSITIVE_LIMIT" \in FaultCodes \ {"NONE"}
    BY DEF FaultCodes
  <2>2. /\ Trip(estopped, "POSITIVE_LIMIT").inputs = estopped.inputs
        /\ Trip(estopped, "POSITIVE_LIMIT").state
             = IF estopped.state = "IDLE" THEN "FAULT" ELSE estopped.state
    BY <1>3 DEF Trip, FaultRaise, SafetyRecord
  <2>3. /\ Trip(estopped, "POSITIVE_LIMIT") \in SafetyRecord(C)
        /\ Remembers(Trip(estopped, "POSITIVE_LIMIT"))
    BY <1>3, <2>1, TripLatches, TripLoyal DEF Loyal
  <2>4. Heeds(Trip(estopped, "POSITIVE_LIMIT"))
    BY <1>3, <2>2 DEF Heeds
  <2>5. ~estopped.inputs.positive => Heeds(estopped)
    BY <1>3 DEF Heeds
  <2>6. QED
    BY <1>3, <2>3, <2>4, <2>5 DEF SeePositive, When, Honest
<1> HIDE DEF limited
<1>5. Honest(SeeRelease(limited))
  BY <1>4 DEF SeeRelease, When, SafetyRecord, Honest, Remembers, Heeds
<1>6. QED
  BY <1>5 DEF Observe, limited, estopped, readable, seen

LEMMA StallHonest ==
  ASSUME NEW C, NEW s \in SafetyRecord(C), NEW now \in 0 .. TimeMod - 1,
         NEW m, NEW position \in C, NEW pwm, NEW expectedHome, Honest(s)
  PROVE  Honest(Stall(s, now, m, position, pwm, expectedHome))
<1> DEFINE begun  == When(~s.candidate,
                          [s EXCEPT !.candidate = TRUE, !.candidateStart = now], s)
           marked == [begun EXCEPT !.recovery = TRUE, !.faultPosition = position]
           ended  == [s EXCEPT !.candidate = FALSE, !.candidateStart = 0]
<1>1. begun \in SafetyRecord(C) /\ Honest(begun)
  BY DEF When, SafetyRecord, Honest, Remembers, Heeds
<1>2. Honest(ended)
  BY DEF SafetyRecord, Honest, Remembers, Heeds
<1>3. Honest(Trip(marked, "NO_MOTION"))
  <2> HIDE DEF begun
  <2>1. /\ marked \in SafetyRecord(C) /\ marked.inputs = begun.inputs
        /\ marked.state = begun.state /\ marked.code = begun.code
    BY <1>1 DEF SafetyRecord
  <2>2. "NO_MOTION" \in FaultCodes \ {"NONE"}
    BY DEF FaultCodes
  <2> HIDE DEF marked
  <2>3. Heeds(marked)
    BY <1>1, <2>1 DEF Honest, Heeds
  <2>4. QED
    BY <1>1, <2>1, <2>2, <2>3, CausedTrip, TripLoyal DEF Honest, Remembers, Loyal
<1>4. Stall(s, now, m, position, pwm, expectedHome) \in {begun, Trip(marked, "NO_MOTION"), ended}
  <2> HIDE DEF begun
  <2> QED BY DEF Stall, begun
<1>5. QED
  <2> HIDE DEF begun, marked, ended
  <2> QED BY <1>1, <1>2, <1>3, <1>4

LEMMA EvaluateHonest ==
  ASSUME NEW C, 0 \in C, NEW s \in SafetyRecord(C), NEW now \in 0 .. TimeMod - 1,
         NEW inputs \in Inputs, NEW valid \in BOOLEAN, NEW m, NEW position \in C, NEW pwm,
         NEW healthy \in BOOLEAN, Remembers(s)
  PROVE  Honest(Evaluate(s, now, inputs, valid, m, position, pwm, healthy))
<1> DEFINE seen    == Observe(s, inputs, valid, healthy)
           limited == SeeNegative(seen, m, position, pwm)
           watched == SeeHealth(limited, now)
           moved   == SeeRecovery(watched, position)
           checked == Stall(moved, now, m, position, pwm, ExpectedHome(seen, m))
           Fine(t) == t \in SafetyRecord(C) /\ Honest(t)
<1>1. Fine(seen)
  BY ObserveFacts, ObserveHonest
<1> HIDE DEF seen
<1>2. {"NEGATIVE_LIMIT", "WATCHDOG"} \subseteq FaultCodes \ {"NONE"}
  BY DEF FaultCodes
<1>3. ASSUME NEW t, Fine(t), NEW code \in FaultCodes \ {"NONE"} PROVE Fine(Trip(t, code))
  BY <1>3, TripLatches, TripLoyal DEF Honest, Loyal
<1>4. Fine(limited)
  BY <1>1, <1>2, <1>3 DEF SeeNegative, When
<1> HIDE DEF limited
<1>5. Fine(watched)
  BY <1>2, <1>3, <1>4 DEF SeeHealth, When
<1> HIDE DEF watched
<1>6. Fine(moved)
  <2>1. moved \in SafetyRecord(C)
    BY <1>5, SeeRecoveryAfter DEF After
  <2>2. moved \in {watched, [watched EXCEPT !.recovery = FALSE, !.faultPosition = 0]}
    BY DEF SeeRecovery, When
  <2>3. Honest(moved)
    <3> HIDE DEF moved
    <3> QED BY <1>5, <2>2 DEF SafetyRecord, Honest, Remembers, Heeds
  <2>4. QED
    BY <2>1, <2>3
<1> HIDE DEF moved
<1>7. Fine(checked)
  BY <1>6, StallAfter, StallHonest DEF After
<1> HIDE DEF checked
<1>8. Honest(Settle(checked))
  BY <1>7 DEF Settle, SafetyRecord, Honest, Remembers, Heeds
<1>9. QED
  BY <1>8 DEF Evaluate, checked, moved, watched, limited, seen

----------------------------------------------------------------------------
LEMMA EvaluateFacts ==
  ASSUME NEW C, 0 \in C, NEW s \in SafetyRecord(C), NEW now \in 0 .. TimeMod - 1,
         NEW inputs \in Inputs, NEW valid \in BOOLEAN, NEW m, NEW position \in C, NEW pwm,
         NEW healthy \in BOOLEAN
  PROVE  LET e == Evaluate(s, now, inputs, valid, m, position, pwm, healthy)
         IN  e \in SafetyRecord(C) /\ Outcome(e, m, inputs)
<1> DEFINE seen    == Observe(s, inputs, valid, healthy)
           limited == SeeNegative(seen, m, position, pwm)
           watched == SeeHealth(limited, now)
           moved   == SeeRecovery(watched, position)
           checked == Stall(moved, now, m, position, pwm, ExpectedHome(seen, m))
           Fine(t) == t \in SafetyRecord(C) /\ Outcome(t, m, inputs)
<1>1. seen \in SafetyRecord(C) /\ seen.inputs = inputs
  BY ObserveFacts
<1> HIDE DEF seen
<1>2. Fine(limited)
  BY <1>1, SeeNegativeFacts
<1> HIDE DEF limited
<1>3. Fine(watched)
  <2>1. After(C, limited, watched)
    BY <1>2, SeeHealthAfter
  <2>2. QED
    BY <1>2, <2>1, AfterOutcome DEF After
<1> HIDE DEF watched
<1>4. Fine(moved)
  <2>1. After(C, watched, moved)
    BY <1>3, SeeRecoveryAfter
  <2>2. QED
    BY <1>3, <2>1, AfterOutcome DEF After
<1> HIDE DEF moved
<1>5. Fine(checked)
  <2>1. After(C, moved, checked)
    BY <1>4, StallAfter
  <2>2. QED
    BY <1>4, <2>1, AfterOutcome DEF After
<1> HIDE DEF checked
<1>6. Fine(Settle(checked))
  <2>1. After(C, checked, Settle(checked))
    BY <1>5, SettleAfter
  <2>2. QED
    BY <1>5, <2>1, AfterOutcome DEF After
<1>7. QED
  BY <1>6 DEF Evaluate, checked, moved, watched, limited, seen

----------------------------------------------------------------------------
\* The output obeys the gate's own flags.
SafeGate(g) ==
  /\ g.inhibited => g.output = 0
  /\ g.blocked => g.output >= 0

\* The flags agree with what Safety has decided.
GateAgrees(w) ==
  /\ w.safety.state # "IDLE" \/ ~w.safety.healthy => w.gate.inhibited
  /\ w.safety.valid /\ w.safety.inputs.negative => w.gate.inhibited \/ w.gate.blocked

\* A latch is what everyone is told.
Reported(w) == w.safety.state # "IDLE" => w.report = w.safety.state

Good(C, w) ==
  w \in Worlds(C) /\ SafeGate(w.gate) /\ GateAgrees(w) /\ Honest(w.safety) /\ Reported(w)

\* Two safety records that judge alike.
SameVerdict(s, t) ==
  /\ t.state = s.state /\ t.code = s.code /\ t.healthy = s.healthy
  /\ t.valid = s.valid /\ t.inputs = s.inputs
  /\ t.recovery = s.recovery /\ t.internal = s.internal

\* From w to v nothing touched the flags, the verdict or its report.
Kept(C, w, v) ==
  /\ v \in Worlds(C)
  /\ v.gate.inhibited = w.gate.inhibited /\ v.gate.blocked = w.gate.blocked
  /\ SafeGate(w.gate) => SafeGate(v.gate)
  /\ SameVerdict(w.safety, v.safety) /\ v.report = w.report

Travel(C) == 0 \in C /\ MinTarget .. MaxTarget \subseteq C

EnvSet == [now: 0 .. TimeMod - 1, inputs: Inputs, healthy: BOOLEAN]

----------------------------------------------------------------------------
LEMMA KeptItself ==
  ASSUME NEW C, NEW w \in Worlds(C) PROVE Kept(C, w, w)
BY DEF Kept, SameVerdict

LEMMA KeptTwice ==
  ASSUME NEW C, NEW u, NEW v, NEW w, Kept(C, u, v), Kept(C, v, w)
  PROVE  Kept(C, u, w)
BY DEF Kept, SameVerdict

LEMMA KeptGood ==
  ASSUME NEW C, NEW w, NEW v, Good(C, w), Kept(C, w, v)
  PROVE  Good(C, v)
<1>1. v \in Worlds(C) /\ SafeGate(v.gate) /\ GateAgrees(v) /\ Reported(v)
  BY DEF Kept, Good, GateAgrees, Reported, SameVerdict
<1>2. Honest(v.safety)
  BY DEF Kept, Good, SameVerdict, Honest, Remembers, Heeds
<1>3. QED
  BY <1>1, <1>2 DEF Good

\* The driver's own operations.
LEMMA SetOutputKept ==
  ASSUME NEW g \in Gate, NEW duty \in Duty
  PROVE  LET h == SetOutput(g, duty)
         IN  /\ h \in Gate /\ h.inhibited = g.inhibited /\ h.blocked = g.blocked
             /\ SafeGate(h)
<1>1. LET h == SetOutput(g, duty)
      IN  h \in Gate /\ h.inhibited = g.inhibited /\ h.blocked = g.blocked
  BY DutyAssumption DEF SetOutput, Gate
<1>2. SafeGate(SetOutput(g, duty))
  <2>1. duty \in Int
    BY DutyAssumption
  <2>2. QED
    BY <2>1 DEF SetOutput, Refuses, Gate, SafeGate
<1>3. QED
  BY <1>1, <1>2

LEMMA DisableKept ==
  ASSUME NEW g \in Gate
  PROVE  LET h == Disable(g)
         IN  /\ h \in Gate /\ h.inhibited = g.inhibited /\ h.blocked = g.blocked
             /\ SafeGate(h)
<1>1. LET h == Disable(g)
      IN  h \in Gate /\ h.inhibited = g.inhibited /\ h.blocked = g.blocked
  BY DutyAssumption DEF Disable, Gate
<1>2. SafeGate(Disable(g))
  BY DEF Disable, Gate, SafeGate
<1>3. QED
  BY <1>1, <1>2

LEMMA InhibitSafe ==
  ASSUME NEW g \in Gate, NEW on \in BOOLEAN
  PROVE  LET h == Inhibit(g, on)
         IN  h \in Gate /\ h.inhibited = on /\ h.blocked = g.blocked /\ SafeGate(h)
<1>1. LET h == Inhibit(g, on)
      IN  h \in Gate /\ h.inhibited = on /\ h.blocked = g.blocked
  BY DutyAssumption DEF Inhibit, Gate
<1>2. SafeGate(Inhibit(g, on))
  BY DEF Inhibit, Gate, SafeGate
<1>3. QED
  BY <1>1, <1>2

LEMMA BlockNegativeSafe ==
  ASSUME NEW g \in Gate, NEW on \in BOOLEAN, SafeGate(g)
  PROVE  LET h == BlockNegative(g, on)
         IN  h \in Gate /\ h.inhibited = g.inhibited /\ h.blocked = on /\ SafeGate(h)
<1>1. LET h == BlockNegative(g, on)
      IN  h \in Gate /\ h.inhibited = g.inhibited /\ h.blocked = on
  BY DutyAssumption DEF BlockNegative, Gate
<1>2. SafeGate(BlockNegative(g, on))
  <2>1. g.output \in Int
    BY DutyAssumption DEF Gate
  <2>2. QED
    BY <2>1 DEF BlockNegative, Gate, SafeGate
<1>3. QED
  BY <1>1, <1>2

\* Replacing a world's gate by one the driver returned, and its motion record
\* and reported count by well typed ones, is Kept.
LEMMA ReplaceKept ==
  ASSUME NEW C, NEW w \in Worlds(C), NEW v \in Worlds(C), NEW duty \in Duty,
         v.gate \in {w.gate, Disable(w.gate), SetOutput(w.gate, duty)},
         SameVerdict(w.safety, v.safety), v.report = w.report
  PROVE  Kept(C, w, v)
<1>1. w.gate \in Gate
  BY DEF Worlds
<1>2. QED
  BY <1>1, SetOutputKept, DisableKept DEF Kept

----------------------------------------------------------------------------
\* The motion controller.
LEMMA FailKept ==
  ASSUME NEW C, NEW w \in Worlds(C) PROVE Kept(C, w, Fail(w))
<1>1. w.gate \in Gate /\ w.motion \in MotionRecord(C)
  BY DEF Worlds
<1>2. Disable(w.gate) \in Gate
  BY <1>1, DisableKept
<1>3. [w.motion EXCEPT !.state = "IDLE", !.valid = FALSE, !.stable = 0, !.sampled = FALSE]
        \in MotionRecord(C)
  BY <1>1 DEF MotionRecord, MotionStates, ActiveStates
<1>4. /\ Fail(w) \in Worlds(C) /\ Fail(w).gate = Disable(w.gate)
      /\ Fail(w).safety = w.safety /\ Fail(w).report = w.report
  BY <1>2, <1>3 DEF Fail, Worlds
<1>5. QED
  BY <1>4, ReplaceKept, DutyAssumption DEF SameVerdict

LEMMA SampleKept ==
  ASSUME NEW C, NEW w \in Worlds(C), NEW gap PROVE Kept(C, w, Sample(w, gap))
<1> DEFINE taken == [w.motion EXCEPT !.slow = Slow(w.motion, w.count, gap),
                                     !.position = w.count,
                                     !.sampled = TRUE, !.valid = TRUE]
<1>1. w.motion \in MotionRecord(C) /\ w.count \in C
  BY DEF Worlds
<1>2. Slow(w.motion, w.count, gap) \in BOOLEAN
  BY DEF Slow
<1>3. taken \in MotionRecord(C)
  BY <1>1, <1>2 DEF MotionRecord
<1>4. [w EXCEPT !.motion = taken] \in Worlds(C)
  BY <1>3 DEF Worlds
<1>5. Kept(C, w, [w EXCEPT !.motion = taken])
  <2> HIDE DEF taken
  <2>1. /\ [w EXCEPT !.motion = taken].gate = w.gate
        /\ [w EXCEPT !.motion = taken].safety = w.safety
        /\ [w EXCEPT !.motion = taken].report = w.report
    BY DEF Worlds
  <2>2. QED
    BY <1>4, <2>1, ReplaceKept, DutyAssumption DEF SameVerdict
<1>6. QED
  BY <1>5, FailKept DEF Sample

LEMMA StoppedKept ==
  ASSUME NEW C, NEW w \in Worlds(C) PROVE Kept(C, w, Stopped(w))
<1> DEFINE held == IF w.motion.state = "MOVING"
                   THEN [w.motion EXCEPT !.state = "STOPPING", !.stable = 0] ELSE w.motion
<1>1. w.gate \in Gate /\ w.motion \in MotionRecord(C)
  BY DEF Worlds
<1>2. Disable(w.gate) \in Gate
  BY <1>1, DisableKept
<1>3. held \in MotionRecord(C)
  BY <1>1 DEF MotionRecord, MotionStates, ActiveStates
<1>4. Stopped(w) = [w EXCEPT !.gate = Disable(@), !.motion = held]
  BY DEF Stopped, Worlds
<1> HIDE DEF held
<1>5. /\ Stopped(w) \in Worlds(C)
      /\ Stopped(w).gate = Disable(w.gate)
      /\ Stopped(w).safety = w.safety /\ Stopped(w).report = w.report
  BY <1>2, <1>3, <1>4 DEF Worlds
<1>6. QED
  BY <1>5, ReplaceKept, DutyAssumption DEF SameVerdict

LEMMA MotionCommandKept ==
  ASSUME NEW C, Travel(C), NEW w \in Worlds(C), NEW command
  PROVE  Kept(C, w, MotionCommand(w, command).world)
<1> DEFINE target == Target(w.motion, command)
           aimed  == [w.motion EXCEPT !.target = target, !.state = "MOVING", !.stable = 0]
           moving == [w EXCEPT !.motion = aimed]
<1>1. ASSUME InTravel(target) PROVE Kept(C, w, moving)
  <2>1. target \in C
    BY <1>1 DEF InTravel, Travel
  <2>2. aimed \in MotionRecord(C)
    <3> HIDE DEF target
    <3> QED BY <2>1 DEF Worlds, MotionRecord, MotionStates, ActiveStates
  <2> HIDE DEF aimed
  <2>3. moving \in Worlds(C) /\ moving.gate = w.gate
  /\ moving.safety = w.safety /\ moving.report = w.report
    BY <2>2 DEF Worlds
  <2>4. QED
    BY <2>3, ReplaceKept, DutyAssumption DEF SameVerdict
<1>2. \/ MotionCommand(w, command).world = w
      \/ MotionCommand(w, command).world = Stopped(w)
      \/ MotionCommand(w, command).world = moving /\ InTravel(target)
  BY DEF MotionCommand, Answer
<1>3. QED
  BY <1>1, <1>2, StoppedKept, KeptItself

LEMMA DwellType ==
  ASSUME NEW C, NEW m \in MotionRecord(C) PROVE Dwell(m) \in MotionRecord(C)
<1> DEFINE stable == IF InBand(m) THEN m.stable + 1 ELSE 0
           done   == stable >= DwellCycles
           completed == IF done /\ m.state = "MOVING" THEN m.completed + 1 ELSE m.completed
           state  == IF done THEN "IDLE" ELSE m.state
<1>1. stable \in Nat
  BY DEF MotionRecord
<1> HIDE DEF stable
<1>2. completed \in Nat
  <2> HIDE DEF done
  <2> QED BY DEF MotionRecord
<1>3. state \in MotionStates
  <2> HIDE DEF done
  <2> QED BY DEF MotionRecord, MotionStates
<1> HIDE DEF completed, state
<1>4. [m EXCEPT !.stable = stable, !.completed = completed, !.state = state]
        \in MotionRecord(C)
  BY <1>1, <1>2, <1>3 DEF MotionRecord
<1>5. QED
  BY <1>4 DEF Dwell, stable, completed, state

LEMMA MotionUpdateKept ==
  ASSUME NEW C, NEW w \in Worlds(C), NEW duty \in Duty
  PROVE  Kept(C, w, MotionUpdate(w, duty).world)
<1> DEFINE dwelt  == [w EXCEPT !.motion = Dwell(@)]
           driven == [dwelt EXCEPT !.gate = SetOutput(@, duty)]
           off    == [dwelt EXCEPT !.gate = Disable(@)]
<1>1. w.gate \in Gate /\ w.motion \in MotionRecord(C)
  BY DEF Worlds
<1>2. Dwell(w.motion) \in MotionRecord(C)
  BY <1>1, DwellType
<1>3. /\ dwelt \in Worlds(C) /\ dwelt.gate = w.gate
      /\ dwelt.safety = w.safety /\ dwelt.report = w.report
  BY <1>2 DEF Worlds
<1> HIDE DEF dwelt
<1>4. SetOutput(w.gate, duty) \in Gate /\ Disable(w.gate) \in Gate
  BY <1>1, SetOutputKept, DisableKept
<1>5. /\ driven \in Worlds(C)
      /\ driven.gate = SetOutput(w.gate, duty)
      /\ driven.safety = w.safety /\ driven.report = w.report
  BY <1>3, <1>4 DEF Worlds
<1>6. /\ off \in Worlds(C) /\ off.gate = Disable(w.gate)
      /\ off.safety = w.safety /\ off.report = w.report
  BY <1>3, <1>4 DEF Worlds
<1>7. Kept(C, w, driven) /\ Kept(C, w, off)
  <2> HIDE DEF driven, off
  <2> QED BY <1>5, <1>6, ReplaceKept, DutyAssumption DEF SameVerdict
<1>8. Kept(C, w, Fail(w)) /\ Kept(C, w, Fail(driven))
  <2> HIDE DEF driven
  <2> QED BY <1>5, <1>7, FailKept, KeptTwice
<1>9. MotionUpdate(w, duty).world \in {driven, off, Fail(w), Fail(driven)}
  BY DEF MotionUpdate, dwelt
<1>10. QED
  <2> HIDE DEF driven, off
  <2> QED BY <1>7, <1>8, <1>9

----------------------------------------------------------------------------
\* Homing.
LEMMA ClearControlKept ==
  ASSUME NEW C, NEW w \in Worlds(C) PROVE Kept(C, w, ClearControl(w))
<1> DEFINE held == [w.motion EXCEPT !.target = w.motion.position, !.stable = 0]
<1>1. w.gate \in Gate /\ w.motion \in MotionRecord(C)
  BY DEF Worlds
<1>2. Disable(w.gate) \in Gate
  BY <1>1, DisableKept
<1>3. held \in MotionRecord(C)
  BY <1>1 DEF MotionRecord
<1>4. ClearControl(w) = [w EXCEPT !.gate = Disable(@), !.motion = held]
  BY DEF ClearControl, Worlds
<1> HIDE DEF held
<1>5. /\ ClearControl(w) \in Worlds(C)
      /\ ClearControl(w).gate = Disable(w.gate)
      /\ ClearControl(w).safety = w.safety /\ ClearControl(w).report = w.report
  BY <1>2, <1>3, <1>4 DEF Worlds
<1>6. QED
  BY <1>5, ReplaceKept, DutyAssumption DEF SameVerdict

\* A change of the motion record alone.
LEMMA MotionOnlyKept ==
  ASSUME NEW C, NEW w \in Worlds(C), NEW m \in MotionRecord(C)
  PROVE  Kept(C, w, [w EXCEPT !.motion = m])
<1> DEFINE v == [w EXCEPT !.motion = m]
<1>1. v \in Worlds(C) /\ v.gate = w.gate /\ v.safety = w.safety /\ v.report = w.report
  BY DEF Worlds
<1> HIDE DEF v
<1>2. Kept(C, w, v)
  BY <1>1, ReplaceKept, DutyAssumption DEF SameVerdict
<1>3. QED
  BY <1>2 DEF v

LEMMA HomingBeginKept ==
  ASSUME NEW C, NEW w \in Worlds(C), NEW now \in 0 .. TimeMod - 1
  PROVE  Kept(C, w, HomingBegin(w, now).world)
<1> DEFINE cleared == ClearControl(w)
           seeking == [cleared.motion EXCEPT !.result = "RUNNING", !.started = now,
                                             !.referenced = FALSE, !.state = "HOMING"]
           begun   == [cleared EXCEPT !.motion = seeking]
<1>1. Kept(C, w, cleared)
  BY ClearControlKept
<1> HIDE DEF cleared
<1>2. cleared \in Worlds(C)
  BY <1>1 DEF Kept
<1>3. seeking \in MotionRecord(C)
  BY <1>2 DEF Worlds, MotionRecord, MotionStates, ActiveStates, HomingResults
<1>4. Kept(C, w, begun)
  <2> HIDE DEF seeking
  <2> QED BY <1>1, <1>2, <1>3, MotionOnlyKept, KeptTwice
<1>5. HomingBegin(w, now).world \in {w, begun}
  <2>1. begun = [cleared EXCEPT !.motion =
                   [@ EXCEPT !.result = "RUNNING", !.started = now,
                             !.referenced = FALSE, !.state = "HOMING"]]
    BY <1>2 DEF Worlds
  <2> HIDE DEF begun
  <2>2. QED
    BY <2>1 DEF HomingBegin, Answer, cleared
<1>6. QED
  <2> HIDE DEF begun
  <2> QED BY <1>4, <1>5, KeptItself

LEMMA HomingAbortKept ==
  ASSUME NEW C, NEW w \in Worlds(C), NEW result \in HomingResults
  PROVE  Kept(C, w, HomingAbort(w, result))
<1> DEFINE cleared == ClearControl(w)
           m       == cleared.motion
           ended   == [m EXCEPT !.result = IF m.result = "RUNNING" THEN result ELSE m.result,
                                !.started = 0]
<1>1. Kept(C, w, cleared)
  BY ClearControlKept
<1> HIDE DEF cleared
<1>2. cleared \in Worlds(C)
  BY <1>1 DEF Kept
<1>3. ended \in MotionRecord(C)
  <2>1. 0 \in 0 .. TimeMod - 1
    BY SafetyAssumption
  <2>2. QED
    BY <1>2, <2>1 DEF Worlds, MotionRecord
<1>4. HomingAbort(w, result) = [cleared EXCEPT !.motion = ended]
  BY DEF HomingAbort, cleared
<1>5. QED
  <2> HIDE DEF ended
  <2> QED BY <1>1, <1>2, <1>3, <1>4, MotionOnlyKept, KeptTwice

LEMMA ReferenceKept ==
  ASSUME NEW C, 0 \in C, NEW w \in Worlds(C) PROVE Kept(C, w, Reference(w))
<1> DEFINE cleared == ClearControl(w)
           homed == w.motion.homed + 1
           zeroed == [cleared.motion EXCEPT !.position = 0, !.target = 0, !.slow = TRUE,
                        !.sampled = FALSE, !.result = "COMPLETE", !.started = 0,
                        !.referenced = TRUE, !.homed = homed, !.state = "IDLE"]
           v == [cleared EXCEPT !.count = 0, !.motion = zeroed]
<1>1. Kept(C, w, cleared)
  BY ClearControlKept
<1>2. homed \in Nat
  BY DEF Worlds, MotionRecord
<1> HIDE DEF cleared, homed
<1>3. cleared \in Worlds(C)
  BY <1>1 DEF Kept
<1>4. zeroed \in MotionRecord(C)
  <2>1. 0 \in 0 .. TimeMod - 1
    BY SafetyAssumption
  <2>2. cleared.motion \in MotionRecord(C)
    BY <1>3 DEF Worlds
  <2>3. {"COMPLETE"} \subseteq HomingResults /\ {"IDLE"} \subseteq MotionStates
    BY DEF HomingResults, MotionStates
  <2>4. QED
    BY <1>2, <2>1, <2>2, <2>3 DEF MotionRecord
<1>5. Reference(w) = v
  BY DEF Reference, cleared, homed
<1> HIDE DEF zeroed
<1>6. /\ v \in Worlds(C) /\ v.gate = cleared.gate
      /\ v.safety = cleared.safety /\ v.report = cleared.report
  BY <1>3, <1>4 DEF Worlds
<1> HIDE DEF v
<1>7. QED
  BY <1>1, <1>3, <1>5, <1>6, ReplaceKept, KeptTwice, DutyAssumption DEF SameVerdict

LEMMA HomingUpdateKept ==
  ASSUME NEW C, 0 \in C, NEW w \in Worlds(C), NEW inputs, NEW now
  PROVE  Kept(C, w, HomingUpdate(w, inputs, now).world)
<1> DEFINE driven == [w EXCEPT !.gate = SetOutput(@, HomingPwm)]
<1>1. driven \in Worlds(C) /\ driven.gate = SetOutput(w.gate, HomingPwm)
      /\ driven.safety = w.safety /\ driven.report = w.report
  BY MotionAssumption, SetOutputKept DEF Worlds
<1>2. Kept(C, w, driven)
  <2> HIDE DEF driven
  <2> QED BY <1>1, ReplaceKept, MotionAssumption DEF SameVerdict
<1>3. HomingUpdate(w, inputs, now).world
        \in {w, ClearControl(w), HomingAbort(w, "TIMEOUT"), Reference(w), driven}
  BY DEF HomingUpdate
<1>4. "TIMEOUT" \in HomingResults
  BY DEF HomingResults
<1>5. QED
  <2> HIDE DEF driven
  <2> QED BY <1>2, <1>3, <1>4, KeptItself, ClearControlKept, HomingAbortKept, ReferenceKept

----------------------------------------------------------------------------
\* The adapter: publication and reconciliation.
LEMMA PublishKept ==
  ASSUME NEW C, NEW w \in Worlds(C) PROVE Kept(C, w, Publish(w))
<1>1. Snapshot(w.motion) \in Published(C)
  BY DEF Worlds, MotionRecord, Published, Snapshot
<1>2. /\ Publish(w) \in Worlds(C)
      /\ Publish(w).gate = w.gate /\ Publish(w).safety = w.safety /\ Publish(w).report = w.report
  BY <1>1 DEF Publish, Worlds
<1>3. QED
  BY <1>2, ReplaceKept, DutyAssumption DEF SameVerdict

LEMMA AbandonKept ==
  ASSUME NEW C, NEW w \in Worlds(C) PROVE Kept(C, w, Abandon(w))
<1> DEFINE counted == [w.safety EXCEPT !.aborted = w.safety.aborted + 1]
<1>1. counted \in SafetyRecord(C)
  <2>1. w.safety.aborted + 1 \in Nat
    BY DEF Worlds, SafetyRecord
  <2>2. QED
    BY <2>1 DEF Worlds, SafetyRecord
<1>2. SameVerdict(w.safety, counted)
  BY DEF Worlds, SafetyRecord, SameVerdict
<1>3. Abandon(w) = [w EXCEPT !.safety = counted]
  BY DEF Abandon, Worlds, SafetyRecord
<1> HIDE DEF counted
<1>4. /\ Abandon(w) \in Worlds(C)
      /\ Abandon(w).gate = w.gate /\ Abandon(w).safety = counted
      /\ Abandon(w).report = w.report
  BY <1>1, <1>3 DEF Worlds
<1>5. QED
  BY <1>2, <1>4, ReplaceKept, DutyAssumption

LEMMA SyncKept ==
  ASSUME NEW C, NEW w \in Worlds(C) PROVE Kept(C, w, Sync(w))
<1> DEFINE counted == IF w.motion.state \in ActiveStates THEN Abandon(w) ELSE w
           ended   == IF w.motion.state = "HOMING" THEN EndSeek(counted) ELSE counted
           held    == [ended.motion EXCEPT !.state = w.safety.state,
                                           !.target = w.motion.position, !.stable = 0]
<1>1. Kept(C, w, counted)
  BY AbandonKept, KeptItself
<1> HIDE DEF counted
<1>2. Kept(C, w, ended)
  <2>1. counted \in Worlds(C)
    BY <1>1 DEF Kept
  <2>2. {"ESTOPPED", "FAULTED"} \subseteq HomingResults
    BY DEF HomingResults
  <2>3. QED
    BY <1>1, <2>1, <2>2, HomingAbortKept, KeptTwice DEF EndSeek
<1> HIDE DEF ended
<1>3. ended \in Worlds(C)
  BY <1>2 DEF Kept
<1>4. held \in MotionRecord(C)
  BY <1>3 DEF Worlds, MotionRecord, SafetyRecord, MotionStates, SafetyStates
<1>5. Sync(w) \in {w, [ended EXCEPT !.motion = held]}
  BY DEF Sync, counted, ended
<1>6. QED
  <2> HIDE DEF held
  <2> QED BY <1>2, <1>3, <1>4, <1>5, MotionOnlyKept, KeptItself, KeptTwice

----------------------------------------------------------------------------
\* The adapter: enforcement and evaluation.  Enforce makes a world Good when
\* something is latched, or when an active switch is accounted for.
Accounted(w) ==
  w.safety.valid /\ w.safety.inputs.negative /\ w.safety.state = "IDLE" =>
    w.pub.state = "HOMING" \/ w.safety.homeContact

LEMMA EnforceGood ==
  ASSUME NEW C, NEW w \in Worlds(C), SafeGate(w.gate), Accounted(w), Honest(w.safety)
  PROVE  Good(C, Enforce(w))
<1> DEFINE guard   == w.safety.homeContact /\ w.safety.valid /\ w.safety.inputs.negative
           guarded == BlockNegative(w.gate, guard)
           report  == IF w.safety.state # "IDLE" THEN w.safety.state ELSE w.report
           shut    == IF Unsafe(w) # guarded.inhibited THEN Inhibit(guarded, Unsafe(w))
                                                       ELSE guarded
<1>1. w.gate \in Gate /\ guard \in BOOLEAN /\ Unsafe(w) \in BOOLEAN
  BY DEF Worlds, Unsafe
<1>2. guarded \in Gate /\ guarded.blocked = guard /\ SafeGate(guarded)
  <2> HIDE DEF guard
  <2> QED BY <1>1, BlockNegativeSafe
<1>3. report \in Reports
  BY DEF Worlds, SafetyRecord, Reports, SafetyStates, MotionStates
<1>4. Enforce(w) = [w EXCEPT !.gate = shut, !.report = report]
  BY DEF Enforce, Guarded
<1> HIDE DEF guarded, guard, report
<1>5. shut \in Gate /\ shut.blocked = guard /\ SafeGate(shut) /\ shut.inhibited = Unsafe(w)
  <2>1. guarded.inhibited \in BOOLEAN
    BY <1>2 DEF Gate
  <2>2. QED
    BY <1>1, <1>2, <2>1, InhibitSafe
<1> HIDE DEF shut
<1>6. /\ Enforce(w) \in Worlds(C)
      /\ Enforce(w).gate = shut /\ Enforce(w).safety = w.safety
      /\ Enforce(w).report = report
  BY <1>3, <1>4, <1>5 DEF Worlds
<1>7. /\ w.safety.state # "IDLE" \/ ~w.safety.healthy => Unsafe(w)
      /\ w.safety.valid /\ w.safety.inputs.negative => Unsafe(w) \/ guard
  BY DEF Unsafe, HomeStop, guard, Accounted
<1>8. QED
  <2>1. Reported(Enforce(w))
    BY <1>6 DEF Reported, report
  <2>2. GateAgrees(Enforce(w))
    BY <1>5, <1>6, <1>7 DEF GateAgrees
  <2>3. QED
    BY <1>5, <1>6, <2>1, <2>2 DEF Good

LEMMA EvaluateGood ==
  ASSUME NEW C, 0 \in C, NEW w \in Worlds(C), SafeGate(w.gate), Remembers(w.safety),
         NEW env \in EnvSet
  PROVE  Good(C, EvaluateNow(w, env))
<1> DEFINE e == Evaluate(w.safety, env.now, env.inputs, TRUE, w.pub, w.count,
                         w.gate.output, env.healthy)
           v == [w EXCEPT !.safety = e]
<1>1. /\ w.safety \in SafetyRecord(C) /\ w.count \in C
      /\ env.now \in 0 .. TimeMod - 1 /\ env.inputs \in Inputs /\ env.healthy \in BOOLEAN
  BY DEF Worlds, EnvSet
<1>2. e \in SafetyRecord(C)
  BY <1>1, EvaluateFacts
<1>3. Outcome(e, w.pub, env.inputs) /\ Honest(e)
  BY <1>1, EvaluateFacts, EvaluateHonest
<1>4. EvaluateNow(w, env) = Enforce(v)
  BY DEF EvaluateNow
<1> HIDE DEF e
<1>5. v \in Worlds(C) /\ v.gate = w.gate /\ v.safety = e /\ v.pub = w.pub
  BY <1>2 DEF Worlds
<1> HIDE DEF v
<1>6. QED
  BY <1>3, <1>4, <1>5, EnforceGood DEF Accounted, Outcome, Tolerated

LEMMA EvaluateSyncGood ==
  ASSUME NEW C, 0 \in C, NEW w \in Worlds(C), SafeGate(w.gate), Remembers(w.safety),
         NEW env \in EnvSet
  PROVE  Good(C, EvaluateSync(w, env))
<1>1. Good(C, EvaluateNow(w, env))
  BY EvaluateGood
<1>2. Kept(C, EvaluateNow(w, env), Sync(EvaluateNow(w, env)))
  BY <1>1, SyncKept DEF Good
<1>3. QED
  BY <1>1, <1>2, KeptGood DEF EvaluateSync

----------------------------------------------------------------------------
\* The adapter: commands.
LEMMA GoodThenKept ==
  ASSUME NEW C, NEW w, NEW v, Good(C, w), w \in Worlds(C) => Kept(C, w, v)
  PROVE  Good(C, v)
BY KeptGood DEF Good

LEMMA CommandEstopGood ==
  ASSUME NEW C, NEW w, Good(C, w) PROVE Good(C, CommandEstop(w).world)
<1> DEFINE v == [w EXCEPT !.safety = Estop(w.safety)]
<1>1. /\ v \in Worlds(C) /\ v.gate = w.gate /\ v.safety = Estop(w.safety)
      /\ Estop(w.safety).state = "ESTOP" /\ Honest(Estop(w.safety))
  <2>1. w.safety \in SafetyRecord(C) /\ Honest(w.safety) /\ w \in Worlds(C)
    BY DEF Good, Worlds
  <2>2. /\ Estop(w.safety) \in SafetyRecord(C) /\ Estop(w.safety).state = "ESTOP"
        /\ Honest(Estop(w.safety))
    BY <2>1, EstopType, EstopHonest DEF Honest
  <2>3. QED
    BY <2>1, <2>2 DEF Worlds
<1> HIDE DEF v
<1>2. Good(C, Enforce(v))
  BY <1>1, EnforceGood DEF Good, Accounted
<1>3. Good(C, Sync(Enforce(v)))
  BY <1>2, SyncKept, GoodThenKept
<1>4. CommandEstop(w).world = Sync(Enforce(v))
  BY DEF CommandEstop, Answer, v
<1>5. QED
  BY <1>3, <1>4

\* RESET clears the latch only when the evaluation it made allows it, so the
\* released gate agrees with the record.
LEMMA CommandResetGood ==
  ASSUME NEW C, 0 \in C, NEW w, Good(C, w), NEW env \in EnvSet
  PROVE  Good(C, CommandReset(w, env).world)
<1> DEFINE seen   == EvaluateNow(w, env)
           safety == Reset(seen.safety)
           gate   == Inhibit(Disable(seen.gate), FALSE)
           motion == [seen.motion EXCEPT !.state = "IDLE", !.target = seen.motion.position,
                                         !.stable = 0]
<1>1. Good(C, seen)
  BY EvaluateGood DEF Good, Honest
<1>2. \/ CommandReset(w, env).world \in {w, seen}
      \/ CommandReset(w, env).world = Freed(seen) /\ CanReset(seen.safety)
  BY DEF CommandReset, ResetAfter, Answer
<1> HIDE DEF seen
<1>3. seen.safety \in SafetyRecord(C) /\ seen.gate \in Gate /\ seen.motion \in MotionRecord(C)
  BY <1>1 DEF Good, Worlds
<1>4. /\ safety \in SafetyRecord(C)
      /\ safety.valid = seen.safety.valid /\ safety.inputs = seen.safety.inputs
      /\ safety.healthy = seen.safety.healthy /\ safety.state = "IDLE"
      /\ safety.code = "NONE"
      /\ safety.recovery = seen.safety.recovery /\ safety.internal = seen.safety.internal
  <2>1. 0 \in 0 .. TimeMod - 1
    BY SafetyAssumption
  <2>2. QED
    BY <1>3, <2>1 DEF Reset, FaultReset, SafetyRecord, FaultCodes, SafetyStates
<1>5. gate \in Gate /\ SafeGate(gate)
  BY <1>3, DisableKept, InhibitSafe
<1>6. motion \in MotionRecord(C)
  BY <1>3 DEF MotionRecord, MotionStates
<1>7. Freed(seen) = [seen EXCEPT !.safety = safety, !.gate = gate, !.motion = motion]
  BY DEF Freed
<1> HIDE DEF safety, gate, motion
<1>8. /\ Freed(seen) \in Worlds(C)
      /\ Freed(seen).safety = safety /\ Freed(seen).gate = gate
  BY <1>1, <1>4, <1>5, <1>6, <1>7 DEF Good, Worlds
<1>9. CanReset(seen.safety) => Good(C, Freed(seen))
  <2> SUFFICES ASSUME CanReset(seen.safety) PROVE Good(C, Freed(seen))
    OBVIOUS
  <2>1. GateAgrees(Freed(seen)) /\ Reported(Freed(seen))
    BY <1>4, <1>8 DEF CanReset, GateAgrees, Reported
  <2>2. Honest(safety)
    BY <1>4 DEF CanReset, Honest, Remembers, Heeds
  <2>3. QED
    BY <1>5, <1>8, <2>1, <2>2 DEF Good
<1>10. QED
  BY <1>1, <1>2, <1>9

LEMMA CommandStopHomingGood ==
  ASSUME NEW C, NEW w, Good(C, w) PROVE Good(C, CommandStopHoming(w).world)
<1> DEFINE aborted  == HomingAbort(w, "STOPPED")
           ended    == Abandon(aborted)
           stopping == [ended.motion EXCEPT !.state = "STOPPING"]
           v        == [ended EXCEPT !.motion = stopping]
<1>1. Good(C, aborted)
  <2>1. "STOPPED" \in HomingResults
    BY DEF HomingResults
  <2>2. QED
    BY <2>1, HomingAbortKept, GoodThenKept
<1> HIDE DEF aborted
<1>2. Good(C, ended)
  BY <1>1, AbandonKept, GoodThenKept
<1>3. CommandStopHoming(w).world = Publish(v)
  BY <1>2 DEF CommandStopHoming, Answer, aborted, Good, Worlds, MotionRecord
<1> HIDE DEF ended
<1>4. stopping \in MotionRecord(C)
  BY <1>2 DEF Good, Worlds, MotionRecord, MotionStates, ActiveStates
<1> HIDE DEF stopping
<1>5. Good(C, v)
  BY <1>2, <1>4, MotionOnlyKept, GoodThenKept
<1> HIDE DEF v
<1>6. QED
  BY <1>3, <1>5, PublishKept, GoodThenKept

LEMMA CommandHomeGood ==
  ASSUME NEW C, 0 \in C, NEW w, Good(C, w), NEW env \in EnvSet
  PROVE  Good(C, CommandHome(w, env).world)
<1> DEFINE begun == HomingBegin(w, env.now).world
           pub   == Publish(begun)
<1>1. Good(C, begun)
  <2>1. env.now \in 0 .. TimeMod - 1
    BY DEF EnvSet
  <2>2. QED
    BY <2>1, HomingBeginKept, GoodThenKept
<1>2. CommandHome(w, env).world \in {EvaluateSync(pub, env), pub}
  BY DEF CommandHome, Answer
<1> HIDE DEF begun
<1>3. Good(C, pub)
  BY <1>1, PublishKept, GoodThenKept
<1> HIDE DEF pub
<1>4. Good(C, EvaluateSync(pub, env))
  BY <1>3, EvaluateSyncGood DEF Good, Honest
<1>5. QED
  BY <1>2, <1>3, <1>4

LEMMA CommandDepartGood ==
  ASSUME NEW C, Travel(C), NEW w, Good(C, w), NEW command, NEW env \in EnvSet
  PROVE  Good(C, CommandDepart(w, command, env).world)
<1> DEFINE moved == MotionCommand(w, command).world
           pub   == Publish(moved)
<1>1. Good(C, moved)
  BY MotionCommandKept, GoodThenKept
<1>2. CommandDepart(w, command, env).world \in {w, EvaluateSync(pub, env)}
  BY DEF CommandDepart, Answer
<1> HIDE DEF moved
<1>3. Good(C, pub)
  BY <1>1, PublishKept, GoodThenKept
<1> HIDE DEF pub
<1>4. Good(C, EvaluateSync(pub, env))
  BY <1>3, EvaluateSyncGood DEF Good, Honest, Travel
<1>5. QED
  BY <1>2, <1>4

LEMMA SafetyCommandGood ==
  ASSUME NEW C, Travel(C), NEW w, Good(C, w), NEW command, NEW env \in EnvSet
  PROVE  Good(C, SafetyCommand(w, command, env).world)
<1>1. SafetyCommand(w, command, env).world
        \in {w, CommandEstop(w).world, CommandReset(w, env).world,
             CommandStopHoming(w).world, CommandHome(w, env).world,
             CommandDepart(w, command, env).world, MotionCommand(w, command).world}
  BY DEF SafetyCommand, Answer
<1>2. Good(C, MotionCommand(w, command).world)
  BY MotionCommandKept, GoodThenKept
<1>3. 0 \in C
  BY DEF Travel
<1>4. QED
  BY <1>1, <1>2, <1>3, CommandEstopGood, CommandResetGood, CommandStopHomingGood,
     CommandHomeGood, CommandDepartGood

----------------------------------------------------------------------------
\* The adapter: the control update.
LEMMA RegularUpdateGood ==
  ASSUME NEW C, 0 \in C, NEW w, Good(C, w), NEW duty \in Duty, NEW env \in EnvSet
  PROVE  Good(C, RegularUpdate(w, duty, env).world)
<1> DEFINE seen == IF w.safety.homeContact THEN EvaluateSync(Publish(w), env) ELSE w
<1>1. Good(C, Publish(w))
  BY PublishKept, GoodThenKept
<1>2. Good(C, seen)
  BY <1>1, EvaluateSyncGood DEF Good, Honest
<1>3. RegularUpdate(w, duty, env) = MotionUpdate(seen, duty)
  BY DEF RegularUpdate
<1> HIDE DEF seen
<1>4. QED
  BY <1>2, <1>3, MotionUpdateKept, GoodThenKept

LEMMA LatchGood ==
  ASSUME NEW C, NEW w, Good(C, w), NEW s \in SafetyRecord(C), s.state # "IDLE",
         Honest(s)
  PROVE  Good(C, Enforce([w EXCEPT !.safety = s]))
<1> DEFINE v == [w EXCEPT !.safety = s]
<1>1. v \in Worlds(C) /\ v.gate = w.gate /\ v.safety = s
  BY DEF Good, Worlds
<1> HIDE DEF v
<1>2. Good(C, Enforce(v))
  BY <1>1, EnforceGood DEF Good, Accounted
<1>3. QED
  BY <1>2 DEF v

LEMMA FinishSeekGood ==
  ASSUME NEW C, 0 \in C, NEW w, Good(C, w), NEW env \in EnvSet
  PROVE  Good(C, FinishSeek(w, env))
<1> DEFINE timedOut == Enforce([w EXCEPT !.safety = HomingTimeoutFault(@)])
           allowed  == [w.safety EXCEPT !.homeContact = TRUE]
           v        == [w EXCEPT !.safety = allowed]
<1>1. w \in Worlds(C) /\ w.safety \in SafetyRecord(C)
  BY DEF Good, Worlds
<1>2. Good(C, Sync(timedOut))
  <2>1. "HOMING_TIMEOUT" \in FaultCodes \ {"NONE"}
    BY DEF FaultCodes
  <2>2. /\ HomingTimeoutFault(w.safety) \in SafetyRecord(C)
        /\ HomingTimeoutFault(w.safety).state # "IDLE"
        /\ Honest(HomingTimeoutFault(w.safety))
    BY <1>1, <2>1, TripLatches, TripLoyal DEF HomingTimeoutFault, Good, Honest, Loyal
  <2>3. Good(C, timedOut)
    BY <2>2, LatchGood
  <2> HIDE DEF timedOut
  <2>4. QED
    BY <2>3, SyncKept, GoodThenKept
<1>3. allowed \in SafetyRecord(C) /\ Remembers(allowed)
  BY <1>1 DEF SafetyRecord, Good, Honest, Remembers
<1>4. [w EXCEPT !.safety.homeContact = TRUE] = v
  BY <1>1 DEF Worlds, SafetyRecord
<1> HIDE DEF allowed
<1>5. v \in Worlds(C) /\ v.gate = w.gate /\ Remembers(v.safety)
  BY <1>1, <1>3 DEF Worlds
<1>6. FinishSeek(w, env) \in {Sync(timedOut), EvaluateNow(Publish(v), env), w}
  BY <1>4 DEF FinishSeek
<1> HIDE DEF v, timedOut
<1>7. /\ Publish(v) \in Worlds(C) /\ SafeGate(Publish(v).gate)
      /\ Remembers(Publish(v).safety)
  BY <1>5, PublishKept DEF Kept, SameVerdict, Remembers, Good
<1>8. Good(C, EvaluateNow(Publish(v), env))
  BY <1>7, EvaluateGood
<1>9. QED
  BY <1>2, <1>6, <1>8

LEMMA SeekUpdateGood ==
  ASSUME NEW C, 0 \in C, NEW w, Good(C, w), NEW now, NEW inputs, NEW env \in EnvSet
  PROVE  Good(C, SeekUpdate(w, now, inputs, env).world)
<1> DEFINE alarm  == inputs.estop \/ inputs.positive \/ inputs.negative
           seen   == IF alarm THEN EvaluateSync(Publish(w), env) ELSE w
           sought == HomingUpdate(seen, inputs, now)
<1>1. Good(C, Publish(w))
  BY PublishKept, GoodThenKept
<1>2. Good(C, seen)
  BY <1>1, EvaluateSyncGood DEF Good, Honest
<1>3. SeekUpdate(w, now, inputs, env).world
        \in {seen, sought.world, FinishSeek(sought.world, env)}
  BY DEF SeekUpdate
<1> HIDE DEF seen
<1>4. Good(C, sought.world)
  BY <1>2, HomingUpdateKept, GoodThenKept
<1> HIDE DEF sought
<1>5. QED
  BY <1>2, <1>3, <1>4, FinishSeekGood

LEMMA ControlUpdateGood ==
  ASSUME NEW C, 0 \in C, NEW w, Good(C, w), NEW duty \in Duty, NEW now, NEW inputs,
         NEW env \in EnvSet
  PROVE  Good(C, ControlUpdate(w, duty, now, inputs, env).world)
BY SeekUpdateGood, RegularUpdateGood DEF ControlUpdate
=============================================================================
