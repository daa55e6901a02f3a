----------------------------- MODULE AxisProofs -----------------------------
(***************************************************************************)
(* Proofs about Axis, for every register width and every list of           *)
(* scenarios: the closed loop stays in its ranges, neither a wrap of the   *)
(* encoder register nor a new reference shifts what the estimator and a    *)
(* homed axis report, no stall is overlooked and none is seen where the    *)
(* axis works, no seek that works is given up, and nothing drives back     *)
(* into a guarded home switch.                                             *)
(***************************************************************************)
EXTENDS Axis, WellFoundedInduction, TLAPS

(***************************************************************************)
(* Arithmetic modulo the width of a register.                              *)
(***************************************************************************)
LEMMA ModRange ==
  ASSUME NEW w \in Nat \ {0}, NEW x \in Int
  PROVE  x % w \in 0 .. w - 1 /\ x % w \in Int
OBVIOUS

LEMMA Quotient ==
  ASSUME NEW w \in Nat \ {0}, NEW x \in Int
  PROVE  \E q \in Int : x = w * q + (x % w)
<1>1. x = w * (x \div w) + (x % w)
  BY SMTT(60)
<1>2. x \div w \in Int
  OBVIOUS
<1>3. QED
  BY <1>1, <1>2

\* A number has one remainder.
LEMMA UniqueRemainder ==
  ASSUME NEW w \in Nat \ {0}, NEW p \in Int, NEW q \in Int,
         NEW r \in 0 .. w - 1, NEW s \in 0 .. w - 1, w * p + r = w * q + s
  PROVE  r = s
<1>1. w * (p - q) = s - r
  OBVIOUS
<1>2. p - q >= 1 => w * (p - q) >= w
  OBVIOUS
<1>3. p - q <= -1 => w * (p - q) <= -w
  OBVIOUS
<1>4. p - q = 0
  BY <1>1, <1>2, <1>3
<1>5. QED
  BY <1>4

\* Numbers that differ by a multiple of the width have the same remainder.
LEMMA SameRemainder ==
  ASSUME NEW w \in Nat \ {0}, NEW x \in Int, NEW y \in Int, NEW k \in Int, x = y + w * k
  PROVE  x % w = y % w
<1>1. PICK p \in Int : x = w * p + (x % w)
  BY Quotient
<1>2. PICK q \in Int : y = w * q + (y % w)
  BY Quotient
<1> DEFINE r == x % w
           s == y % w
<1>3. r \in 0 .. w - 1 /\ s \in 0 .. w - 1
  BY ModRange
<1> HIDE DEF r, s
<1>4. w * p + r = w * (q + k) + s
  <2> DEFINE a == w * p
             b == w * q
             c == w * k
  <2>1. x = a + r /\ y = b + s /\ x = y + c
    BY <1>1, <1>2 DEF r, s
  <2>2. a \in Int /\ b \in Int /\ c \in Int /\ r \in Int /\ s \in Int
    BY <1>3
  <2>3. w * (q + k) = b + c
    OBVIOUS
  <2> HIDE DEF a, b, c
  <2>4. a + r = (b + c) + s
    BY <2>1, <2>2
  <2>5. QED
    BY <2>3, <2>4 DEF a
<1>5. r = s
  BY <1>3, <1>4, UniqueRemainder
<1>6. QED
  BY <1>5 DEF r, s

\* A remainder in a sum or a difference counts as the number itself.
LEMMA RemainderInSum ==
  ASSUME NEW w \in Nat \ {0}, NEW x \in Int, NEW y \in Int
  PROVE  ((x % w) + y) % w = (x + y) % w /\ (y - (x % w)) % w = (y - x) % w
<1>1. PICK q \in Int : x = w * q + (x % w)
  BY Quotient
<1> DEFINE r == x % w
           b == w * q
           c == w * (-q)
<1>2. r \in Int /\ b \in Int /\ c = -b /\ x = b + r
  BY <1>1, ModRange
<1> HIDE DEF r, b, c
<1>3. x + y = (r + y) + b /\ y - x = (y - r) + c
  BY <1>2
<1>4. (x + y) % w = (r + y) % w
  <2>1. r + y \in Int /\ x + y \in Int
    BY <1>2
  <2>2. QED
    BY <1>3, <2>1, SameRemainder DEF b
<1>5. (y - x) % w = (y - r) % w
  <2>1. y - r \in Int /\ y - x \in Int /\ -q \in Int
    BY <1>2
  <2>2. QED
    BY <1>3, <2>1, SameRemainder DEF c
<1>6. QED
  BY <1>4, <1>5 DEF r

LEMMA OneWidthMore ==
  ASSUME NEW w \in Nat \ {0}, NEW x \in Int
  PROVE  (x + w) % w = x % w /\ (x - w) % w = x % w
<1>1. ASSUME NEW y \in Int, NEW k \in Int
      PROVE  (y + w * k) % w = y % w
  <2>1. y + w * k \in Int
    OBVIOUS
  <2>2. QED
    BY <2>1, SameRemainder, Zenon
<1>2. 1 \in Int /\ x - w \in Int /\ x + w = x + w * 1 /\ (x - w) + w * 1 = x
  OBVIOUS
<1>3. (x + w * 1) % w = x % w
  BY <1>1, <1>2, Zenon
<1>4. ((x - w) + w * 1) % w = (x - w) % w
  BY <1>1, <1>2, Zenon
<1>5. QED
  BY <1>2, <1>3, <1>4, Zenon

LEMMA SmallRemainder ==
  ASSUME NEW w \in Nat \ {0}, NEW x \in 0 .. w - 1
  PROVE  x % w = x
<1>0. x \in Int
  OBVIOUS
<1>1. PICK q \in Int : x = w * q + (x % w)
  BY <1>0, Quotient
<1> DEFINE r == x % w
<1>2. r \in 0 .. w - 1 /\ x = w * q + r
  BY <1>0, <1>1, ModRange
<1> HIDE DEF r
<1>3. w * q = x - r
  BY <1>2
<1>4. q >= 1 => w * q >= w
  OBVIOUS
<1>5. q <= -1 => w * q <= -w
  OBVIOUS
<1>6. q = 0
  BY <1>2, <1>3, <1>4, <1>5
<1>7. x = r
  BY <1>2, <1>6
<1>8. QED
  BY <1>7 DEF r

\* What the register holds of a count below half its range is that count.
LEMMA SignedRemainder ==
  ASSUME NEW x \in Int, -(Word \div 2) < x, x < Word \div 2
  PROVE  Signed(x % Word) = x
<1>1. Word \in Nat \ {0} /\ Word \div 2 \in Int /\ 2 * (Word \div 2) <= Word
  BY AxisAssumption
<1>2. CASE x >= 0
  <2>1. x \in 0 .. Word - 1
    BY <1>1, <1>2
  <2>2. x % Word = x
    BY <1>1, <2>1, SmallRemainder
  <2>3. QED
    BY <2>2 DEF Signed
<1>3. CASE x < 0
  <2>1. x + Word \in 0 .. Word - 1 /\ x + Word \in Int
    BY <1>1, <1>3
  <2>2. (x + Word) % Word = x + Word
    BY <1>1, <2>1, SmallRemainder
  <2>4. (x + Word) % Word = x % Word
    BY <1>1, OneWidthMore
  <2>5. ~(x + Word < Word \div 2) /\ (x + Word) - Word = x
    BY <1>1
  <2>6. QED
    BY <2>2, <2>4, <2>5 DEF Signed
<1>4. QED
  BY <1>2, <1>3

\* Reading bits as a signed count changes them by the width or not at all.
LEMMA SignedInSum ==
  ASSUME NEW x \in 0 .. Word - 1, NEW y \in Int
  PROVE  /\ Signed(x) \in Int
         /\ (Signed(x) + y) % Word = (x + y) % Word
         /\ (y - Signed(x)) % Word = (y - x) % Word
<1>1. Word \in Nat \ {0} /\ Word \div 2 \in Int
  BY AxisAssumption
<1>2. CASE x < Word \div 2
  BY <1>2 DEF Signed
<1>3. CASE ~(x < Word \div 2)
  <2>1. Signed(x) = x - Word
    BY <1>3 DEF Signed
  <2>2. x - Word \in Int /\ x + y \in Int /\ y - x \in Int
    BY <1>1
  <2>3. (x - Word) + y = (x + y) - Word /\ y - (x - Word) = (y - x) + Word
    BY <1>1
  <2>4. ((x + y) - Word) % Word = (x + y) % Word /\ ((y - x) + Word) % Word = (y - x) % Word
    BY <1>1, <2>2, OneWidthMore
  <2>5. QED
    BY <2>1, <2>2, <2>3, <2>4
<1>4. QED
  BY <1>2, <1>3

----------------------------------------------------------------------------
(***************************************************************************)
(* Induction, for the steps of the plant: a set that holds 0 and the next  *)
(* of each of its numbers holds them all.                                  *)
(***************************************************************************)
LEMMA LeastMember ==
  ASSUME NEW T, T \subseteq Nat, T # {}
  PROVE  \E x \in T : \A y \in T : x <= y
<1>1. \E x \in T : \A y \in T : ~ (<<y, x>> \in OpToRel(<, Nat))
  BY WFMin, NatLessThanWellFounded
<1>2. PICK x \in T : \A y \in T : ~ (<<y, x>> \in OpToRel(<, Nat))
  BY <1>1
<1>3. \A y \in T : <<y, x>> \in Nat \X Nat
  BY <1>2
<1>4. \A y \in T : ~(y < x)
  BY <1>2, <1>3 DEF OpToRel
<1>5. QED
  BY <1>4

LEMMA Induct ==
  ASSUME NEW S, 0 \in S, \A n \in Nat : n \in S => n + 1 \in S
  PROVE  Nat \subseteq S
<1> SUFFICES ASSUME Nat \ S # {} PROVE FALSE
  OBVIOUS
<1>1. PICK m \in Nat \ S : \A n \in Nat \ S : m <= n
  BY LeastMember
<1>2. m - 1 \in Nat /\ m - 1 \in S
  BY <1>1
<1>3. QED
  BY <1>2

----------------------------------------------------------------------------
(***************************************************************************)
(* The plant stays on its travel.                                          *)
(***************************************************************************)
PlantRecord ==
  [position : Int, velocity : -MaxVelocity .. MaxVelocity, min : Int, max : Int]

Confined(plant) == plant \in PlantRecord /\ plant.position \in plant.min .. plant.max

SameTravel(after, plant) == after.min = plant.min /\ after.max = plant.max

LEMMA RoundType ==
  ASSUME NEW n \in Int, NEW d \in Nat \ {0}
  PROVE  Round(n, d) \in Int
<1>1. 2 * d \in Nat \ {0} /\ 2 * n + d \in Int /\ 2 * (-n) + d \in Int
  OBVIOUS
<1>2. (2 * n + d) \div (2 * d) \in Int /\ (2 * (-n) + d) \div (2 * d) \in Int
  BY <1>1
<1>3. QED
  BY <1>2 DEF Round

LEMMA ClampRange ==
  ASSUME NEW n \in Int, NEW low \in Int, NEW high \in Int, low <= high
  PROVE  Clamp(n, low, high) \in low .. high
BY DEF Clamp

LEMMA AcceleratedRange ==
  ASSUME NEW velocity \in Int, NEW duty \in Int
  PROVE  Accelerated(velocity, duty) \in -MaxVelocity .. MaxVelocity
<1> DEFINE next == velocity + Round(200 * duty - 4 * velocity, 1000)
<1>1. 200 * duty - 4 * velocity \in Int
  OBVIOUS
<1>2. Round(200 * duty - 4 * velocity, 1000) \in Int
  BY <1>1, RoundType
<1>3. next \in Int
  BY <1>2
<1>4. MaxVelocity \in Int /\ -MaxVelocity \in Int /\ -MaxVelocity <= MaxVelocity
  BY DEF MaxVelocity, Unit
<1> HIDE DEF next
<1>5. Clamp(next, -MaxVelocity, MaxVelocity) \in -MaxVelocity .. MaxVelocity
  BY <1>3, <1>4, ClampRange
<1>6. QED
  BY <1>5 DEF Accelerated, next

\* One step: the stops hold the axis, whatever the duty.
LEMMA PlantStepConfined ==
  ASSUME NEW plant, Confined(plant), NEW duty \in Int
  PROVE  Confined(PlantStep(plant, duty)) /\ SameTravel(PlantStep(plant, duty), plant)
<1> DEFINE velocity == Accelerated(plant.velocity, duty)
           moved == IF broken = "STALLED" THEN [plant EXCEPT !.velocity = 0]
                    ELSE [plant EXCEPT !.velocity = velocity,
                                       !.position = @ + Round(velocity, 1000)]
<1>1. MaxVelocity \in Nat
  BY DEF MaxVelocity, Unit
<1>2. plant \in PlantRecord /\ plant.min <= plant.max /\ plant.velocity \in Int
  BY <1>1 DEF Confined, PlantRecord
<1>3. velocity \in -MaxVelocity .. MaxVelocity /\ Round(velocity, 1000) \in Int
  <2>1. velocity \in -MaxVelocity .. MaxVelocity
    BY <1>2, AcceleratedRange
  <2>2. velocity \in Int
    BY <1>1, <2>1
  <2>3. QED
    BY <2>1, <2>2, RoundType
<1>4. moved \in PlantRecord /\ SameTravel(moved, plant)
  <2> DEFINE shift == Round(velocity, 1000)
             place == plant.position + shift
  <2>0. shift \in Int
    BY <1>3
  <2>4. place \in Int
    BY <1>2, <2>0 DEF PlantRecord
  <2> HIDE DEF velocity, shift, place
  <2>1. [plant EXCEPT !.velocity = 0] \in PlantRecord
    BY <1>1, <1>2 DEF PlantRecord
  <2>2. [plant EXCEPT !.velocity = velocity, !.position = place] \in PlantRecord
    BY <1>2, <1>3, <2>4 DEF PlantRecord
  <2>3. QED
    BY <1>2, <2>1, <2>2 DEF PlantRecord, SameTravel, shift, place
<1> HIDE DEF moved
<1>5. moved.position \in Int /\ moved.min \in Int /\ moved.max \in Int /\ moved.min <= moved.max
  BY <1>2, <1>4 DEF PlantRecord, SameTravel
<1>6. Clamp(moved.position, moved.min, moved.max) \in moved.min .. moved.max
  BY <1>5, ClampRange
<1>7. StopAtEnds(moved) \in PlantRecord /\ SameTravel(StopAtEnds(moved), moved)
      /\ StopAtEnds(moved).position = Clamp(moved.position, moved.min, moved.max)
  <2> DEFINE stop == Clamp(moved.position, moved.min, moved.max)
             speed == IF (moved.position <= moved.min /\ moved.velocity < 0)
                           \/ (moved.position >= moved.max /\ moved.velocity > 0)
                      THEN 0 ELSE moved.velocity
  <2>1. StopAtEnds(moved) = [moved EXCEPT !.position = stop, !.velocity = speed]
    BY <1>4 DEF StopAtEnds, PlantRecord
  <2>2. stop \in Int /\ speed \in -MaxVelocity .. MaxVelocity
    <3>1. stop \in Int
      BY <1>5, <1>6
    <3>2. moved.velocity \in -MaxVelocity .. MaxVelocity /\ 0 \in -MaxVelocity .. MaxVelocity
      BY <1>1, <1>4 DEF PlantRecord
    <3>3. QED
      BY <3>1, <3>2
  <2> HIDE DEF stop, speed
  <2>3. QED
    BY <1>4, <2>1, <2>2 DEF PlantRecord, SameTravel, stop
<1>8. PlantStep(plant, duty) = StopAtEnds(moved)
  BY DEF PlantStep, moved
<1>9. QED
  BY <1>4, <1>6, <1>7, <1>8 DEF Confined, SameTravel

\* The steps of the plant, one after the other, are defined for every number of
\* them.
Stepped(f, plant, duty, n) ==
  f = [i \in 0 .. n |-> IF i = 0 THEN plant ELSE PlantStep(f[i - 1], duty)]

LEMMA StepsExist ==
  ASSUME NEW plant, NEW duty, NEW count \in Nat
  PROVE  \E f : Stepped(f, plant, duty, count)
<1> USE DEF Stepped
<1> DEFINE Upto(n, f) == Stepped(f, plant, duty, n)
           S == {n \in Nat : \E f : Upto(n, f)}
<1>1. 0 \in S
  <2> DEFINE f == [i \in 0 .. 0 |-> plant]
  <2>1. f = [i \in 0 .. 0 |-> IF i = 0 THEN plant ELSE PlantStep(f[i - 1], duty)]
    OBVIOUS
  <2>2. QED
    BY <2>1
<1>2. ASSUME NEW n \in Nat, n \in S
      PROVE  n + 1 \in S
  <2>1. PICK f : Upto(n, f)
    BY <1>2
  <2> DEFINE g == [i \in 0 .. n + 1 |-> IF i <= n THEN f[i] ELSE PlantStep(f[n], duty)]
  <2>2. DOMAIN g = 0 .. n + 1 /\ \A i \in 0 .. n : g[i] = f[i]
    OBVIOUS
  <2>3. ASSUME NEW i \in 0 .. n + 1
        PROVE  g[i] = IF i = 0 THEN plant ELSE PlantStep(g[i - 1], duty)
    <3>1. CASE i = 0
      <4>1. 0 \in 0 .. n /\ f[0] = plant
        BY <2>1
      <4>2. QED
        BY <2>2, <3>1, <4>1
    <3>2. CASE i # 0 /\ i <= n
      <4>1. i \in 0 .. n /\ i - 1 \in 0 .. n /\ f[i] = PlantStep(f[i - 1], duty)
        BY <2>1, <3>2
      <4>2. QED
        BY <2>2, <3>2, <4>1
    <3>3. CASE i = n + 1
      <4>1. i - 1 = n /\ n \in 0 .. n /\ i # 0 /\ ~(i <= n)
        BY <3>3
      <4>2. QED
        BY <2>2, <4>1
    <3>4. QED
      BY <3>1, <3>2, <3>3
  <2>4. g = [i \in 0 .. n + 1 |-> IF i = 0 THEN plant ELSE PlantStep(g[i - 1], duty)]
    <3>1. g = [i \in 0 .. n + 1 |-> g[i]]
      OBVIOUS
    <3> HIDE DEF g
    <3>2. QED
      BY <2>3, <3>1
  <2>5. Upto(n + 1, g)
    BY <2>4
  <2>6. n + 1 \in Nat
    OBVIOUS
  <2> HIDE DEF Upto, g
  <2>7. QED
    BY <2>5, <2>6
<1>3. Nat \subseteq S
  <2> HIDE DEF S
  <2>1. QED
    BY <1>1, <1>2, Induct
<1>4. QED
  BY <1>3

LEMMA StepsAre ==
  ASSUME NEW plant, NEW duty, NEW count \in Nat
  PROVE  \E after : /\ Stepped(after, plant, duty, count)
                    /\ PlantSteps(plant, duty, count) = after[count]
<1> DEFINE after == CHOOSE f : f = [i \in 0 .. count |->
                                     IF i = 0 THEN plant ELSE PlantStep(f[i - 1], duty)]
<1>1. PICK f : Stepped(f, plant, duty, count)
  BY StepsExist
<1>2. after = [i \in 0 .. count |-> IF i = 0 THEN plant ELSE PlantStep(after[i - 1], duty)]
  BY <1>1, Zenon DEF Stepped
<1>3. PlantSteps(plant, duty, count) = after[count]
  BY Zenon DEF PlantSteps
<1>4. QED
  BY <1>2, <1>3, Zenon DEF Stepped

\* However many steps, the axis stays on its travel.
LEMMA PlantStepsConfined ==
  ASSUME NEW plant, Confined(plant), NEW duty \in Int, NEW count \in Nat
  PROVE  /\ Confined(PlantSteps(plant, duty, count))
         /\ SameTravel(PlantSteps(plant, duty, count), plant)
<1>0. PICK after : /\ Stepped(after, plant, duty, count)
                   /\ PlantSteps(plant, duty, count) = after[count]
  BY StepsAre
<1>1. /\ after = [i \in 0 .. count |-> IF i = 0 THEN plant ELSE PlantStep(after[i - 1], duty)]
      /\ PlantSteps(plant, duty, count) = after[count]
  BY <1>0 DEF Stepped
<1> DEFINE Good(p) == Confined(p) /\ SameTravel(p, plant)
           S == {n \in Nat : n <= count => Good(after[n])}
<1>2. Good(plant)
  BY DEF SameTravel
<1>3. ASSUME NEW p, Good(p)
      PROVE  Good(PlantStep(p, duty))
  BY <1>3, PlantStepConfined DEF SameTravel
<1> HIDE DEF Good
<1>4. 0 \in S
  <2>1. after[0] = plant
    BY <1>1
  <2>2. QED
    BY <1>2, <2>1
<1>5. ASSUME NEW n \in Nat, n \in S
      PROVE  n + 1 \in S
  <2>1. SUFFICES ASSUME n + 1 <= count
                 PROVE  Good(after[n + 1])
    OBVIOUS
  <2>2. n + 1 \in 0 .. count /\ n + 1 # 0 /\ (n + 1) - 1 = n
    BY <2>1
  <2>3. after[n + 1] = PlantStep(after[n], duty)
    BY <1>1, <2>2
  <2>4. Good(after[n])
    BY <1>5, <2>1
  <2>5. QED
    BY <1>3, <2>3, <2>4
<1>6. Nat \subseteq S
  <2> HIDE DEF S
  <2>1. QED
    BY <1>4, <1>5, Induct
<1>7. Good(after[count])
  BY <1>6
<1>8. QED
  BY <1>1, <1>7 DEF Good

----------------------------------------------------------------------------
(***************************************************************************)
(* What the controller does to an axis between two cycles of the plant:    *)
(* it keeps the types, and leaves the plant, the register and the estimate *)
(* alone but for the new reference that homing sets.                       *)
(***************************************************************************)
Faults == {"NONE", "INTERNAL", "HOMING_TIMEOUT", "POSITIVE_LIMIT", "NEGATIVE_LIMIT", "NO_MOTION"}

Fields ==
  {"plant", "register", "offset", "duty", "state", "fault", "position", "previous", "velocity",
   "sampled", "target", "stable", "integral", "measured", "seeded", "seek", "homed",
   "homeContact", "still", "even"}

Typed(a) ==
  /\ DOMAIN a = Fields
  /\ a.plant \in PlantRecord /\ a.register \in 0 .. Word - 1 /\ a.offset \in 0 .. Word - 1
  /\ a.duty \in Int /\ a.state \in AxisStates /\ a.fault \in Faults
  /\ a.position \in Int /\ a.previous \in Int /\ a.velocity \in Int /\ a.sampled \in BOOLEAN
  /\ a.target \in Int /\ a.stable \in 0 .. DwellCycles
  /\ a.integral \in -MaxIntegral .. MaxIntegral /\ a.measured \in Int /\ a.seeded \in BOOLEAN
  /\ a.seek \in Nat /\ a.homed \in BOOLEAN /\ a.homeContact \in BOOLEAN
  /\ a.still \in Nat /\ a.even \in BOOLEAN

\* A dwell that is still running has cycles left.
Sound(a) ==
  /\ Typed(a)
  /\ a.state \in {"MOVING", "STOPPING"} => a.stable < DwellCycles

\* b is a with another state of the controller.
Kept(b, a) ==
  /\ b.plant = a.plant /\ b.register = a.register /\ b.offset = a.offset
  /\ b.previous = a.previous /\ b.velocity = a.velocity
  /\ b.sampled = a.sampled /\ (b.homed => a.homed)
  /\ b.duty = a.duty \/ b.duty \in -MaxDuty .. MaxDuty

\* b is a with the reference that homing sets at the switch.
Referenced(b, a) ==
  /\ b.plant = a.plant /\ b.register = a.register /\ b.offset = (0 - a.register) % Word
  /\ ~b.sampled /\ b.homed /\ AtMin(a.plant)
  /\ b.duty \in -MaxDuty .. MaxDuty

\* Without a command an axis at rest stays at rest.
Rests(b, a) == Ended(a) => Ended(b)

Obeys(b, a) == Sound(b) /\ Kept(b, a)

LEMMA Ranges ==
  /\ MaxDuty \in Nat /\ 0 \in -MaxDuty .. MaxDuty /\ -MaxDuty \in Int /\ -MaxDuty <= MaxDuty
  /\ HomingDuty \in -MaxDuty .. MaxDuty
  /\ MaxIntegral \in Nat /\ 0 \in -MaxIntegral .. MaxIntegral
  /\ -MaxIntegral \in Int /\ -MaxIntegral <= MaxIntegral
  /\ DwellCycles \in Nat /\ 0 < DwellCycles
<1>1. MaxDuty \in Nat /\ MaxIntegral \in Nat
  BY SMT DEF MaxDuty, MaxIntegral
<1>2. HomingDuty \in Int /\ HomingDuty <= MaxDuty /\ HomingDuty >= -MaxDuty
  BY SMT DEF HomingDuty, MaxDuty
<1>3. DwellCycles \in Nat /\ 0 < DwellCycles
  BY SMT DEF DwellCycles
<1>4. QED
  BY <1>1, <1>2, <1>3, SMT

LEMMA KeptFollows ==
  ASSUME NEW a, NEW b, NEW c, Kept(b, a), Kept(c, b)
  PROVE  Kept(c, a)
BY DEF Kept

LEMMA ParkedObeys ==
  ASSUME NEW a, Typed(a)
  PROVE  /\ Typed(Parked(a)) /\ Kept(Parked(a), a)
         /\ Parked(a).state = a.state /\ Parked(a).stable = a.stable /\ Parked(a).fault = a.fault
BY Ranges DEF Parked, Typed, Fields, Kept

LEMMA PidResetObeys ==
  ASSUME NEW a, Typed(a)
  PROVE  /\ Typed(PidReset(a)) /\ Kept(PidReset(a), a)
         /\ PidReset(a).state = a.state /\ PidReset(a).stable = a.stable
BY Ranges DEF PidReset, Typed, Fields, Kept

LEMMA TrippedObeys ==
  ASSUME NEW a, Typed(a), NEW fault \in Faults
  PROVE  /\ Typed(Tripped(a, fault)) /\ Kept(Tripped(a, fault), a)
         /\ Tripped(a, fault).state = a.state /\ Tripped(a, fault).stable = a.stable
BY Ranges DEF Tripped, Parked, Typed, Fields, Kept

LEMMA ClearControlObeys ==
  ASSUME NEW a, Typed(a)
  PROVE  /\ Typed(ClearControl(a)) /\ Kept(ClearControl(a), a)
         /\ ClearControl(a).state = a.state /\ ClearControl(a).fault = a.fault
         /\ ClearControl(a).stable = 0 /\ ClearControl(a).duty = 0
BY Ranges DEF ClearControl, PidReset, Parked, Typed, Fields, Kept

LEMMA SyncedObeys ==
  ASSUME NEW a, Sound(a)
  PROVE  Obeys(Synced(a), a) /\ Rests(Synced(a), a)
<1>1. CASE a.fault = "NONE"
  BY <1>1 DEF Synced, Obeys, Kept, Rests
<1>2. CASE a.fault # "NONE"
  <2> DEFINE b == ClearControl(a)
  <2>1. Typed(b) /\ Kept(b, a)
    BY ClearControlObeys DEF Sound
  <2> HIDE DEF b
  <2>2. /\ Typed([b EXCEPT !.state = "FAULT"])
        /\ [b EXCEPT !.state = "FAULT"].state = "FAULT" /\ Kept([b EXCEPT !.state = "FAULT"], b)
    BY <2>1 DEF Typed, Fields, AxisStates, Kept
  <2>3. Synced(a) = [b EXCEPT !.state = "FAULT"]
    BY <1>2 DEF Synced, b
  <2>4. QED
    BY <2>1, <2>2, <2>3, KeptFollows DEF Obeys, Sound, Rests, Ended
<1>3. QED
  BY <1>1, <1>2

LEMMA MoveObeys ==
  ASSUME NEW a, Typed(a), NEW target \in Int
  PROVE  Obeys(Move(a, target), a)
<1> DEFINE b == Parked(a)
           c == PidReset(b)
           d == [c EXCEPT !.target = target, !.state = "MOVING", !.stable = 0,
                          !.measured = a.position, !.seeded = TRUE]
<1>1. Typed(b) /\ Kept(b, a)
  BY ParkedObeys
<1> HIDE DEF b
<1>2. Typed(c) /\ Kept(c, b)
  BY <1>1, PidResetObeys
<1> HIDE DEF c
<1>3. a.position \in Int
  BY DEF Typed
<1>4. Typed(d) /\ Kept(d, c) /\ d.stable = 0
  BY <1>2, <1>3, Ranges DEF Typed, Fields, AxisStates, Kept
<1>5. Move(a, target) = d
  BY DEF Move, b, c
<1> HIDE DEF d
<1>6. Kept(d, a)
  BY <1>1, <1>2, <1>4, KeptFollows
<1>7. QED
  BY <1>4, <1>5, <1>6, Ranges DEF Obeys, Sound

\* pid_update keeps within its limits.
LEMMA DriveObeys ==
  ASSUME NEW a, Sound(a)
  PROVE  Obeys(Drive(a), a) /\ Drive(a).state = a.state
<1> DEFINE error    == a.target - a.position
           integral == Clamp(a.integral + 2 * error, -MaxIntegral, MaxIntegral)
           output   == Clamp(6000 * error + integral + Derivative(a), -MaxDuty, MaxDuty)
           b        == [a EXCEPT !.duty = output, !.integral = integral,
                                 !.measured = a.position, !.seeded = TRUE]
<1>1. error \in Int /\ a.integral \in Int /\ a.position \in Int /\ a.measured \in Int
  BY Ranges DEF Sound, Typed
<1>2. Derivative(a) \in Int
  BY <1>1 DEF Derivative
<1>3. integral \in -MaxIntegral .. MaxIntegral /\ integral \in Int
  <2> DEFINE sum == a.integral + 2 * error
  <2>1. sum \in Int
    BY <1>1
  <2> HIDE DEF sum
  <2>2. Clamp(sum, -MaxIntegral, MaxIntegral) \in -MaxIntegral .. MaxIntegral
    BY <2>1, Ranges, ClampRange
  <2>3. QED
    BY <2>2, Ranges DEF sum
<1>4. output \in -MaxDuty .. MaxDuty /\ output \in Int
  <2> HIDE DEF error, integral
  <2> DEFINE sum == 6000 * error + integral + Derivative(a)
  <2>1. sum \in Int
    BY <1>1, <1>2, <1>3
  <2> HIDE DEF sum
  <2>2. Clamp(sum, -MaxDuty, MaxDuty) \in -MaxDuty .. MaxDuty
    BY <2>1, Ranges, ClampRange
  <2>3. QED
    BY <2>2, Ranges DEF sum
<1>5. Drive(a) = b
  BY DEF Drive
<1> HIDE DEF integral, output
<1>6. Typed(b) /\ Kept(b, a) /\ b.state = a.state /\ b.stable = a.stable
  BY <1>1, <1>3, <1>4 DEF Sound, Typed, Fields, Kept
<1>7. QED
  BY <1>5, <1>6 DEF Obeys, Sound

\* The dwell runs to its end and no further.
LEMMA DweltObeys ==
  ASSUME NEW a, Sound(a)
  PROVE  Obeys(Dwelt(a), a) /\ Rests(Dwelt(a), a)
<1> DEFINE stable == IF InBand(a) THEN a.stable + 1 ELSE 0
           reset  == PidReset(a)
<1>1. CASE a.state \notin {"MOVING", "STOPPING"}
  BY <1>1 DEF Dwelt, Obeys, Kept, Rests
<1>2. CASE a.state \in {"MOVING", "STOPPING"}
  <2>1. stable \in 0 .. DwellCycles
    BY <1>2, Ranges DEF Sound, Typed
  <2>2. Typed(reset) /\ Kept(reset, a)
    BY PidResetObeys DEF Sound
  <2>3. ~Ended(a)
    BY <1>2 DEF Ended
  <2> HIDE DEF stable, reset
  <2>4. CASE stable >= DwellCycles
    <3> DEFINE b == [reset EXCEPT !.stable = stable, !.state = "IDLE"]
    <3>1. Dwelt(a) = b
      BY <1>2, <2>4 DEF Dwelt, stable, reset
    <3>2. Typed(b) /\ Kept(b, reset) /\ b.state = "IDLE"
      BY <2>1, <2>2 DEF Typed, Fields, AxisStates, Kept
    <3> HIDE DEF b
    <3>3. QED
      BY <2>2, <2>3, <3>1, <3>2, KeptFollows DEF Obeys, Sound, Rests
  <2>5. CASE ~(stable >= DwellCycles)
    <3> DEFINE b == [a EXCEPT !.stable = stable]
    <3>1. Dwelt(a) = b
      BY <1>2, <2>5 DEF Dwelt, stable
    <3>2. Typed(b) /\ Kept(b, a) /\ b.stable = stable
      BY <2>1 DEF Sound, Typed, Fields, Kept
    <3>3. stable < DwellCycles
      BY <2>1, <2>5, Ranges
    <3> HIDE DEF b
    <3>4. QED
      BY <2>3, <3>1, <3>2, <3>3 DEF Obeys, Sound, Rests
  <2>6. QED
    BY <2>4, <2>5
<1>3. QED
  BY <1>1, <1>2

LEMMA MotionUpdateObeys ==
  ASSUME NEW a, Sound(a)
  PROVE  Obeys(MotionUpdate(a), a) /\ Rests(MotionUpdate(a), a)
<1> DEFINE dwelt == Dwelt(a)
<1>1. Sound(dwelt) /\ Kept(dwelt, a) /\ Rests(dwelt, a)
  BY DweltObeys DEF Obeys
<1>2. MotionUpdate(a) = IF dwelt.state = "MOVING" THEN Drive(dwelt) ELSE Parked(dwelt)
  BY DEF MotionUpdate
<1> HIDE DEF dwelt
<1>3. CASE dwelt.state = "MOVING"
  BY <1>1, <1>2, <1>3, DriveObeys, KeptFollows DEF Obeys, Rests, Ended
<1>4. CASE dwelt.state # "MOVING"
  BY <1>1, <1>2, <1>4, ParkedObeys, KeptFollows DEF Obeys, Sound, Rests, Ended
<1>5. QED
  BY <1>3, <1>4

\* The latch and the inhibit leave the state to Motion.
LEMMA SafetyObeys ==
  ASSUME NEW a, Sound(a)
  PROVE  Obeys(Safety(a), a) /\ Safety(a).state = a.state
<1> DEFINE resists == Resisting(a) /\ ~(a.state = "HOMING" /\ AtMin(a.plant))
           still   == IF ~resists THEN 0 ELSE IF a.still = 0 THEN 1 ELSE a.still
           contact == a.homeContact /\ AtMin(a.plant)
           watched == [a EXCEPT !.still = still, !.homeContact = contact]
<1>1. still \in Nat /\ contact \in BOOLEAN
  BY DEF Sound, Typed
<1> HIDE DEF still, contact
<1>2. Typed(watched) /\ Kept(watched, a) /\ watched.state = a.state /\ watched.stable = a.stable
  BY <1>1 DEF Sound, Typed, Fields, Kept
<1>3. \/ Safety(a) = a \/ Safety(a) = watched
      \/ \E fault \in {"POSITIVE_LIMIT", "NEGATIVE_LIMIT", "NO_MOTION"} :
           Safety(a) = Tripped(watched, fault)
  <2> DEFINE contactAt == UnexpectedContact(a)
             latched == a.fault # "NONE"
             top == AtMax(a.plant)
  <2> HIDE DEF watched, contactAt, latched, top
  <2>1. Safety(a) = CASE latched -> a
                      [] ~latched /\ top -> Tripped(watched, "POSITIVE_LIMIT")
                      [] ~latched /\ ~top /\ contactAt -> Tripped(watched, "NEGATIVE_LIMIT")
                      [] ~latched /\ ~top /\ ~contactAt ->
                           IF watched.still > StallTimeout THEN Tripped(watched, "NO_MOTION") ELSE watched
    BY DEF Safety, watched, still, contact, contactAt, latched, top
  <2>2. QED
    BY <2>1
<1> HIDE DEF watched
<1>4. ASSUME NEW fault \in {"POSITIVE_LIMIT", "NEGATIVE_LIMIT", "NO_MOTION"}
      PROVE  Obeys(Tripped(watched, fault), a) /\ Tripped(watched, fault).state = a.state
  <2>1. fault \in Faults
    BY DEF Faults
  <2>2. QED
    BY <1>2, <2>1, TrippedObeys, KeptFollows DEF Obeys, Sound
<1>5. Obeys(a, a) /\ Obeys(watched, a)
  BY <1>2 DEF Obeys, Sound, Kept
<1>6. QED
  BY <1>2, <1>3, <1>4, <1>5

LEMMA CheckedObeys ==
  ASSUME NEW a, Sound(a)
  PROVE  Obeys(Checked(a), a) /\ Rests(Checked(a), a)
BY SafetyObeys, SyncedObeys, KeptFollows DEF Checked, Obeys, Rests, Ended

LEMMA TrippedAndSynced ==
  ASSUME NEW a, Sound(a), NEW fault \in Faults
  PROVE  Obeys(Synced(Tripped(a, fault)), a)
<1>1. Sound(Tripped(a, fault)) /\ Kept(Tripped(a, fault), a)
  BY TrippedObeys DEF Sound
<1>2. QED
  BY <1>1, SyncedObeys, KeptFollows DEF Obeys

\* The seek leaves the estimate alone, or has found the switch.
LEMMA HomingUpdateObeys ==
  ASSUME NEW a, Sound(a), a.state = "HOMING"
  PROVE  \/ Obeys(HomingUpdate(a), a)
         \/ Sound(HomingUpdate(a)) /\ Referenced(HomingUpdate(a), a)
<1>1. CASE AtMax(a.plant)
  BY <1>1, TrippedAndSynced DEF HomingUpdate, Faults
<1>2. CASE ~AtMax(a.plant) /\ a.seek >= HomingTimeout
  BY <1>2, TrippedAndSynced DEF HomingUpdate, Faults
<1>3. CASE ~AtMax(a.plant) /\ ~(a.seek >= HomingTimeout) /\ AtMin(a.plant)
  <2> DEFINE b == ClearControl(a)
             c == SetReference(b, 0)
             d == [c EXCEPT !.position = 0, !.target = 0, !.previous = 0, !.velocity = 0,
                            !.sampled = FALSE, !.state = "IDLE", !.homeContact = TRUE,
                            !.homed = TRUE]
  <2>1. HomingUpdate(a) = d
    BY <1>3 DEF HomingUpdate
  <2>2. Typed(b) /\ Kept(b, a) /\ b.duty = 0
    BY ClearControlObeys DEF Sound
  <2> HIDE DEF b
  <2>3. (0 - b.register) % Word \in 0 .. Word - 1
    <3>1. Word \in Nat \ {0} /\ 0 - b.register \in Int
      BY <2>2, AxisAssumption DEF Typed
    <3>2. QED
      BY <3>1, ModRange
  <2>4. /\ Typed(c) /\ c.offset = (0 - b.register) % Word /\ c.register = b.register
        /\ c.plant = b.plant /\ c.duty = 0
    <3> DEFINE offset == (0 - b.register) % Word
    <3>1. offset \in 0 .. Word - 1 /\ c = [b EXCEPT !.offset = offset]
      BY <2>3 DEF SetReference
    <3> HIDE DEF offset, c
    <3>2. QED
      BY <2>2, <3>1 DEF Typed, Fields, offset
  <2> HIDE DEF c
  <2>5. /\ Typed(d) /\ d.offset = c.offset /\ d.register = c.register /\ d.plant = c.plant
        /\ d.duty = 0 /\ d.sampled = FALSE /\ d.homed = TRUE /\ d.state = "IDLE"
    BY <2>4 DEF Typed, Fields, AxisStates
  <2> HIDE DEF d
  <2>6. Sound(d) /\ Referenced(d, a)
    BY <1>3, <2>2, <2>4, <2>5, Ranges DEF Sound, Referenced, Kept
  <2>7. QED
    BY <2>1, <2>6
<1>4. CASE ~AtMax(a.plant) /\ ~(a.seek >= HomingTimeout) /\ ~AtMin(a.plant)
  <2> DEFINE next == a.seek + 1
             b == [a EXCEPT !.duty = HomingDuty, !.seek = next]
  <2>1. HomingUpdate(a) = b
    BY <1>4 DEF HomingUpdate
  <2>2. next \in Nat /\ HomingDuty \in Int
    BY Ranges DEF Sound, Typed
  <2> HIDE DEF next
  <2>3. Typed(b) /\ Kept(b, a) /\ b.state = a.state
    BY <2>2, Ranges DEF Sound, Typed, Fields, Kept
  <2> HIDE DEF b
  <2>4. QED
    BY <2>1, <2>3 DEF Obeys, Sound
<1>5. QED
  BY <1>1, <1>2, <1>3, <1>4

\* A command Motion can be given: a move says where to.
Understood(next) == next.type \in {"MOVE", "MOVE_REL"} => next.value \in Int

LEMMA SeekObeys ==
  ASSUME NEW a, Sound(a)
  PROVE  Obeys([ClearControl(a) EXCEPT !.state = "HOMING", !.seek = 0, !.homed = FALSE], a)
<1> DEFINE b == ClearControl(a)
           c == [b EXCEPT !.state = "HOMING", !.seek = 0, !.homed = FALSE]
<1>1. Typed(b) /\ Kept(b, a)
  BY ClearControlObeys DEF Sound
<1> HIDE DEF b
<1>2. Typed(c) /\ Kept(c, b) /\ c.state = "HOMING"
  BY <1>1 DEF Typed, Fields, AxisStates, Kept
<1> HIDE DEF c
<1>3. Obeys(c, a)
  BY <1>1, <1>2, KeptFollows DEF Obeys, Sound
<1>4. QED
  BY <1>3 DEF c, b

LEMMA StopObeys ==
  ASSUME NEW a, Sound(a)
  PROVE  /\ Obeys([ClearControl(a) EXCEPT !.state = "STOPPING"], a)
         /\ Obeys([PidReset(Parked(a)) EXCEPT !.state = "STOPPING", !.stable = 0], a)
<1>1. ASSUME NEW b, Typed(b), Kept(b, a), b.stable = 0
      PROVE  Obeys([b EXCEPT !.state = "STOPPING"], a)
  <2> DEFINE c == [b EXCEPT !.state = "STOPPING"]
  <2>1. Typed(c) /\ Kept(c, b) /\ c.stable = 0
    BY <1>1 DEF Typed, Fields, AxisStates, Kept
  <2> HIDE DEF c
  <2>2. Obeys(c, a)
    BY <1>1, <2>1, Ranges, KeptFollows DEF Obeys, Sound
  <2>3. QED
    BY <2>2 DEF c
<1>2. ASSUME NEW b, Typed(b), Kept(b, a)
      PROVE  Obeys([b EXCEPT !.state = "STOPPING", !.stable = 0], a)
  <2> DEFINE c == [b EXCEPT !.state = "STOPPING", !.stable = 0]
  <2>1. Typed(c) /\ Kept(c, b) /\ c.stable = 0
    BY <1>2, Ranges DEF Typed, Fields, AxisStates, Kept
  <2> HIDE DEF c
  <2>2. Obeys(c, a)
    BY <1>2, <2>1, Ranges, KeptFollows DEF Obeys, Sound
  <2>3. QED
    BY <2>2 DEF c
<1>3. Typed(ClearControl(a)) /\ Kept(ClearControl(a), a) /\ ClearControl(a).stable = 0
  BY ClearControlObeys DEF Sound
<1>4. Typed(PidReset(Parked(a))) /\ Kept(PidReset(Parked(a)), a)
  <2>1. Typed(Parked(a)) /\ Kept(Parked(a), a)
    BY ParkedObeys DEF Sound
  <2>2. QED
    BY <2>1, PidResetObeys, KeptFollows
<1>5. QED
  BY <1>1, <1>2, <1>3, <1>4

\* A command gives the controller something to do, and no more.
LEMMA MotionCommandObeys ==
  ASSUME NEW a, Sound(a), NEW next, Understood(next)
  PROVE  Obeys(MotionCommand(a, next), a)
<1>1. Obeys(a, a)
  BY DEF Obeys, Kept
<1>2. CASE next.type \in {"MOVE", "MOVE_REL"}
  <2> DEFINE target == Target(a, next)
  <2>1. target \in Int
    BY <1>2 DEF Target, Understood, Sound, Typed
  <2> HIDE DEF target
  <2>2. Obeys(Move(a, target), a)
    BY <2>1, MoveObeys DEF Sound
  <2>3. Obeys(Checked(Move(a, target)), a)
    BY <2>2, CheckedObeys, KeptFollows DEF Obeys
  <2>4. \/ MotionCommand(a, next) = Checked(Move(a, target))
        \/ MotionCommand(a, next) = Move(a, target)
        \/ MotionCommand(a, next) = a
    BY <1>2 DEF MotionCommand, target
  <2>5. QED
    BY <1>1, <2>2, <2>3, <2>4
<1>3. CASE next.type = "HOME"
  <2> DEFINE b == [ClearControl(a) EXCEPT !.state = "HOMING", !.seek = 0, !.homed = FALSE]
  <2>1. Obeys(b, a)
    BY SeekObeys
  <2>2. MotionCommand(a, next) = Checked(b) \/ MotionCommand(a, next) = a
    BY <1>3 DEF MotionCommand
  <2> HIDE DEF b
  <2>3. Obeys(Checked(b), a)
    BY <2>1, CheckedObeys, KeptFollows DEF Obeys
  <2>4. QED
    BY <1>1, <2>2, <2>3
<1>4. CASE next.type = "STOP"
  <2>1. \/ MotionCommand(a, next) = [ClearControl(a) EXCEPT !.state = "STOPPING"]
        \/ MotionCommand(a, next) = [PidReset(Parked(a)) EXCEPT !.state = "STOPPING", !.stable = 0]
        \/ MotionCommand(a, next) = a
    BY <1>4 DEF MotionCommand
  <2>2. QED
    BY <1>1, <2>1, StopObeys
<1>5. CASE next.type \notin {"MOVE", "MOVE_REL", "HOME", "STOP"}
  <2>1. MotionCommand(a, next) = a
    BY <1>5 DEF MotionCommand
  <2>2. QED
    BY <1>1, <2>1
<1>6. QED
  BY <1>2, <1>3, <1>4, <1>5

LEMMA ControlUpdateObeys ==
  ASSUME NEW a, Sound(a)
  PROVE  /\ \/ Obeys(ControlUpdate(a), a)
            \/ Sound(ControlUpdate(a)) /\ Referenced(ControlUpdate(a), a)
         /\ Rests(ControlUpdate(a), a)
<1> DEFINE checked == Checked(a)
<1>1. Sound(checked) /\ Kept(checked, a) /\ Rests(checked, a)
  BY CheckedObeys DEF Obeys
<1>2. CASE a.state # "HOMING"
  <2> DEFINE b == IF a.homeContact THEN checked ELSE a
  <2>1. Sound(b) /\ Kept(b, a) /\ Rests(b, a)
    BY <1>1 DEF Kept, Rests
  <2>2. ControlUpdate(a) = MotionUpdate(b)
    BY <1>2 DEF ControlUpdate
  <2> HIDE DEF b
  <2>3. Obeys(MotionUpdate(b), b) /\ Rests(MotionUpdate(b), b)
    BY <2>1, MotionUpdateObeys
  <2>4. QED
    BY <2>1, <2>2, <2>3, KeptFollows DEF Obeys, Rests
<1>3. CASE a.state = "HOMING"
  <2>1. Rests(ControlUpdate(a), a)
    BY <1>3 DEF Rests, Ended
  <2>2. \/ ControlUpdate(a) = HomingUpdate(a)
        \/ ControlUpdate(a) = checked
        \/ ControlUpdate(a) = HomingUpdate(checked) /\ checked.fault = "NONE"
    BY <1>3 DEF ControlUpdate
  <2>3. checked.fault = "NONE" => checked.state = "HOMING"
    <3> DEFINE b == Safety(a)
    <3>1. b.state = "HOMING" /\ Typed(b) /\ checked = Synced(b)
      BY <1>3, SafetyObeys DEF Obeys, Sound, Checked
    <3> HIDE DEF b, checked
    <3>2. CASE b.fault = "NONE"
      BY <3>1, <3>2 DEF Synced
    <3>3. CASE b.fault # "NONE"
      <4> DEFINE c == ClearControl(b)
      <4>1. Typed(c) /\ c.fault = b.fault
        BY <3>1, ClearControlObeys
      <4>2. checked = [c EXCEPT !.state = "FAULT"]
        BY <3>1, <3>3 DEF Synced
      <4> HIDE DEF c
      <4>3. checked.fault = b.fault
        BY <4>1, <4>2 DEF Typed, Fields
      <4>4. QED
        BY <3>3, <4>3
    <3>4. QED
      BY <3>2, <3>3
  <2> HIDE DEF checked
  <2>4. Obeys(HomingUpdate(a), a) \/ (Sound(HomingUpdate(a)) /\ Referenced(HomingUpdate(a), a))
    BY <1>3, HomingUpdateObeys
  <2>5. checked.fault = "NONE" =>
          \/ Obeys(HomingUpdate(checked), checked)
          \/ Sound(HomingUpdate(checked)) /\ Referenced(HomingUpdate(checked), checked)
    BY <1>1, <2>3, HomingUpdateObeys
  <2>6. checked.fault = "NONE" =>
          \/ Obeys(HomingUpdate(checked), a)
          \/ Sound(HomingUpdate(checked)) /\ Referenced(HomingUpdate(checked), a)
    BY <1>1, <2>5, KeptFollows DEF Obeys, Referenced, Kept
  <2>7. QED
    BY <1>1, <2>1, <2>2, <2>4, <2>6 DEF Obeys
<1>4. QED
  BY <1>2, <1>3

----------------------------------------------------------------------------
(***************************************************************************)
(* One cycle, from one sample to the next.                                 *)
(***************************************************************************)
LEMMA CountType ==
  ASSUME NEW a, Typed(a)
  PROVE  /\ (a.register + a.offset) % Word \in 0 .. Word - 1
         /\ GetCount(a) \in Int
<1>1. Word \in Nat \ {0} /\ a.register + a.offset \in Int
  BY AxisAssumption DEF Typed
<1>2. (a.register + a.offset) % Word \in 0 .. Word - 1
  BY <1>1, ModRange
<1>3. 0 \in Int
  OBVIOUS
<1>4. Signed((a.register + a.offset) % Word) \in Int
  BY <1>2, <1>3, SignedInSum
<1>5. QED
  BY <1>2, <1>4 DEF GetCount

\* What is measured between two samples.
Moved(count, previous) == Signed((count - previous) % Word)

LEMMA SampleFollows ==
  ASSUME NEW a, Sound(a)
  PROVE  LET b == Sample(a)
         IN  /\ Sound(b) /\ b.plant = a.plant /\ b.register = a.register /\ b.offset = a.offset
             /\ b.duty = a.duty /\ b.state = a.state /\ b.homed = a.homed /\ b.sampled = TRUE
             /\ b.previous = GetCount(a)
             /\ b.velocity = IF a.sampled THEN Moved(GetCount(a), a.previous) ELSE 0
<1> DEFINE count == GetCount(a)
           velocity == IF a.sampled THEN Moved(count, a.previous) ELSE 0
           b == [a EXCEPT !.velocity = velocity, !.previous = count,
                          !.position = count, !.sampled = TRUE]
<1>1. Sample(a) = b
  BY DEF Sample, Moved
<1>2. count \in Int
  BY CountType DEF Sound
<1> HIDE DEF count
<1>3. velocity \in Int
  <2>1. Word \in Nat \ {0} /\ count - a.previous \in Int /\ 0 \in Int
    BY <1>2, AxisAssumption DEF Sound, Typed
  <2>2. (count - a.previous) % Word \in 0 .. Word - 1
    BY <2>1, ModRange
  <2>3. Moved(count, a.previous) \in Int
    BY <2>1, <2>2, SignedInSum DEF Moved
  <2>4. QED
    BY <2>3
<1> HIDE DEF velocity
<1>4. /\ Typed(b) /\ b.plant = a.plant /\ b.register = a.register /\ b.offset = a.offset
      /\ b.duty = a.duty /\ b.state = a.state /\ b.stable = a.stable /\ b.homed = a.homed
      /\ b.sampled = TRUE /\ b.previous = count /\ b.velocity = velocity
  BY <1>2, <1>3 DEF Sound, Typed, Fields
<1> HIDE DEF b
<1>5. QED
  BY <1>1, <1>4 DEF Sound, count, velocity

LEMMA PublishedRange ==
  ASSUME NEW plant \in PlantRecord, NEW register \in 0 .. Word - 1
  PROVE  TrueCount(plant) \in Int /\ Published(register, plant) \in 0 .. Word - 1
<1>1. plant.position \in Int /\ Unit \in Nat \ {0} /\ Word \in Nat \ {0}
  BY AxisAssumption DEF PlantRecord, Unit
<1>2. TrueCount(plant) \in Int
  BY <1>1, RoundType DEF TrueCount
<1>3. TrueCount(plant) % Word \in 0 .. Word - 1
  BY <1>1, <1>2, ModRange
<1>4. QED
  BY <1>2, <1>3 DEF Published

\* Ten steps of the plant; Safety on every other cycle.
LEMMA PhysicsFollows ==
  ASSUME NEW a, Sound(a), Confined(a.plant)
  PROVE  LET p == PlantSteps(a.plant, a.duty, StepsPerCycle)
             b == Supervised(Physics(a))
         IN  /\ Sound(b) /\ Confined(b.plant) /\ b.plant = p /\ SameTravel(p, a.plant)
             /\ b.register = Published(a.register, p) /\ b.offset = a.offset
             /\ b.previous = a.previous /\ b.sampled = a.sampled /\ (b.homed => a.homed)
             /\ b.duty = a.duty \/ b.duty \in -MaxDuty .. MaxDuty
             /\ Rests(b, a)
<1> DEFINE p == PlantSteps(a.plant, a.duty, StepsPerCycle)
           register == Published(a.register, p)
           even == ~a.even
           still == IF a.still > 0 /\ a.fault = "NONE" THEN a.still + 1 ELSE a.still
           c == [a EXCEPT !.plant = p, !.register = register, !.even = even, !.still = still]
<1>1. Confined(p) /\ SameTravel(p, a.plant)
  <2>1. StepsPerCycle \in Nat /\ a.duty \in Int
    BY DEF StepsPerCycle, Sound, Typed
  <2>2. QED
    BY <2>1, PlantStepsConfined
<1>2. Physics(a) = c
  BY DEF Physics
<1> HIDE DEF p
<1>3. register \in 0 .. Word - 1 /\ even \in BOOLEAN /\ still \in Nat /\ p \in PlantRecord
  BY <1>1, PublishedRange DEF Confined, Sound, Typed
<1> HIDE DEF register, even, still
<1>4. /\ Typed(c) /\ c.plant = p /\ c.register = register /\ c.offset = a.offset
      /\ c.previous = a.previous /\ c.sampled = a.sampled /\ c.homed = a.homed
      /\ c.duty = a.duty /\ c.state = a.state /\ c.stable = a.stable
  BY <1>3 DEF Sound, Typed, Fields
<1> HIDE DEF c
<1>5. Sound(c)
  BY <1>4 DEF Sound
<1>6. Sound(Supervised(c)) /\ Kept(Supervised(c), c) /\ Supervised(c).state = c.state
  <2>1. Sound(Safety(c)) /\ Kept(Safety(c), c) /\ Safety(c).state = c.state
    BY <1>5, SafetyObeys DEF Obeys
  <2>2. QED
    BY <1>5, <2>1 DEF Supervised, Kept
<1>7. QED
  BY <1>1, <1>2, <1>4, <1>6 DEF Kept, Rests, Ended, p, register

\* A cycle with a sample: the reference is the old one, and the velocity is what
\* the count has changed by.
Estimated(b, a) ==
  /\ b.sampled /\ b.offset = a.offset /\ (b.homed => a.homed) /\ b.previous = GetCount(b)
  /\ a.sampled => b.velocity = Moved(GetCount(b), a.previous)

\* A cycle that ends a seek: the reference is the switch, and nothing is sampled.
HomeFound(b) ==
  ~b.sampled /\ b.homed /\ b.offset = (0 - b.register) % Word /\ AtMin(b.plant)

CycleOf(a, next) == Motion(Supervised(Physics(a)), next)

LEMMA CycleFollows ==
  ASSUME NEW a, Sound(a), Confined(a.plant), NEW next, Understood(next)
  PROVE  LET b == CycleOf(a, next)
         IN  /\ Sound(b) /\ Confined(b.plant) /\ SameTravel(b.plant, a.plant)
             /\ b.register = Published(a.register, b.plant)
             /\ b.duty = a.duty \/ b.duty \in -MaxDuty .. MaxDuty
             /\ Estimated(b, a) \/ HomeFound(b)
             /\ next = NoCommand => Rests(b, a)
<1> DEFINE p == PlantSteps(a.plant, a.duty, StepsPerCycle)
           c == Supervised(Physics(a))
           d == Sample(c)
           e == Synced(d)
           f == MotionCommand(e, next)
           b == ControlUpdate(f)
<1>1. /\ Sound(c) /\ Confined(c.plant) /\ c.plant = p /\ SameTravel(p, a.plant)
      /\ c.register = Published(a.register, p) /\ c.offset = a.offset
      /\ c.previous = a.previous /\ c.sampled = a.sampled /\ (c.homed => a.homed)
      /\ c.duty = a.duty \/ c.duty \in -MaxDuty .. MaxDuty
      /\ Rests(c, a)
  BY PhysicsFollows
<1> HIDE DEF p, c
<1>2. /\ Sound(d) /\ d.plant = c.plant /\ d.register = c.register /\ d.offset = c.offset
      /\ d.duty = c.duty /\ d.state = c.state /\ d.homed = c.homed /\ d.sampled = TRUE
      /\ d.previous = GetCount(c)
      /\ d.velocity = IF c.sampled THEN Moved(GetCount(c), c.previous) ELSE 0
  BY <1>1, SampleFollows
<1> HIDE DEF d
<1>3. Sound(e) /\ Kept(e, d) /\ Rests(e, d)
  BY <1>2, SyncedObeys DEF Obeys
<1> HIDE DEF e
<1>4. Sound(f) /\ Kept(f, d) /\ (next = NoCommand => f = e)
  <2>1. next = NoCommand => f = e
    BY DEF MotionCommand, NoCommand
  <2>2. Sound(f) /\ Kept(f, e)
    BY <1>3, MotionCommandObeys DEF Obeys
  <2>3. QED
    BY <1>3, <2>1, <2>2, KeptFollows
<1> HIDE DEF f
<1>5. /\ \/ Sound(b) /\ Kept(b, d)
         \/ Sound(b) /\ Referenced(b, d)
      /\ Rests(b, f)
  <2>1. /\ \/ Sound(b) /\ Kept(b, f)
           \/ Sound(b) /\ Referenced(b, f)
        /\ Rests(b, f)
    BY <1>4, ControlUpdateObeys DEF Obeys
  <2>2. Kept(b, f) => Kept(b, d)
    BY <1>4, KeptFollows
  <2>3. Referenced(b, f) => Referenced(b, d)
    BY <1>4 DEF Referenced, Kept
  <2>4. QED
    BY <2>1, <2>2, <2>3
<1>6. CycleOf(a, next) = b
  BY DEF CycleOf, Motion, b, c, d, e, f
<1> HIDE DEF b
<1>7. Sound(b) /\ b.plant = d.plant /\ b.register = d.register
      /\ (b.duty = d.duty \/ b.duty \in -MaxDuty .. MaxDuty)
  BY <1>5 DEF Kept, Referenced
<1>8. Kept(b, d) => Estimated(b, a)
  <2>1. Kept(b, d) => GetCount(b) = GetCount(c)
    BY <1>2 DEF Kept, GetCount
  <2>2. QED
    BY <1>1, <1>2, <2>1 DEF Kept, Estimated
<1>9. Referenced(b, d) => HomeFound(b)
  BY <1>7 DEF Referenced, HomeFound
<1>10. next = NoCommand => Rests(b, a)
  BY <1>1, <1>2, <1>3, <1>4, <1>5 DEF Rests, Ended
<1>11. QED
  BY <1>1, <1>2, <1>5, <1>6, <1>7, <1>8, <1>9, <1>10

----------------------------------------------------------------------------
(***************************************************************************)
(* What the counts say.                                                    *)
(***************************************************************************)
LEMMA RoundBounds ==
  ASSUME NEW n \in Int, NEW low \in Int, NEW high \in Int,
         low * Unit <= n, n <= high * Unit
  PROVE  Round(n, Unit) \in low .. high
<1>1. Unit = 100000
  BY SMT DEF Unit
<1>2. low * 100000 <= n /\ n <= high * 100000
  BY <1>1
<1>3. CASE n >= 0
  <2>1. (2 * n + 100000) \div 200000 >= low /\ (2 * n + 100000) \div 200000 <= high
        /\ (2 * n + 100000) \div 200000 \in Int
    BY <1>2, SMT
  <2>2. Round(n, 100000) = (2 * n + 100000) \div 200000
    BY <1>3, SMT DEF Round
  <2>3. QED
    BY <1>1, <2>1, <2>2, SMT
<1>4. CASE ~(n >= 0)
  <2>1. /\ (2 * (-n) + 100000) \div 200000 <= -low /\ (2 * (-n) + 100000) \div 200000 >= -high
        /\ (2 * (-n) + 100000) \div 200000 \in Int
    BY <1>2, SMT
  <2>2. Round(n, 100000) = -((2 * (-n) + 100000) \div 200000)
    BY <1>4, SMT DEF Round
  <2>3. QED
    BY <1>1, <2>1, <2>2, SMT
<1>5. QED
  BY <1>3, <1>4

\* The count of an axis on its travel, and that of its end.
LEMMA CountOnTravel ==
  ASSUME NEW plant, Confined(plant), NEW low \in Int, NEW high \in Int,
         plant.min = low * Unit, plant.max = high * Unit
  PROVE  TrueCount(plant) \in low .. high /\ Round(plant.min, Unit) = low
<1>1. plant.position \in Int /\ low * Unit <= plant.position /\ plant.position <= high * Unit
  BY DEF Confined, PlantRecord
<1>2. TrueCount(plant) \in low .. high
  BY <1>1, RoundBounds DEF TrueCount
<1>3. low * Unit \in Int /\ low * Unit <= low * Unit
  BY SMT DEF Unit
<1>4. Round(low * Unit, Unit) \in low .. low
  <2> DEFINE n == low * Unit
  <2>1. n \in Int /\ low * Unit <= n /\ n <= low * Unit
    BY <1>3
  <2> HIDE DEF n
  <2>2. Round(n, Unit) \in low .. low
    BY <2>1, RoundBounds
  <2>3. QED
    BY <2>2 DEF n
<1>5. QED
  BY <1>2, <1>4

\* Two readings of a register under one reference differ by what the axis moved,
\* however the register and the count have wrapped.
LEMMA MovedIsTrue ==
  ASSUME NEW new \in Int, NEW old \in Int, NEW offset \in Int,
         -(Word \div 2) < new - old, new - old < Word \div 2
  PROVE  Moved(Signed(((new % Word) + offset) % Word), Signed(((old % Word) + offset) % Word)) = new - old
<1> DEFINE x == (new % Word) + offset
           y == (old % Word) + offset
           p == x % Word
           q == y % Word
<1>1. Word \in Nat \ {0}
  BY AxisAssumption
<1>2. new % Word \in Int /\ old % Word \in Int
  BY <1>1, ModRange
<1>3. x \in Int /\ y \in Int
  BY <1>2
<1>4. p \in 0 .. Word - 1 /\ q \in 0 .. Word - 1 /\ p \in Int /\ q \in Int
  BY <1>1, <1>3, ModRange
<1>5. (p - q) % Word = (x - y) % Word
  <2> HIDE DEF x, y
  <2>1. (p - q) % Word = (p - y) % Word
    BY <1>1, <1>3, <1>4, RemainderInSum
  <2>2. -y \in Int /\ (p + (-y)) % Word = (x + (-y)) % Word
    <3>1. -y \in Int
      BY <1>3
    <3> DEFINE z == -y
    <3> HIDE DEF z
    <3>2. z \in Int => ((x % Word) + z) % Word = (x + z) % Word
      BY <1>1, <1>3, RemainderInSum
    <3>3. QED
      BY <3>1, <3>2 DEF z
  <2>3. p + (-y) = p - y /\ x + (-y) = x - y
    BY <1>3, <1>4
  <2>4. QED
    BY <2>1, <2>2, <2>3
<1>6. (Signed(p) - Signed(q)) % Word = (p - q) % Word
  <2> HIDE DEF p, q
  <2>1. Signed(p) \in Int /\ Signed(q) \in Int
    BY <1>4, SignedInSum
  <2>2. (Signed(p) - Signed(q)) % Word = (Signed(p) - q) % Word
    BY <1>4, <2>1, SignedInSum
  <2> DEFINE z == -q
  <2>3. z \in Int
    BY <1>4
  <2> HIDE DEF z
  <2>4. (Signed(p) + z) % Word = (p + z) % Word
    BY <1>4, <2>3, SignedInSum
  <2>5. Signed(p) + z = Signed(p) - q /\ p + z = p - q
    BY <1>4, <2>1 DEF z
  <2>6. QED
    BY <2>2, <2>4, <2>5
<1>7. (x - y) % Word = (new - old) % Word
  <2> DEFINE u == new % Word
             v == old % Word
  <2>1. x - y = u - v
    BY <1>2
  <2>2. (u - v) % Word = (u - old) % Word
    BY <1>1, <1>2, RemainderInSum
  <2> DEFINE z == -old
  <2>3. z \in Int
    OBVIOUS
  <2> HIDE DEF z
  <2>4. (u + z) % Word = (new + z) % Word
    BY <1>1, <2>3, RemainderInSum
  <2>5. u + z = u - old /\ new + z = new - old
    BY <1>2 DEF z
  <2>6. QED
    BY <2>1, <2>2, <2>4, <2>5
<1>8. new - old \in Int
  OBVIOUS
<1>9. Signed((new - old) % Word) = new - old
  BY <1>8, SignedRemainder
<1>10. QED
  BY <1>5, <1>6, <1>7, <1>9 DEF Moved

\* Under the reference that homing sets at a count of low, the register reads as
\* the distance from low.
LEMMA DistanceIsTrue ==
  ASSUME NEW count \in Int, NEW low \in Int, low <= count, count - low < Word \div 2
  PROVE  Signed(((count % Word) + ((0 - (low % Word)) % Word)) % Word) = count - low
<1> DEFINE u == count % Word
           v == low % Word
           o == (0 - v) % Word
<1>1. Word \in Nat \ {0}
  BY AxisAssumption
<1>2. v \in Int /\ u \in Int
  BY <1>1, ModRange
<1>3. 0 - v \in Int /\ o \in Int
  BY <1>1, <1>2, ModRange
<1>4. (u + o) % Word = (count + o) % Word
  <2> HIDE DEF o
  <2>1. QED
    BY <1>1, <1>3, RemainderInSum
<1>5. (o + count) % Word = ((0 - v) + count) % Word
  <2> DEFINE z == 0 - v
  <2>1. z \in Int
    BY <1>3
  <2> HIDE DEF z, v
  <2>2. ((z % Word) + count) % Word = (z + count) % Word
    BY <1>1, <2>1, RemainderInSum
  <2>3. QED
    BY <2>2 DEF z
<1>6. (count - v) % Word = (count - low) % Word
  BY <1>1, RemainderInSum
<1>7. count + o = o + count /\ (0 - v) + count = count - v
  <2> HIDE DEF v
  <2>1. QED
    BY <1>2, <1>3
<1>8. count - low \in Int /\ -(Word \div 2) < count - low
  <2>1. Word \div 2 \in Nat
    BY <1>1
  <2>2. QED
    BY <2>1
<1>9. Signed((count - low) % Word) = count - low
  BY <1>8, SignedRemainder
<1>10. QED
  BY <1>4, <1>5, <1>6, <1>7, <1>9

----------------------------------------------------------------------------
(***************************************************************************)
(* The invariant.                                                          *)
(***************************************************************************)
Low == Scenarios[scenario].min
High == Scenarios[scenario].max

\* The plan is that of a scenario, and the axis is on its travel.
OnTravel ==
  /\ scenario \in DOMAIN Scenarios
  /\ plan \in Seq(PlanSteps(Low, High))
  /\ Confined(axis.plant) /\ axis.plant.min = Low * Unit /\ axis.plant.max = High * Unit

\* The bench runs without a controller, which alone limits the duty.
InCharge ==
  IF OnBench THEN command = "NONE" /\ ~axis.sampled /\ ~axis.homed
  ELSE axis.duty \in -MaxDuty .. MaxDuty

\* The register shows the axis as long as it works, the last sample what the
\* register showed then, and a homed axis counts from the switch.
Measured ==
  /\ broken = "NONE" => axis.register = TrueCount(axis.plant) % Word
  /\ axis.sampled => axis.previous = GetCount(axis)
  /\ broken = "NONE" /\ axis.homed
       => axis.offset = (0 - (Round(axis.plant.min, Unit) % Word)) % Word

MetricFields ==
  {"start", "target", "over", "band", "settling", "completion", "age", "done", "held", "ended"}

\* The driver waits for its command no longer than it has patience.
Paced ==
  /\ broken \in {"NONE", "STALLED", "FROZEN"} /\ since \in 0 .. Patience
  /\ rest \in 0 .. PostCycles
  /\ DOMAIN metrics = MetricFields
  /\ metrics.age \in Nat
  /\ metrics.age <= AgeLimit + rest

AxisInv == OnTravel /\ Sound(axis) /\ InCharge /\ Measured /\ Paced

LEMMA ScenarioFacts ==
  ASSUME scenario \in DOMAIN Scenarios
  PROVE  LET s == Scenarios[scenario]
         IN  /\ Low \in Int /\ High \in Int /\ High - Low < Word \div 2
             /\ s.start \in Int /\ s.shown \in Int /\ Low <= s.start /\ s.start <= High
             /\ s.plan \in Seq(PlanSteps(Low, High))
BY ScenarioAssumption DEF Low, High

LEMMA InitInv == Init => AxisInv
<1> SUFFICES ASSUME Init PROVE AxisInv
  OBVIOUS
<1> DEFINE s == Scenarios[scenario]
           plant == [position |-> s.start * Unit, velocity |-> 0, min |-> s.min * Unit,
                     max |-> s.max * Unit]
           raw == [plant |-> plant, register |-> TrueCount(plant) % Word, offset |-> 0, duty |-> 0,
                   state |-> "IDLE", fault |-> "NONE", position |-> 0, previous |-> 0,
                   velocity |-> 0, sampled |-> FALSE, target |-> 0, stable |-> 0, integral |-> 0,
                   measured |-> 0, seeded |-> FALSE, seek |-> 0, homed |-> FALSE,
                   homeContact |-> FALSE, still |-> 0, even |-> TRUE]
<1>1. scenario \in DOMAIN Scenarios /\ plan = s.plan
  BY DEF Init
<1>2. /\ s.min \in Int /\ s.max \in Int /\ s.start \in Int /\ s.shown \in Int
      /\ s.min <= s.start /\ s.start <= s.max /\ plan \in Seq(PlanSteps(Low, High))
  BY <1>1, ScenarioFacts DEF Low, High
<1>3. axis = SetReference(raw, s.shown)
  BY DEF Init, Start
<1>4. Confined(plant) /\ plant.min = Low * Unit /\ plant.max = High * Unit
  <2> DEFINE n == s.start * Unit
             m == s.min * Unit
             k == s.max * Unit
  <2>1. n \in Int /\ m \in Int /\ k \in Int /\ m <= n /\ n <= k
    BY <1>2, SMT DEF Unit
  <2>2. 0 \in -MaxVelocity .. MaxVelocity
    <3>1. MaxVelocity \in Nat
      BY SMT DEF MaxVelocity, Unit
    <3>2. QED
      BY <3>1
  <2> HIDE DEF n, m, k
  <2>3. [position |-> n, velocity |-> 0, min |-> m, max |-> k] \in PlantRecord
    BY <2>1, <2>2 DEF PlantRecord
  <2>4. QED
    BY <2>1, <2>3 DEF Confined, Low, High, n, m, k
<1> HIDE DEF plant
<1>5. TrueCount(plant) % Word \in 0 .. Word - 1 /\ 0 \in 0 .. Word - 1 /\ Word \in Nat \ {0}
  <2>1. Word \in Nat \ {0} /\ 0 \in 0 .. Word - 1
    BY AxisAssumption
  <2>2. TrueCount(plant) \in Int
    BY <1>4, <2>1, PublishedRange DEF Confined
  <2>3. QED
    BY <2>1, <2>2, ModRange
<1> DEFINE register == TrueCount(plant) % Word
           offset == (s.shown - register) % Word
<1>6. register \in 0 .. Word - 1 /\ offset \in 0 .. Word - 1
  <2>1. register \in 0 .. Word - 1
    BY <1>5
  <2> HIDE DEF register
  <2>2. s.shown - register \in Int
    BY <1>2, <1>5, <2>1
  <2>3. QED
    BY <1>5, <2>1, <2>2, ModRange
<1> HIDE DEF register, offset
<1>7. axis = [raw EXCEPT !.offset = offset] /\ raw.register = register
  BY <1>3 DEF SetReference, register, offset
<1>8. Typed(raw)
  BY <1>4, <1>5, <1>6, Ranges DEF Typed, Fields, AxisStates, Faults, Confined, register
<1>9. /\ raw.plant = plant /\ raw.state = "IDLE" /\ raw.sampled = FALSE /\ raw.homed = FALSE
      /\ raw.duty = 0
  OBVIOUS
<1> HIDE DEF raw, s
<1>10. /\ Typed(axis) /\ axis.plant = plant /\ axis.register = register /\ axis.state = "IDLE"
       /\ axis.sampled = FALSE /\ axis.homed = FALSE /\ axis.duty = 0
  BY <1>6, <1>7, <1>8, <1>9 DEF Typed, Fields
<1>11. OnTravel
  BY <1>1, <1>2, <1>4, <1>10 DEF OnTravel
<1>12. Sound(axis)
  BY <1>10 DEF Sound
<1>13. InCharge
  BY <1>10, Ranges DEF InCharge, Init
<1>14. Measured
  BY <1>10 DEF Measured, register
<1>15. Paced
  <2>1. metrics.age = 0 /\ DOMAIN metrics = MetricFields
    BY DEF Init, NewMetrics, MetricFields
  <2>2. rest \in 0 .. PostCycles /\ since \in 0 .. Patience /\ broken = "NONE"
    BY AxisAssumption DEF Init
  <2>3. AgeLimit \in Nat
    BY AxisAssumption DEF AgeLimit, HomingTimeout
  <2> HIDE DEF AgeLimit
  <2>4. QED
    BY <2>1, <2>2, <2>3 DEF Paced
<1>16. QED
  BY <1>11, <1>12, <1>13, <1>14, <1>15 DEF AxisInv

----------------------------------------------------------------------------
(***************************************************************************)
(* A motion cycle keeps it.                                                *)
(***************************************************************************)
LEMMA SampledAge ==
  ASSUME NEW r, DOMAIN r = MetricFields, NEW a, NEW age
  PROVE  DOMAIN Sampled(r, a, age) = MetricFields /\ Sampled(r, a, age).age = age
BY DEF Sampled, MetricFields

\* What the estimator says of a cycle is what the axis did in it.
LEMMA AdvanceKeeps ==
  ASSUME OnTravel, Sound(axis), InCharge, Measured, ~OnBench,
         NEW next, Understood(next), Advance(next),
         scenario' = scenario, broken' = broken, plan' \in Seq(PlanSteps(Low, High))
  PROVE  /\ OnTravel' /\ Sound(axis') /\ InCharge' /\ Measured'
         /\ EstimatorIsTrue
         /\ next = NoCommand => Rests(axis', axis)
<1> PICK b : b = axis'
  OBVIOUS
<1>1. b = CycleOf(axis, next)
  BY DEF Advance, Cycled, CycleOf
<1>2. /\ Sound(b) /\ Confined(b.plant) /\ SameTravel(b.plant, axis.plant)
      /\ b.register = Published(axis.register, b.plant)
      /\ b.duty = axis.duty \/ b.duty \in -MaxDuty .. MaxDuty
      /\ Estimated(b, axis) \/ HomeFound(b)
      /\ next = NoCommand => Rests(b, axis)
  BY <1>1, CycleFollows DEF OnTravel
<1>3. broken = "NONE" => b.register = TrueCount(b.plant) % Word
  BY <1>2 DEF Published
<1>4. OnTravel'
  BY <1>2 DEF OnTravel, Low, High, SameTravel
<1>5. InCharge'
  BY <1>2 DEF InCharge, OnBench
<1>6. Measured'
  <2>1. broken = "NONE" /\ b.homed => b.offset = (0 - (Round(b.plant.min, Unit) % Word)) % Word
    <3>1. CASE Estimated(b, axis)
      BY <1>2, <3>1 DEF Estimated, Measured, SameTravel
    <3>2. CASE HomeFound(b)
      <4>1. b.plant.position = b.plant.min
        BY <1>2, <3>2 DEF HomeFound, AtMin, Confined, PlantRecord
      <4>2. TrueCount(b.plant) = Round(b.plant.min, Unit)
        BY <4>1 DEF TrueCount
      <4>3. QED
        BY <1>3, <3>2, <4>2 DEF HomeFound
    <3>3. QED
      BY <1>2, <3>1, <3>2
  <2>2. b.sampled => b.previous = GetCount(b)
    BY <1>2 DEF Estimated, HomeFound
  <2>3. QED
    BY <1>3, <2>1, <2>2 DEF Measured
<1>7. EstimatorIsTrue
  <2>1. SUFFICES ASSUME broken = "NONE", axis.sampled, b.sampled
                 PROVE  b.velocity = TrueCount(b.plant) - TrueCount(axis.plant)
    BY DEF EstimatorIsTrue
  <2> DEFINE new == TrueCount(b.plant)
             old == TrueCount(axis.plant)
  <2>2. Low \in Int /\ High \in Int /\ High - Low < Word \div 2 /\ Word \div 2 \in Int
    BY ScenarioFacts, AxisAssumption DEF OnTravel
  <2>3. new \in Low .. High /\ old \in Low .. High
    <3>1. b.plant.min = Low * Unit /\ b.plant.max = High * Unit
      BY <1>2 DEF OnTravel, SameTravel
    <3>2. QED
      BY <1>2, <2>2, <3>1, CountOnTravel DEF OnTravel
  <2>4. /\ b.velocity = Moved(GetCount(b), axis.previous) /\ axis.previous = GetCount(axis)
        /\ b.offset = axis.offset
    BY <1>2, <2>1 DEF Estimated, HomeFound, Measured
  <2>5. /\ GetCount(b) = Signed(((new % Word) + axis.offset) % Word)
        /\ GetCount(axis) = Signed(((old % Word) + axis.offset) % Word)
    BY <1>3, <2>1, <2>4 DEF GetCount, Measured
  <2>6. axis.offset \in Int
    BY DEF Sound, Typed
  <2> HIDE DEF new, old
  <2>7. new \in Int /\ old \in Int /\ -(Word \div 2) < new - old /\ new - old < Word \div 2
    BY <2>2, <2>3
  <2>8. b.velocity = new - old
    BY <2>4, <2>5, <2>6, <2>7, MovedIsTrue
  <2>9. QED
    BY <2>8 DEF new, old
<1>8. QED
  BY <1>2, <1>4, <1>5, <1>6, <1>7

\* What one action leaves to show of the driver's pace.
LEMMA AgeLimitType == AgeLimit \in Nat /\ AgeLimit <= HomingTimeout + MaxMoveCycles
<1>1. HomingTimeout \in Nat /\ MaxMoveCycles \in Nat
  BY AxisAssumption DEF HomingTimeout
<1>2. QED
  BY <1>1 DEF AgeLimit

LEMMA WaitKeeps ==
  ASSUME AxisInv, ~OnBench, Wait
  PROVE  AxisInv' /\ EstimatorIsTrue
<1>1. Advance(NoCommand) /\ scenario' = scenario /\ broken' = broken /\ plan' = plan /\ Waiting
  BY DEF Wait
<1>2. Understood(NoCommand)
  BY DEF Understood, NoCommand
<1>3. /\ OnTravel' /\ Sound(axis') /\ InCharge' /\ Measured' /\ EstimatorIsTrue
      /\ Rests(axis', axis)
  BY <1>1, <1>2, AdvanceKeeps DEF AxisInv, OnTravel
<1>4. command' = command /\ AgeLimit' = AgeLimit
  BY <1>1 DEF Advance, AgeLimit
<1>5. rest' = IF Ended(axis') /\ Ended(axis) THEN rest + 1 ELSE 0
  BY <1>1 DEF Advance
<1>6. DOMAIN metrics' = MetricFields /\ metrics'.age = metrics.age + 1
  <2>1. metrics' = Sampled(metrics, axis', metrics.age + 1)
    BY <1>1 DEF Advance, NoCommand
  <2>2. QED
    BY <2>1, SampledAge DEF AxisInv, Paced
<1>7. AgeLimit \in Nat /\ PostCycles \in Nat /\ PostCycles > 2 /\ Patience \in Nat
  BY AgeLimitType, AxisAssumption
<1>8. rest \in 0 .. PostCycles /\ metrics.age \in Nat /\ since \in 0 .. Patience
      /\ broken \in {"NONE", "STALLED", "FROZEN"}
      /\ metrics.age <= AgeLimit + rest
  BY DEF AxisInv, Paced
<1>9. rest < PostCycles /\ (~Ended(axis) => metrics.age < AgeLimit)
  BY <1>1 DEF Waiting, Running
<1>10. since' \in 0 .. Patience
  BY <1>7, <1>8 DEF Wait
<1>11. metrics'.age <= AgeLimit + rest'
  <2> HIDE DEF AgeLimit
  <2>1. CASE Ended(axis)
    <3>1. Ended(axis') /\ rest' = rest + 1
      BY <1>3, <1>5, <2>1 DEF Rests
    <3>2. QED
      BY <1>6, <1>7, <1>8, <2>1, <3>1
  <2>2. CASE ~Ended(axis)
    <3>1. rest' = 0
      BY <1>5, <2>2
    <3>2. QED
      BY <1>6, <1>7, <1>8, <1>9, <2>2, <3>1
  <2>3. QED
    BY <2>1, <2>2
<1>12. rest' \in 0 .. PostCycles /\ metrics'.age \in Nat
  BY <1>5, <1>6, <1>7, <1>8, <1>9
<1>13. Paced'
  BY <1>1, <1>4, <1>6, <1>8, <1>10, <1>11, <1>12 DEF Paced
<1>14. QED
  BY <1>3, <1>13 DEF AxisInv

LEMMA IssueKeeps ==
  ASSUME AxisInv, ~OnBench, Issue
  PROVE  AxisInv' /\ EstimatorIsTrue
<1> DEFINE next == Head(plan)
<1>1. /\ plan # <<>> /\ next.type \in {"MOVE", "MOVE_REL", "HOME"} /\ Advance(next)
      /\ plan' = Tail(plan) /\ scenario' = scenario /\ broken' = broken /\ since' = since
  BY DEF Issue
<1>2. plan \in Seq(PlanSteps(Low, High))
  BY DEF AxisInv, OnTravel
<1>3. next \in PlanSteps(Low, High) /\ plan' \in Seq(PlanSteps(Low, High))
  BY <1>1, <1>2
<1> HIDE DEF next
<1>4. Understood(next)
  BY <1>1, <1>3 DEF Understood, PlanSteps
<1>5. OnTravel' /\ Sound(axis') /\ InCharge' /\ Measured' /\ EstimatorIsTrue
  BY <1>1, <1>3, <1>4, AdvanceKeeps DEF AxisInv
<1>6. DOMAIN metrics' = MetricFields /\ metrics'.age = 0
  <2> DEFINE fresh == NewMetrics(axis.position, axis'.target)
  <2>1. metrics' = Sampled(fresh, axis', 0)
    BY <1>1 DEF Advance
  <2>2. DOMAIN fresh = MetricFields
    BY DEF NewMetrics, MetricFields
  <2> HIDE DEF fresh
  <2>3. QED
    BY <2>1, <2>2, SampledAge
<1>7. next # NoCommand
  BY <1>1 DEF NoCommand
<1>8. rest' = 0
  BY <1>1, <1>7 DEF Advance
<1>9. PostCycles \in Nat /\ PostCycles > 2
  BY AxisAssumption
<1>10. AgeLimit' \in Nat
  <2>1. HomingTimeout \in Nat /\ MaxMoveCycles \in Nat
    BY AxisAssumption DEF HomingTimeout
  <2>2. QED
    BY <2>1 DEF AgeLimit
<1>11. broken \in {"NONE", "STALLED", "FROZEN"} /\ since \in 0 .. Patience
  BY DEF AxisInv, Paced
<1>12. Paced'
  <2>1. rest' \in 0 .. PostCycles
    BY <1>8, <1>9
  <2>2. metrics'.age <= AgeLimit' + rest'
    <3>1. PICK limit \in Nat : limit = AgeLimit'
      BY <1>10
    <3>2. PICK n \in Nat : n = rest'
      BY <1>8
    <3>3. 0 <= limit + n
      OBVIOUS
    <3>4. 0 <= AgeLimit' + rest'
      BY <3>1, <3>2, <3>3
    <3>5. QED
      BY <1>6, <3>4
  <2>3. QED
    BY <1>1, <1>6, <1>11, <2>1, <2>2 DEF Paced
<1>13. QED
  BY <1>5, <1>12 DEF AxisInv

LEMMA StopKeeps ==
  ASSUME AxisInv, ~OnBench, Stop
  PROVE  AxisInv' /\ EstimatorIsTrue
<1> DEFINE next == [type |-> "STOP", value |-> 0]
           home == [type |-> "HOME", value |-> 0]
<1>1. /\ axis.state \in {"MOVING", "HOMING"} /\ Waiting /\ Advance(next)
      /\ plan' = IF command = "HOME" THEN <<home>> \o plan ELSE plan
      /\ scenario' = scenario /\ broken' = broken /\ since' = since
  BY DEF Stop
<1>2. plan \in Seq(PlanSteps(Low, High))
  BY DEF AxisInv, OnTravel
<1>3. plan' \in Seq(PlanSteps(Low, High))
  <2>1. home \in PlanSteps(Low, High)
    BY DEF PlanSteps
  <2> HIDE DEF home
  <2>2. QED
    BY <1>1, <1>2, <2>1
<1>4. Understood(next) /\ next # NoCommand /\ next.type = "STOP"
  BY DEF Understood, NoCommand
<1> HIDE DEF next
<1>5. OnTravel' /\ Sound(axis') /\ InCharge' /\ Measured' /\ EstimatorIsTrue
  BY <1>1, <1>3, <1>4, AdvanceKeeps DEF AxisInv
<1>6. DOMAIN metrics' = MetricFields /\ metrics'.age = metrics.age + 1 /\ command' = "STOP"
  <2>1. metrics' = Sampled(metrics, axis', metrics.age + 1) /\ command' = "STOP"
    BY <1>1, <1>4 DEF Advance
  <2>2. QED
    BY <2>1, SampledAge DEF AxisInv, Paced
<1>7. rest' = 0
  BY <1>1, <1>4 DEF Advance
<1>8. /\ PostCycles \in Nat /\ PostCycles > 2 /\ AgeLimit \in Nat
      /\ AgeLimit <= HomingTimeout + MaxMoveCycles
  BY AgeLimitType, AxisAssumption
<1>9. AgeLimit' = HomingTimeout + MaxMoveCycles /\ HomingTimeout + MaxMoveCycles \in Nat
  <2>1. HomingTimeout \in Nat /\ MaxMoveCycles \in Nat
    BY AxisAssumption DEF HomingTimeout
  <2>2. QED
    BY <1>6, <2>1 DEF AgeLimit
<1>10. /\ broken \in {"NONE", "STALLED", "FROZEN"} /\ since \in 0 .. Patience
       /\ metrics.age \in Nat /\ metrics.age < AgeLimit
  <2>1. ~Ended(axis)
    BY <1>1 DEF Ended
  <2>2. metrics.age < AgeLimit
    BY <1>1, <2>1 DEF Waiting, Running
  <2> HIDE DEF AgeLimit
  <2>3. QED
    BY <2>2 DEF AxisInv, Paced
<1>11. Paced'
  <2>1. rest' \in 0 .. PostCycles
    BY <1>7, <1>8
  <2>2. /\ metrics'.age \in Nat
        /\ metrics'.age <= AgeLimit' + rest'
    BY <1>6, <1>7, <1>8, <1>9, <1>10
  <2>3. QED
    BY <1>1, <1>6, <1>10, <2>1, <2>2 DEF Paced
<1>12. QED
  BY <1>5, <1>11 DEF AxisInv

\* A failure of the mechanics or of the encoder leaves everything where it is.
LEMMA BreakKeeps ==
  ASSUME AxisInv, NEW kind \in {"STALLED", "FROZEN"}, Break(kind)
  PROVE  AxisInv' /\ axis' = axis
<1>1. /\ broken' = kind /\ scenario' = scenario /\ plan' = plan /\ axis' = axis
      /\ command' = command /\ metrics' = metrics /\ rest' = rest /\ since' = since
  BY DEF Break
<1>2. OnTravel' /\ Sound(axis')
  BY <1>1 DEF AxisInv, OnTravel, Low, High
<1>3. InCharge'
  BY <1>1 DEF AxisInv, InCharge, OnBench
<1>4. Measured'
  BY <1>1 DEF AxisInv, Measured
<1>5. Paced'
  BY <1>1 DEF AxisInv, Paced, AgeLimit
<1>6. QED
  BY <1>1, <1>2, <1>3, <1>4, <1>5 DEF AxisInv

\* The bench moves the plant and shows it, and leaves the rest alone.
LEMMA BenchedKeeps ==
  ASSUME AxisInv, OnBench, NEW p, Confined(p), SameTravel(p, axis.plant), NEW duty \in Int,
         axis' = [axis EXCEPT !.plant = p, !.register = Published(axis.register, p), !.duty = duty],
         plan' \in Seq(PlanSteps(Low, High)), scenario' = scenario, broken' = broken,
         since' = since, command' = command, metrics' = metrics, rest' = rest
  PROVE  AxisInv' /\ EstimatorIsTrue
<1> DEFINE register == Published(axis.register, p)
<1>1. register \in 0 .. Word - 1 /\ p \in PlantRecord
  BY PublishedRange DEF AxisInv, Sound, Typed, Confined
<1>2. broken = "NONE" => register = TrueCount(p) % Word
  BY DEF Published
<1> HIDE DEF register
<1> PICK b : b = axis'
  OBVIOUS
<1>3. b = [axis EXCEPT !.plant = p, !.register = register, !.duty = duty]
  BY DEF register
<1>4. /\ Typed(b) /\ b.plant = p /\ b.register = register /\ b.duty = duty
      /\ b.state = axis.state /\ b.stable = axis.stable /\ b.sampled = axis.sampled
      /\ b.homed = axis.homed
  BY <1>1, <1>3 DEF AxisInv, Sound, Typed, Fields
<1>5. Sound(b)
  BY <1>4 DEF AxisInv, Sound
<1>6. OnTravel'
  BY <1>4 DEF AxisInv, OnTravel, Low, High, SameTravel
<1>7. InCharge'
  BY <1>4 DEF AxisInv, InCharge, OnBench
<1>8. Measured'
  BY <1>2, <1>4 DEF AxisInv, Measured, InCharge
<1>9. Paced'
  <2>1. Ended(axis') <=> Ended(axis)
    BY <1>4 DEF Ended
  <2>2. QED
    BY <2>1 DEF AxisInv, Paced, AgeLimit
<1>10. EstimatorIsTrue
  BY DEF EstimatorIsTrue, AxisInv, InCharge
<1>11. QED
  BY <1>5, <1>6, <1>7, <1>8, <1>9, <1>10 DEF AxisInv

LEMMA BenchKeeps ==
  ASSUME AxisInv, OnBench, Bench
  PROVE  AxisInv' /\ EstimatorIsTrue
<1> DEFINE segment == Head(plan)
           count == IF segment.steps < StepsPerCycle THEN segment.steps ELSE StepsPerCycle
           p == PlantSteps(axis.plant, segment.value, count)
           shorter == [plan EXCEPT ![1].steps = @ - count]
<1>1. /\ plan # <<>> /\ segment.type = "DRIVE"
      /\ axis' = [axis EXCEPT !.plant = p, !.register = Published(axis.register, p),
                              !.duty = segment.value]
      /\ plan' = IF segment.steps = count THEN Tail(plan) ELSE shorter
      /\ scenario' = scenario /\ broken' = broken /\ since' = since /\ command' = command
      /\ metrics' = metrics /\ rest' = rest
  BY DEF Bench
<1>2. plan \in Seq(PlanSteps(Low, High)) /\ segment \in PlanSteps(Low, High)
  BY <1>1 DEF AxisInv, OnTravel
<1>3. /\ segment.value \in Int /\ segment.steps \in Nat \ {0}
      /\ segment \in [type : {"DRIVE"}, value : Int, steps : Nat \ {0}]
  BY <1>1, <1>2 DEF PlanSteps
<1>4. count \in Nat \ {0} /\ (segment.steps # count => segment.steps - count \in Nat \ {0})
  BY <1>3, SMT DEF StepsPerCycle
<1> HIDE DEF count
<1>5. plan' \in Seq(PlanSteps(Low, High))
  <2>1. CASE segment.steps = count
    BY <1>1, <1>2, <2>1
  <2>2. CASE segment.steps # count
    <3> DEFINE left == segment.steps - count
               next == [segment EXCEPT !.steps = left]
    <3>1. left \in Nat \ {0}
      BY <1>4, <2>2
    <3> HIDE DEF left
    <3>2. next \in [type : {"DRIVE"}, value : Int, steps : Nat \ {0}]
      BY <1>3, <3>1
    <3>3. next \in PlanSteps(Low, High)
      BY <3>2 DEF PlanSteps
    <3>4. shorter = [plan EXCEPT ![1] = next]
      <4>1. segment = plan[1]
        BY <1>1, <1>2
      <4> HIDE DEF segment
      <4>2. QED
        BY <4>1 DEF left
    <3> HIDE DEF next, shorter
    <3>5. shorter \in Seq(PlanSteps(Low, High))
      BY <1>1, <1>2, <3>3, <3>4
    <3>6. QED
      BY <1>1, <2>2, <3>5
  <2>3. QED
    BY <2>1, <2>2
<1>6. Confined(p) /\ SameTravel(p, axis.plant)
  BY <1>3, <1>4, PlantStepsConfined DEF AxisInv, OnTravel
<1> HIDE DEF p, segment, shorter
<1>7. QED
  BY <1>1, <1>3, <1>5, <1>6, BenchedKeeps

LEMMA PlaceKeeps ==
  ASSUME AxisInv, OnBench, Place
  PROVE  AxisInv' /\ EstimatorIsTrue
<1> DEFINE place == Head(plan).value
           position == place * Unit
           p == [axis.plant EXCEPT !.position = position, !.velocity = 0]
<1>1. /\ plan # <<>> /\ Head(plan).type = "PLACE" /\ plan' = Tail(plan)
      /\ axis' = [Parked(axis) EXCEPT !.plant = p, !.register = Published(@, p)]
      /\ scenario' = scenario /\ broken' = broken /\ since' = since /\ command' = command
      /\ metrics' = metrics /\ rest' = rest
  BY DEF Place
<1>2. plan \in Seq(PlanSteps(Low, High)) /\ Head(plan) \in PlanSteps(Low, High)
  BY <1>1 DEF AxisInv, OnTravel
<1>3. plan' \in Seq(PlanSteps(Low, High)) /\ place \in Low .. High
  BY <1>1, <1>2 DEF PlanSteps
<1>4. Low \in Int /\ High \in Int
  BY ScenarioFacts DEF AxisInv, OnTravel
<1> HIDE DEF place
<1>5. position \in Int /\ Low * Unit <= position /\ position <= High * Unit
  BY <1>3, <1>4, SMT DEF Unit
<1>6. 0 \in -MaxVelocity .. MaxVelocity
  <2>1. MaxVelocity \in Nat
    BY SMT DEF MaxVelocity, Unit
  <2>2. QED
    BY <2>1
<1> HIDE DEF position
<1>7. axis.plant \in PlantRecord /\ axis.plant.min = Low * Unit /\ axis.plant.max = High * Unit
  BY DEF AxisInv, OnTravel, Confined
<1>8. p \in PlantRecord /\ p.position = position /\ SameTravel(p, axis.plant)
  BY <1>5, <1>6, <1>7 DEF PlantRecord, SameTravel
<1>9. Confined(p)
  BY <1>5, <1>7, <1>8 DEF Confined, SameTravel, PlantRecord
<1> HIDE DEF p
<1> PICK duty \in Int : duty = 0
  OBVIOUS
<1>10. axis' = [axis EXCEPT !.plant = p, !.register = Published(axis.register, p), !.duty = duty]
  <2>1. Typed(axis)
    BY DEF AxisInv, Sound
  <2> DEFINE register == Published(axis.register, p)
  <2> HIDE DEF register
  <2>2. Parked(axis).register = axis.register
    BY <2>1 DEF Parked, Typed, Fields
  <2>3. axis' = [Parked(axis) EXCEPT !.plant = p, !.register = register]
    BY <1>1, <2>2 DEF register
  <2>4. axis' = [axis EXCEPT !.plant = p, !.register = register, !.duty = duty]
    BY <2>1, <2>3 DEF Parked, Typed, Fields
  <2>5. QED
    BY <2>4 DEF register
<1>11. QED
  BY <1>1, <1>3, <1>8, <1>9, <1>10, BenchedKeeps

LEMMA NextKeeps ==
  ASSUME AxisInv, [Next]_vars
  PROVE  AxisInv' /\ [EstimatorIsTrue]_axis
<1>1. CASE OnBench /\ Bench
  BY <1>1, BenchKeeps
<1>2. CASE OnBench /\ Place
  BY <1>2, PlaceKeeps
<1>3. CASE ~OnBench /\ Wait
  BY <1>3, WaitKeeps
<1>4. CASE ~OnBench /\ Issue
  BY <1>4, IssueKeeps
<1>5. CASE ~OnBench /\ Stop
  BY <1>5, StopKeeps
<1>6. ASSUME NEW kind \in {"STALLED", "FROZEN"}, Break(kind)
      PROVE  AxisInv' /\ [EstimatorIsTrue]_axis
  BY <1>6, BreakKeeps
<1>7. CASE UNCHANGED vars
  <2>1. OnTravel' /\ Sound(axis')
    BY <1>7 DEF vars, AxisInv, OnTravel, Low, High
  <2>2. InCharge'
    BY <1>7 DEF vars, AxisInv, InCharge, OnBench
  <2>3. Measured'
    BY <1>7 DEF vars, AxisInv, Measured
  <2>4. Paced'
    BY <1>7 DEF vars, AxisInv, Paced, AgeLimit
  <2>5. axis' = axis
    BY <1>7 DEF vars
  <2>6. QED
    BY <2>1, <2>2, <2>3, <2>4, <2>5 DEF AxisInv
<1>8. QED
  BY <1>1, <1>2, <1>3, <1>4, <1>5, <1>6, <1>7 DEF Next

LEMMA Invariant == Spec => []AxisInv
<1>1. AxisInv /\ [Next]_vars => AxisInv'
  BY NextKeeps
<1>2. QED
  BY InitInv, <1>1, PTL DEF Spec

----------------------------------------------------------------------------
(***************************************************************************)
(* A stall is not overlooked.  First what each function of the cycle does  *)
(* to the stall candidate and to what the candidate is judged by.          *)
(***************************************************************************)
Active(a) == a.state \in {"MOVING", "HOMING"}

\* Motion has taken over what Safety latched.
Clear(a) == a.fault = "NONE" \/ a.state = "FAULT"

\* A candidate that Safety has let pass is young; Safety looks on even cycles.
Capped(a) ==
  a.fault = "NONE" => /\ a.still <= StallTimeout + 1
                      /\ a.even => a.still <= StallTimeout

\* b differs from a in the candidate and the guarded switch at most.
Alike(b, a) ==
  /\ b.plant = a.plant /\ b.register = a.register /\ b.offset = a.offset /\ b.duty = a.duty
  /\ b.state = a.state /\ b.fault = a.fault /\ b.even = a.even /\ b.position = a.position
  /\ b.previous = a.previous /\ b.velocity = a.velocity /\ b.sampled = a.sampled
  /\ b.target = a.target /\ b.integral = a.integral /\ b.measured = a.measured
  /\ b.seeded = a.seeded

\* The candidate as safety_evaluate leaves it.
Noticed(a) ==
  IF Resisting(a) /\ ~(a.state = "HOMING" /\ AtMin(a.plant))
  THEN IF a.still = 0 THEN 1 ELSE a.still
  ELSE 0

Passed(b, a) == Alike(b, a) /\ b.still = Noticed(a) /\ b.still <= StallTimeout

LEMMA SafetyWatches ==
  ASSUME NEW a, Sound(a)
  PROVE  /\ Safety(a).even = a.even
         /\ Safety(a).fault = "NONE" => Passed(Safety(a), a)
         /\ a.fault # "NONE" => Safety(a) = a
<1> DEFINE resists == Resisting(a) /\ ~(a.state = "HOMING" /\ AtMin(a.plant))
           still   == IF ~resists THEN 0 ELSE IF a.still = 0 THEN 1 ELSE a.still
           contact == a.homeContact /\ AtMin(a.plant)
           watched == [a EXCEPT !.still = still, !.homeContact = contact]
           contactAt == UnexpectedContact(a)
           latched == a.fault # "NONE"
           top == AtMax(a.plant)
<1>1. still \in Nat /\ still = Noticed(a)
  BY DEF Sound, Typed, Noticed
<1> HIDE DEF still, contact
<1>2. watched.even = a.even /\ Alike(watched, a) /\ watched.still = still /\ DOMAIN watched = Fields
  BY <1>1 DEF Sound, Typed, Fields, Alike
<1> HIDE DEF watched, contactAt, latched, top
<1>3. Safety(a) = CASE latched -> a
                    [] ~latched /\ top -> Tripped(watched, "POSITIVE_LIMIT")
                    [] ~latched /\ ~top /\ contactAt -> Tripped(watched, "NEGATIVE_LIMIT")
                    [] ~latched /\ ~top /\ ~contactAt ->
                         IF watched.still > StallTimeout THEN Tripped(watched, "NO_MOTION") ELSE watched
  BY DEF Safety, watched, still, contact, contactAt, latched, top
<1>4. ASSUME NEW fault \in {"POSITIVE_LIMIT", "NEGATIVE_LIMIT", "NO_MOTION"}
      PROVE  Tripped(watched, fault).even = a.even /\ Tripped(watched, fault).fault # "NONE"
  BY <1>2 DEF Tripped, Parked, Fields
<1>5. CASE latched
  BY <1>3, <1>5 DEF latched
<1>6. CASE ~latched /\ ~top /\ ~contactAt /\ ~(watched.still > StallTimeout)
  <2>1. Safety(a) = watched /\ a.fault = "NONE"
    BY <1>3, <1>6 DEF latched
  <2>2. watched.still <= StallTimeout
    BY <1>1, <1>2, <1>6 DEF StallTimeout
  <2>3. QED
    BY <1>1, <1>2, <2>1, <2>2 DEF Passed
<1>7. CASE ~latched /\ ~(~top /\ ~contactAt /\ ~(watched.still > StallTimeout))
  <2>1. \E fault \in {"POSITIVE_LIMIT", "NEGATIVE_LIMIT", "NO_MOTION"} :
          Safety(a) = Tripped(watched, fault)
    BY <1>3, <1>7
  <2>2. QED
    BY <1>4, <1>7, <2>1 DEF latched
<1>8. QED
  BY <1>5, <1>6, <1>7

LEMMA SyncedWatches ==
  ASSUME NEW a, Sound(a)
  PROVE  /\ Synced(a).even = a.even /\ Synced(a).fault = a.fault
         /\ a.fault = "NONE" => Synced(a) = a
         /\ a.fault # "NONE" => Synced(a).state = "FAULT"
<1>1. CASE a.fault = "NONE"
  BY <1>1 DEF Synced
<1>2. CASE a.fault # "NONE"
  BY <1>2 DEF Synced, ClearControl, PidReset, Parked, Sound, Typed, Fields
<1>3. QED
  BY <1>1, <1>2

LEMMA CheckedWatches ==
  ASSUME NEW a, Sound(a)
  PROVE  /\ Checked(a).even = a.even /\ Clear(Checked(a)) /\ Capped(Checked(a))
         /\ Checked(a).fault = "NONE" => Passed(Checked(a), a)
<1> DEFINE b == Safety(a)
<1>1. b.fault = "NONE" => Passed(b, a)
  BY SafetyObeys, SafetyWatches DEF Obeys
<1>2. b.still \in Nat /\ StallTimeout \in Nat
  BY <1>1, SafetyObeys DEF Obeys, Sound, Typed, StallTimeout
<1>3. Checked(a) = Synced(b)
  BY DEF Checked
<1>4. Sound(b) /\ b.even = a.even
  BY SafetyObeys, SafetyWatches DEF Obeys
<1> HIDE DEF b
<1>5. CASE b.fault = "NONE"
  BY <1>1, <1>2, <1>3, <1>4, <1>5, SyncedWatches DEF Clear, Capped, Passed
<1>6. CASE b.fault # "NONE"
  BY <1>3, <1>4, <1>6, SyncedWatches DEF Clear, Capped
<1>7. QED
  BY <1>5, <1>6

LEMMA TripWatches ==
  ASSUME NEW a, Sound(a), NEW fault \in Faults, fault # "NONE"
  PROVE  LET b == Synced(Tripped(a, fault))
         IN  b.even = a.even /\ b.state = "FAULT" /\ b.fault # "NONE"
<1>1. Sound(Tripped(a, fault))
  BY TrippedObeys DEF Sound
<1>2. Tripped(a, fault).even = a.even /\ Tripped(a, fault).fault = fault
  BY DEF Tripped, Parked, Sound, Typed, Fields
<1>3. QED
  BY <1>1, <1>2, SyncedWatches

\* pid_update and motor_set_output, and nothing else.
Steered(b, a) ==
  /\ b.measured = a.position /\ b.seeded
  /\ b.integral = Clamp(a.integral + 2 * (a.target - a.position), -MaxIntegral, MaxIntegral)
  /\ b.duty = Clamp(6000 * (a.target - a.position) + b.integral + Derivative(a), -MaxDuty, MaxDuty)

\* Motion goes on with the operation of a.
Pursues(b, a) ==
  /\ b.state = a.state /\ a.fault = "NONE" /\ b.target = a.target /\ b.position = a.position
  /\ b.velocity = a.velocity /\ b.sampled = a.sampled
  /\ b.state = "HOMING" => b.duty = HomingDuty /\ ~AtMin(a.plant) /\ b.still = a.still
  /\ b.state = "MOVING" => Steered(b, a) /\ (Resisting(a) => b.still >= a.still)

\* What holds between the functions of Motion's cycle.
Watched(b) == Clear(b) /\ Capped(b)

LEMMA DriveWatches ==
  ASSUME NEW a, Sound(a)
  PROVE  /\ Drive(a).even = a.even /\ Drive(a).fault = a.fault /\ Drive(a).still = a.still
         /\ Drive(a).state = a.state /\ Drive(a).target = a.target
         /\ Drive(a).position = a.position /\ Drive(a).velocity = a.velocity
         /\ Drive(a).sampled = a.sampled
         /\ Steered(Drive(a), a)
<1> DEFINE error    == a.target - a.position
           integral == Clamp(a.integral + 2 * error, -MaxIntegral, MaxIntegral)
           output   == Clamp(6000 * error + integral + Derivative(a), -MaxDuty, MaxDuty)
           b        == [a EXCEPT !.duty = output, !.integral = integral,
                                 !.measured = a.position, !.seeded = TRUE]
<1>1. Drive(a) = b
  BY DEF Drive
<1> HIDE DEF output, integral
<1>2. /\ b.even = a.even /\ b.fault = a.fault /\ b.still = a.still /\ b.state = a.state
      /\ b.target = a.target /\ b.position = a.position /\ b.velocity = a.velocity
      /\ b.sampled = a.sampled /\ b.measured = a.position /\ b.seeded = TRUE
      /\ b.integral = integral /\ b.duty = output
  BY DEF Sound, Typed, Fields
<1> HIDE DEF b
<1>3. Steered(b, a)
  BY <1>2 DEF Steered, integral, output
<1>4. QED
  BY <1>1, <1>2, <1>3

LEMMA DweltWatches ==
  ASSUME NEW a, Sound(a)
  PROVE  LET b == Dwelt(a)
         IN  /\ b.even = a.even /\ b.fault = a.fault /\ b.still = a.still
             /\ b.state = a.state \/ (b.state = "IDLE" /\ ~Ended(a))
             /\ b.state = "MOVING" => /\ b.target = a.target /\ b.position = a.position
                                      /\ b.velocity = a.velocity /\ b.sampled = a.sampled
                                      /\ b.integral = a.integral /\ b.measured = a.measured
                                      /\ b.seeded = a.seeded
<1> DEFINE stable == IF InBand(a) THEN a.stable + 1 ELSE 0
<1>1. CASE a.state \notin {"MOVING", "STOPPING"}
  BY <1>1 DEF Dwelt
<1>2. CASE a.state \in {"MOVING", "STOPPING"} /\ stable >= DwellCycles
  <2> DEFINE b == [PidReset(a) EXCEPT !.stable = stable, !.state = "IDLE"]
  <2>1. Dwelt(a) = b
    BY <1>2 DEF Dwelt
  <2> HIDE DEF stable
  <2>2. b.even = a.even /\ b.fault = a.fault /\ b.still = a.still /\ b.state = "IDLE"
    BY DEF PidReset, Sound, Typed, Fields
  <2>3. QED
    BY <1>2, <2>1, <2>2 DEF Ended
<1>3. CASE a.state \in {"MOVING", "STOPPING"} /\ ~(stable >= DwellCycles)
  <2> DEFINE b == [a EXCEPT !.stable = stable]
  <2>1. Dwelt(a) = b
    BY <1>3 DEF Dwelt
  <2> HIDE DEF stable
  <2>2. /\ b.even = a.even /\ b.fault = a.fault /\ b.still = a.still /\ b.state = a.state
        /\ b.target = a.target /\ b.position = a.position /\ b.velocity = a.velocity
        /\ b.sampled = a.sampled /\ b.integral = a.integral /\ b.measured = a.measured
        /\ b.seeded = a.seeded
    BY DEF Sound, Typed, Fields
  <2>3. QED
    BY <2>1, <2>2
<1>4. QED
  BY <1>1, <1>2, <1>3

LEMMA MotionUpdateWatches ==
  ASSUME NEW a, Sound(a), Watched(a), a.state # "HOMING"
  PROVE  LET b == MotionUpdate(a)
         IN  /\ b.even = a.even /\ Watched(b) /\ b.state # "HOMING"
             /\ b.state = "MOVING" => Pursues(b, a) /\ b.still = a.still
<1> DEFINE d == Dwelt(a)
           b == MotionUpdate(a)
<1>1. /\ Sound(d) /\ d.even = a.even /\ d.fault = a.fault /\ d.still = a.still
      /\ d.state = a.state \/ (d.state = "IDLE" /\ ~Ended(a))
      /\ d.state = "MOVING" => /\ d.target = a.target /\ d.position = a.position
                               /\ d.velocity = a.velocity /\ d.sampled = a.sampled
                               /\ d.integral = a.integral /\ d.measured = a.measured
                               /\ d.seeded = a.seeded
  BY DweltObeys, DweltWatches DEF Obeys
<1>2. b = IF d.state = "MOVING" THEN Drive(d) ELSE Parked(d)
  BY DEF MotionUpdate
<1> HIDE DEF d, b
<1>3. CASE d.state = "MOVING"
  <2>1. /\ b.even = d.even /\ b.fault = d.fault /\ b.still = d.still /\ b.state = "MOVING"
        /\ b.target = d.target /\ b.position = d.position /\ b.velocity = d.velocity
        /\ b.sampled = d.sampled /\ Steered(b, d)
    BY <1>1, <1>2, <1>3, DriveWatches
  <2>2. a.state = "MOVING" /\ a.fault = "NONE"
    BY <1>1, <1>3 DEF Watched, Clear
  <2>3. Derivative(d) = Derivative(a)
    BY <1>1, <1>3 DEF Derivative
  <2>4. Steered(b, a)
    BY <1>1, <1>3, <2>1, <2>3 DEF Steered
  <2>5. b.still >= a.still
    BY <1>1, <2>1 DEF Sound, Typed
  <2>6. Pursues(b, a)
    BY <1>1, <1>3, <2>1, <2>2, <2>4, <2>5 DEF Pursues
  <2>7. Watched(b)
    BY <1>1, <2>1, <2>2 DEF Watched, Clear, Capped
  <2>8. QED
    BY <1>1, <2>1, <2>6, <2>7 DEF b
<1>4. CASE d.state # "MOVING"
  <2>1. b.even = d.even /\ b.fault = d.fault /\ b.still = d.still /\ b.state = d.state
    BY <1>1, <1>2, <1>4 DEF Parked, Sound, Typed, Fields
  <2>2. d.state = a.state \/ a.fault = "NONE"
    BY <1>1 DEF Watched, Clear, Ended
  <2>3. Watched(b)
    BY <1>1, <2>1, <2>2 DEF Watched, Clear, Capped
  <2>4. QED
    BY <1>1, <1>4, <2>1, <2>3 DEF b
<1>5. QED
  BY <1>3, <1>4

LEMMA HomingUpdateWatches ==
  ASSUME NEW a, Sound(a), Watched(a), a.state = "HOMING"
  PROVE  LET b == HomingUpdate(a)
         IN  /\ b.even = a.even /\ Watched(b) /\ b.state # "MOVING"
             /\ b.state = "HOMING" => Pursues(b, a)
<1> DEFINE b == HomingUpdate(a)
<1>1. a.fault = "NONE"
  BY DEF Watched, Clear
<1>2. ASSUME NEW fault \in Faults, fault # "NONE", b = Synced(Tripped(a, fault))
      PROVE  b.even = a.even /\ Watched(b) /\ b.state = "FAULT"
  BY <1>2, TripWatches DEF Watched, Clear, Capped
<1>3. CASE AtMax(a.plant) \/ a.seek >= HomingTimeout
  <2>1. \E fault \in {"INTERNAL", "HOMING_TIMEOUT"} : b = Synced(Tripped(a, fault))
    BY <1>3 DEF HomingUpdate
  <2>2. \E fault \in Faults : fault # "NONE" /\ b = Synced(Tripped(a, fault))
    BY <2>1 DEF Faults
  <2> HIDE DEF b
  <2>3. b.even = a.even /\ Watched(b) /\ b.state = "FAULT"
    BY <1>2, <2>2
  <2>4. QED
    BY <2>3 DEF b
<1>4. CASE ~AtMax(a.plant) /\ ~(a.seek >= HomingTimeout) /\ AtMin(a.plant)
  <2> DEFINE c == SetReference(ClearControl(a), 0)
             d == [c EXCEPT !.position = 0, !.target = 0, !.previous = 0, !.velocity = 0,
                            !.sampled = FALSE, !.state = "IDLE", !.homeContact = TRUE,
                            !.homed = TRUE]
  <2>1. b = d
    BY <1>4 DEF HomingUpdate
  <2>2. DOMAIN c = Fields /\ c.even = a.even /\ c.fault = a.fault /\ c.still = a.still
    BY DEF SetReference, ClearControl, PidReset, Parked, Sound, Typed, Fields
  <2> HIDE DEF c
  <2>3. d.even = a.even /\ d.fault = a.fault /\ d.still = a.still /\ d.state = "IDLE"
    BY <2>2 DEF Fields
  <2> HIDE DEF d, b
  <2>4. Watched(b) /\ b.even = a.even /\ b.state = "IDLE"
    BY <1>1, <2>1, <2>3 DEF Watched, Clear, Capped
  <2>5. QED
    BY <2>4 DEF b
<1>5. CASE ~AtMax(a.plant) /\ ~(a.seek >= HomingTimeout) /\ ~AtMin(a.plant)
  <2> DEFINE next == a.seek + 1
             d == [a EXCEPT !.duty = HomingDuty, !.seek = next]
  <2>1. b = d
    BY <1>5 DEF HomingUpdate
  <2> HIDE DEF next
  <2>2. /\ d.even = a.even /\ d.fault = a.fault /\ d.still = a.still /\ d.state = a.state
        /\ d.target = a.target /\ d.position = a.position /\ d.velocity = a.velocity
        /\ d.sampled = a.sampled /\ d.duty = HomingDuty
    BY DEF Sound, Typed, Fields
  <2> HIDE DEF d, b
  <2>3. Pursues(b, a) /\ Watched(b) /\ b.state = "HOMING" /\ b.even = a.even
    BY <1>1, <1>5, <2>1, <2>2 DEF Pursues, Watched, Clear, Capped
  <2>4. QED
    BY <2>3 DEF b
<1>6. QED
  BY <1>3, <1>4, <1>5

LEMMA ControlUpdateWatches ==
  ASSUME NEW a, Sound(a), Watched(a)
  PROVE  LET b == ControlUpdate(a)
         IN  /\ b.even = a.even /\ Watched(b)
             /\ Active(b) => Pursues(b, a)
<1> DEFINE b == ControlUpdate(a)
           c == Checked(a)
<1>1. /\ Sound(c) /\ c.even = a.even /\ Watched(c)
      /\ c.fault = "NONE" => Passed(c, a)
  BY CheckedObeys, CheckedWatches DEF Obeys, Watched
<1>2. c.fault # "NONE" => c.state = "FAULT"
  BY <1>1 DEF Watched, Clear
<1> HIDE DEF b, c
<1>3. CASE a.state # "HOMING"
  <2> DEFINE g == IF a.homeContact THEN c ELSE a
             m == MotionUpdate(g)
  <2>1. /\ Sound(g) /\ g.even = a.even /\ Watched(g)
        /\ g = a \/ (g.fault = "NONE" => Passed(g, a))
    BY <1>1
  <2>2. g.state # "HOMING"
    BY <1>2, <1>3, <2>1 DEF Passed, Alike
  <2>3. b = m
    BY <1>3 DEF ControlUpdate, b, c
  <2> HIDE DEF g
  <2>4. /\ m.even = g.even /\ Watched(m) /\ m.state # "HOMING"
        /\ m.state = "MOVING" => Pursues(m, g) /\ m.still = g.still
    BY <2>1, <2>2, MotionUpdateWatches
  <2> HIDE DEF m
  <2>5. ASSUME m.state = "MOVING"
        PROVE  Pursues(m, a)
    <3>1. Pursues(m, g) /\ m.still = g.still /\ g.fault = "NONE" /\ g.state = "MOVING"
      BY <2>4, <2>5 DEF Pursues
    <3>2. CASE g = a
      BY <3>1, <3>2
    <3>3. CASE g.fault = "NONE" => Passed(g, a)
      <4>1. Alike(g, a) /\ g.still = Noticed(a)
        BY <3>1, <3>3 DEF Passed
      <4>2. Resisting(a) => g.still >= a.still
        BY <3>1, <4>1 DEF Noticed, Alike, Sound, Typed
      <4>3. Derivative(g) = Derivative(a)
        BY <4>1 DEF Alike, Derivative
      <4>4. Steered(m, a)
        BY <3>1, <4>1, <4>3 DEF Pursues, Steered, Alike
      <4>5. QED
        BY <2>5, <3>1, <4>1, <4>2, <4>4 DEF Pursues, Alike
    <3>4. QED
      BY <2>1, <3>2, <3>3
  <2>6. QED
    BY <2>1, <2>3, <2>4, <2>5 DEF Active, b
<1>4. CASE a.state = "HOMING" /\ ~AtMin(a.plant) /\ ~AtMax(a.plant)
  <2>1. b = HomingUpdate(a)
    BY <1>4 DEF ControlUpdate, b
  <2>2. QED
    BY <1>4, <2>1, HomingUpdateWatches DEF Active, b
<1>5. CASE a.state = "HOMING" /\ ~(~AtMin(a.plant) /\ ~AtMax(a.plant)) /\ c.fault # "NONE"
  <2>1. b = c
    BY <1>5 DEF ControlUpdate, b, c
  <2>2. QED
    BY <1>1, <1>2, <1>5, <2>1 DEF Active, b
<1>6. CASE a.state = "HOMING" /\ ~(~AtMin(a.plant) /\ ~AtMax(a.plant)) /\ c.fault = "NONE"
  <2> DEFINE m == HomingUpdate(c)
  <2>1. b = m
    BY <1>6 DEF ControlUpdate, b, c
  <2>2. c.state = "HOMING" /\ c.plant = a.plant
    BY <1>1, <1>6 DEF Passed, Alike
  <2>3. m.even = c.even /\ Watched(m) /\ m.state # "MOVING"
    BY <1>1, <2>2, HomingUpdateWatches
  <2>4. m.state # "HOMING"
    <3>1. CASE AtMin(a.plant)
      <4>1. m.state = "HOMING" => Pursues(m, c)
        BY <1>1, <2>2, HomingUpdateWatches
      <4> HIDE DEF m
      <4>2. QED
        BY <2>2, <3>1, <4>1 DEF Pursues
    <3>2. CASE AtMax(a.plant)
      <4>1. m = Synced(Tripped(c, "INTERNAL"))
        BY <2>2, <3>2 DEF HomingUpdate
      <4>2. m.state = "FAULT"
        BY <1>1, <4>1, TripWatches DEF Faults
      <4>3. QED
        BY <4>2
    <3>3. QED
      BY <1>6, <3>1, <3>2
  <2> HIDE DEF m
  <2>5. QED
    BY <1>1, <2>1, <2>3, <2>4 DEF Active, b
<1>7. QED
  BY <1>3, <1>4, <1>5, <1>6

\* A command starts, stops or ends an operation; the position stays.
LEMMA MotionCommandWatches ==
  ASSUME NEW a, Sound(a), Watched(a), NEW next, Understood(next)
  PROVE  LET b == MotionCommand(a, next)
         IN  /\ b.even = a.even /\ Watched(b)
             /\ Active(b) => b.position = a.position
<1> DEFINE Fine(b) == /\ b.even = a.even /\ Watched(b)
                      /\ Active(b) => b.position = a.position
<1>1. Fine(a)
  OBVIOUS
<1>2. ASSUME NEW b, Sound(b), b.position = a.position, b.even = a.even
      PROVE  Fine(Checked(b))
  <2> DEFINE c == Checked(b)
  <2>1. c.even = b.even /\ Watched(c) /\ (c.fault = "NONE" => Passed(c, b))
    BY <1>2, CheckedWatches DEF Watched
  <2> HIDE DEF c
  <2>2. Fine(c)
    BY <1>2, <2>1 DEF Watched, Clear, Active, Passed, Alike
  <2>3. QED
    BY <2>2 DEF c
<1>3. CASE next.type \in {"MOVE", "MOVE_REL"}
  <2> DEFINE target == Target(a, next)
             m == Move(a, target)
  <2>1. target \in Int
    BY <1>3 DEF Target, Understood, Sound, Typed
  <2> HIDE DEF target
  <2>2. /\ MotionCommand(a, next) = Checked(m)
        \/ (MotionCommand(a, next) = m /\ a.state = "IDLE")
        \/ MotionCommand(a, next) = a
    BY <1>3 DEF MotionCommand, target
  <2>3. Sound(m)
    BY <2>1, MoveObeys DEF Obeys, Sound
  <2>4. m.even = a.even /\ m.fault = a.fault /\ m.still = a.still /\ m.position = a.position
    BY DEF Move, PidReset, Parked, Sound, Typed, Fields
  <2> HIDE DEF m
  <2>5. a.state = "IDLE" => Fine(m)
    BY <2>4 DEF Watched, Clear, Capped
  <2> HIDE DEF Fine
  <2>6. Fine(MotionCommand(a, next))
    BY <1>1, <1>2, <2>2, <2>3, <2>4, <2>5
  <2>7. QED
    BY <2>6 DEF Fine
<1>4. CASE next.type = "HOME"
  <2> DEFINE b == [ClearControl(a) EXCEPT !.state = "HOMING", !.seek = 0, !.homed = FALSE]
  <2>1. Sound(b)
    BY SeekObeys DEF Obeys
  <2>2. b.even = a.even /\ b.position = a.position
    BY DEF ClearControl, PidReset, Parked, Sound, Typed, Fields
  <2>3. MotionCommand(a, next) = Checked(b) \/ MotionCommand(a, next) = a
    BY <1>4 DEF MotionCommand
  <2> HIDE DEF b, Fine
  <2>4. Fine(MotionCommand(a, next))
    BY <1>1, <1>2, <2>1, <2>2, <2>3
  <2>5. QED
    BY <2>4 DEF Fine
<1>5. CASE next.type = "STOP"
  <2> DEFINE b == [ClearControl(a) EXCEPT !.state = "STOPPING"]
             c == [PidReset(Parked(a)) EXCEPT !.state = "STOPPING", !.stable = 0]
  <2>1. MotionCommand(a, next) = a \/ (Active(a) /\ MotionCommand(a, next) \in {b, c})
    BY <1>5 DEF MotionCommand, Active
  <2>2. /\ b.even = a.even /\ b.fault = a.fault /\ b.still = a.still /\ b.state = "STOPPING"
        /\ c.even = a.even /\ c.fault = a.fault /\ c.still = a.still /\ c.state = "STOPPING"
    BY DEF ClearControl, PidReset, Parked, Sound, Typed, Fields
  <2> HIDE DEF b, c
  <2>3. Active(a) => Fine(b) /\ Fine(c)
    BY <2>2 DEF Watched, Clear, Capped, Active
  <2> HIDE DEF Fine
  <2>4. Fine(MotionCommand(a, next))
    BY <1>1, <2>1, <2>3
  <2>5. QED
    BY <2>4 DEF Fine
<1>6. CASE next.type \notin {"MOVE", "MOVE_REL", "HOME", "STOP"}
  <2>1. MotionCommand(a, next) = a
    BY <1>6 DEF MotionCommand
  <2>2. QED
    BY <1>1, <2>1
<1>7. QED
  BY <1>3, <1>4, <1>5, <1>6

----------------------------------------------------------------------------
(***************************************************************************)
(* One cycle.                                                              *)
(***************************************************************************)
Sensed(a) == Synced(Sample(Supervised(Physics(a))))

\* Nobody has taken a duty away from an operation that no movement answers.
Opposed(a, plant) == Resisting(a) /\ ~(a.state = "HOMING" /\ AtMin(plant))

LEMMA PhysicsWatches ==
  ASSUME NEW a, Sound(a), Confined(a.plant), Watched(a)
  PROVE  LET b == Supervised(Physics(a))
         IN  /\ b.even = ~a.even /\ Capped(b)
             /\ b.fault = "NONE" =>
                  /\ b.state = a.state /\ b.target = a.target /\ b.integral = a.integral
                  /\ b.measured = a.measured /\ b.seeded = a.seeded /\ b.duty = a.duty
                  /\ Opposed(a, b.plant) => /\ a.still > 0 => b.still >= a.still + 1
                                            /\ b.even => b.still >= 1
<1> DEFINE p == PlantSteps(a.plant, a.duty, StepsPerCycle)
           register == Published(a.register, p)
           even == ~a.even
           still == IF a.still > 0 /\ a.fault = "NONE" THEN a.still + 1 ELSE a.still
           c == [a EXCEPT !.plant = p, !.register = register, !.even = even, !.still = still]
           s == Safety(c)
           b == Supervised(c)
<1>1. Confined(p)
  <2>1. StepsPerCycle \in Nat /\ a.duty \in Int
    BY DEF StepsPerCycle, Sound, Typed
  <2>2. QED
    BY <2>1, PlantStepsConfined
<1>2. Physics(a) = c
  BY DEF Physics
<1> HIDE DEF p
<1>3. register \in 0 .. Word - 1 /\ even \in BOOLEAN /\ still \in Nat /\ p \in PlantRecord
  BY <1>1, PublishedRange DEF Confined, Sound, Typed
<1>4. a.still \in Nat /\ a.even \in BOOLEAN
  BY DEF Sound, Typed
<1>5. /\ a.fault = "NONE" /\ a.even => still <= StallTimeout + 1
      /\ a.still > 0 /\ a.fault = "NONE" => still = a.still + 1
  BY <1>4 DEF Watched, Capped, StallTimeout
<1> HIDE DEF register, still
<1>6. /\ Typed(c) /\ c.plant = p /\ c.even = even /\ c.still = still /\ c.fault = a.fault
      /\ c.state = a.state /\ c.target = a.target /\ c.integral = a.integral
      /\ c.measured = a.measured /\ c.seeded = a.seeded /\ c.duty = a.duty
      /\ c.velocity = a.velocity /\ c.stable = a.stable
  BY <1>3 DEF Sound, Typed, Fields
<1> HIDE DEF c
<1>7. Sound(c)
  BY <1>6 DEF Sound
<1>8. b = IF c.even THEN s ELSE c
  BY DEF Supervised
<1>9. /\ Sound(s) /\ s.even = c.even /\ s.plant = c.plant
      /\ s.fault = "NONE" => Passed(s, c)
  BY <1>7, SafetyObeys, SafetyWatches DEF Obeys, Kept
<1> HIDE DEF b, s
<1>10. Resisting(c) <=> Resisting(a)
  BY <1>6 DEF Resisting, Slow
<1>11. CASE c.even
  <2>1. b = s
    BY <1>8, <1>11
  <2>2. s.fault = "NONE" => Alike(s, c) /\ s.still = Noticed(c) /\ s.still <= StallTimeout
    BY <1>9 DEF Passed
  <2>3. Opposed(a, c.plant) => Noticed(c) = IF c.still = 0 THEN 1 ELSE c.still
    BY <1>6, <1>10 DEF Opposed, Noticed
  <2>4. s.fault = "NONE" => c.fault = "NONE"
    BY <2>2 DEF Alike
  <2>5. s.still \in Nat
    BY <1>9 DEF Sound, Typed
  <2>6. Capped(s)
    BY <2>2, <2>5 DEF Capped, StallTimeout
  <2>7. s.fault = "NONE" /\ Opposed(a, s.plant) => /\ a.still > 0 => s.still >= a.still + 1
                                                   /\ s.still >= 1
    BY <1>3, <1>4, <1>5, <1>6, <1>9, <2>2, <2>3, <2>4
  <2>8. QED
    BY <1>2, <1>6, <1>9, <2>1, <2>2, <2>6, <2>7 DEF Alike, b
<1>12. CASE ~c.even
  <2>1. b = c
    BY <1>8, <1>12
  <2>2. Capped(c)
    BY <1>3, <1>4, <1>5, <1>6, <1>12 DEF Capped
  <2>3. c.fault = "NONE" => (a.still > 0 => c.still >= a.still + 1)
    BY <1>3, <1>4, <1>5, <1>6
  <2>4. QED
    BY <1>2, <1>6, <1>12, <2>1, <2>2, <2>3 DEF b
<1>13. QED
  BY <1>11, <1>12

LEMMA SensedWatches ==
  ASSUME NEW a, Sound(a), Confined(a.plant), Watched(a)
  PROVE  LET e == Sensed(a)
         IN  /\ Sound(e) /\ Watched(e) /\ e.even = ~a.even
             /\ e.sampled /\ e.previous = GetCount(e) /\ e.position = e.previous
             /\ e.register = Published(a.register, e.plant) /\ e.offset = a.offset
             /\ e.velocity = IF a.sampled THEN Moved(GetCount(e), a.previous) ELSE 0
             /\ e.fault = "NONE" =>
                  /\ e.state = a.state /\ e.target = a.target /\ e.integral = a.integral
                  /\ e.measured = a.measured /\ e.seeded = a.seeded /\ e.duty = a.duty
                  /\ Opposed(a, e.plant) => /\ a.still > 0 => e.still >= a.still + 1
                                            /\ e.even => e.still >= 1
<1> DEFINE c == Supervised(Physics(a))
           d == Sample(c)
           e == Synced(d)
<1>1. /\ Sound(c) /\ c.register = Published(a.register, c.plant) /\ c.offset = a.offset
      /\ c.previous = a.previous /\ c.sampled = a.sampled
  BY PhysicsFollows
<1>2. /\ c.even = ~a.even /\ Capped(c)
      /\ c.fault = "NONE" =>
           /\ c.state = a.state /\ c.target = a.target /\ c.integral = a.integral
           /\ c.measured = a.measured /\ c.seeded = a.seeded /\ c.duty = a.duty
           /\ Opposed(a, c.plant) => /\ a.still > 0 => c.still >= a.still + 1
                                     /\ c.even => c.still >= 1
  BY PhysicsWatches
<1> HIDE DEF c
<1>3. /\ Sound(d) /\ d.plant = c.plant /\ d.register = c.register /\ d.offset = c.offset
      /\ d.duty = c.duty /\ d.state = c.state /\ d.sampled = TRUE /\ d.previous = GetCount(c)
      /\ d.velocity = IF c.sampled THEN Moved(GetCount(c), c.previous) ELSE 0
  BY <1>1, SampleFollows
<1>4. /\ d.position = d.previous /\ d.fault = c.fault /\ d.still = c.still /\ d.even = c.even
      /\ d.target = c.target /\ d.integral = c.integral /\ d.measured = c.measured
      /\ d.seeded = c.seeded
  BY <1>1 DEF Sample, Sound, Typed, Fields
<1>5. e.position = d.position
  BY <1>3 DEF Synced, ClearControl, PidReset, Parked, Sound, Typed, Fields
<1> HIDE DEF d
<1>6. /\ Sound(e) /\ Kept(e, d) /\ e.even = d.even /\ e.fault = d.fault
      /\ d.fault = "NONE" => e = d
      /\ d.fault # "NONE" => e.state = "FAULT"
  BY <1>3, SyncedObeys, SyncedWatches DEF Obeys
<1> HIDE DEF e
<1>7. GetCount(e) = GetCount(c)
  BY <1>3, <1>6 DEF Kept, GetCount
<1>8. Watched(e)
  BY <1>2, <1>4, <1>6 DEF Watched, Clear, Capped
<1>9. /\ e.even = ~a.even /\ e.sampled /\ e.previous = GetCount(e) /\ e.position = e.previous
      /\ e.register = Published(a.register, e.plant) /\ e.offset = a.offset
      /\ e.velocity = IF a.sampled THEN Moved(GetCount(e), a.previous) ELSE 0
  BY <1>1, <1>2, <1>3, <1>4, <1>5, <1>6, <1>7 DEF Kept
<1>10. e.fault = "NONE" =>
         /\ e.state = a.state /\ e.target = a.target /\ e.integral = a.integral
         /\ e.measured = a.measured /\ e.seeded = a.seeded /\ e.duty = a.duty
         /\ Opposed(a, e.plant) => /\ a.still > 0 => e.still >= a.still + 1
                                   /\ e.even => e.still >= 1
  BY <1>2, <1>3, <1>4, <1>6
<1>11. Sensed(a) = e
  BY DEF Sensed, e, d, c
<1>12. QED
  BY <1>6, <1>8, <1>9, <1>10, <1>11

\* What is true of every axis between two cycles.
Settled(a) ==
  /\ Watched(a)
  /\ a.state = "HOMING" => a.duty = HomingDuty /\ ~AtMin(a.plant)
  /\ Active(a) => a.sampled /\ a.previous = GetCount(a) /\ a.position = a.previous
  /\ a.state = "MOVING" => a.measured = a.position /\ a.seeded

LEMMA CycleSettles ==
  ASSUME NEW a, Sound(a), Confined(a.plant), Watched(a), NEW next, Understood(next)
  PROVE  Settled(CycleOf(a, next)) /\ CycleOf(a, next).even = ~a.even
<1> DEFINE e == Sensed(a)
           f == MotionCommand(e, next)
           b == ControlUpdate(f)
<1>1. /\ Sound(e) /\ Watched(e) /\ e.even = ~a.even
      /\ e.sampled /\ e.previous = GetCount(e) /\ e.position = e.previous
  BY SensedWatches
<1>2. CycleOf(a, next) = b
  BY DEF CycleOf, Motion, Sensed
<1> HIDE DEF e
<1>3. /\ Sound(f) /\ Kept(f, e) /\ f.even = e.even /\ Watched(f)
      /\ Active(f) => f.position = e.position
  BY <1>1, MotionCommandObeys, MotionCommandWatches DEF Obeys
<1> HIDE DEF f
<1>4. /\ Kept(b, f) \/ Referenced(b, f)
      /\ b.even = f.even /\ Watched(b) /\ (Active(b) => Pursues(b, f))
  BY <1>3, ControlUpdateObeys, ControlUpdateWatches DEF Obeys
<1> HIDE DEF b
<1>5. ASSUME Active(b)
      PROVE  /\ b.sampled /\ b.previous = GetCount(b) /\ b.position = b.previous
             /\ b.state = "HOMING" => b.duty = HomingDuty /\ ~AtMin(b.plant)
             /\ b.state = "MOVING" => b.measured = b.position /\ b.seeded
  <2>1. Pursues(b, f) /\ Active(f)
    BY <1>4, <1>5 DEF Pursues, Active
  <2>2. Kept(b, f)
    BY <1>1, <1>3, <1>4, <2>1 DEF Pursues, Kept, Referenced
  <2>3. /\ b.plant = f.plant /\ b.position = e.position /\ b.previous = e.previous
        /\ b.sampled = e.sampled
    BY <1>3, <2>1, <2>2 DEF Pursues, Kept
  <2>4. GetCount(b) = GetCount(e)
    BY <1>3, <2>2 DEF Kept, GetCount
  <2>5. b.state = "HOMING" => b.duty = HomingDuty /\ ~AtMin(b.plant)
    BY <2>1, <2>3 DEF Pursues
  <2>6. b.state = "MOVING" => b.measured = b.position /\ b.seeded
    BY <2>1 DEF Pursues, Steered
  <2>7. QED
    BY <1>1, <2>3, <2>4, <2>5, <2>6
<1>6. QED
  BY <1>1, <1>2, <1>3, <1>4, <1>5 DEF Settled, Active

\* A cycle in which the register stands still.
LEMMA StuckCycle ==
  ASSUME NEW a, Sound(a), Confined(a.plant), Settled(a),
         CycleOf(a, NoCommand).register = a.register, Active(CycleOf(a, NoCommand))
  PROVE  LET b == CycleOf(a, NoCommand)
         IN  /\ b.state = a.state /\ b.target = a.target /\ b.position = a.position
             /\ b.velocity = 0
             /\ b.state = "MOVING" =>
                  LET error == a.target - a.position
                  IN  /\ b.integral = Clamp(a.integral + 2 * error, -MaxIntegral, MaxIntegral)
                      /\ b.duty = Clamp(6000 * error + b.integral, -MaxDuty, MaxDuty)
             /\ Resisting(a) => /\ a.still > 0 => b.still >= a.still + 1
                                /\ ~a.even => b.still >= 1
<1> DEFINE e == Sensed(a)
           b == CycleOf(a, NoCommand)
<1>1. /\ Sound(e) /\ Watched(e) /\ e.even = ~a.even
      /\ e.previous = GetCount(e) /\ e.position = e.previous
      /\ e.offset = a.offset
      /\ e.velocity = IF a.sampled THEN Moved(GetCount(e), a.previous) ELSE 0
      /\ e.fault = "NONE" =>
           /\ e.state = a.state /\ e.target = a.target /\ e.integral = a.integral
           /\ e.measured = a.measured /\ e.seeded = a.seeded /\ e.duty = a.duty
           /\ Opposed(a, e.plant) => /\ a.still > 0 => e.still >= a.still + 1
                                     /\ e.even => e.still >= 1
  BY SensedWatches DEF Settled
<1>2. b = ControlUpdate(e)
  BY DEF CycleOf, Motion, Sensed, MotionCommand, NoCommand
<1> HIDE DEF e
<1>3. (Kept(b, e) \/ Referenced(b, e)) /\ Sound(b) /\ (Active(b) => Pursues(b, e))
  BY <1>1, <1>2, ControlUpdateObeys, ControlUpdateWatches DEF Obeys
<1>4. Active(b) /\ b.register = a.register
  OBVIOUS
<1> HIDE DEF b
<1>5. Pursues(b, e) /\ e.fault = "NONE" /\ b.state = a.state /\ Active(a)
  BY <1>1, <1>3, <1>4 DEF Pursues, Active
<1>6. a.sampled /\ a.previous = GetCount(a) /\ a.position = a.previous
  BY <1>5 DEF Settled
<1>7. GetCount(e) = GetCount(a)
  <2>1. e.register = b.register
    BY <1>3 DEF Kept, Referenced
  <2>2. QED
    BY <1>1, <1>4, <2>1 DEF GetCount
<1>8. e.velocity = 0 /\ e.position = a.position
  <2>1. PICK count : count = GetCount(a)
    OBVIOUS
  <2>2. count \in Int
    BY <2>1, CountType DEF Sound
  <2>3. e.velocity = Signed((count - count) % Word) /\ e.position = count /\ a.position = count
    BY <1>1, <1>6, <1>7, <2>1 DEF Moved
  <2>4. count - count = 0 /\ Word \in Nat \ {0} /\ 0 < Word \div 2
    BY <2>2, AxisAssumption
  <2>5. 0 % Word = 0
    BY <2>4
  <2>6. Signed(0) = 0
    BY <2>4 DEF Signed
  <2>7. QED
    BY <2>3, <2>4, <2>5, <2>6
<1>9. b.target = a.target /\ b.position = a.position /\ b.velocity = 0
  BY <1>1, <1>5, <1>8 DEF Pursues
<1>10. ASSUME b.state = "MOVING"
       PROVE  LET error == a.target - a.position
              IN  /\ b.integral = Clamp(a.integral + 2 * error, -MaxIntegral, MaxIntegral)
                  /\ b.duty = Clamp(6000 * error + b.integral, -MaxDuty, MaxDuty)
  <2>1. Steered(b, e)
    BY <1>5, <1>10 DEF Pursues
  <2>2. a.measured = a.position /\ a.position \in Int
    BY <1>5, <1>10 DEF Settled, Sound, Typed
  <2>3. Derivative(e) = 0
    BY <1>1, <1>5, <1>8, <2>2 DEF Derivative
  <2>4. 6000 * (a.target - a.position) + b.integral + 0 = 6000 * (a.target - a.position) + b.integral
    <3>1. b.integral \in Int /\ a.target \in Int
      BY <1>3, Ranges DEF Sound, Typed
    <3>2. QED
      BY <2>2, <3>1
  <2>5. QED
    BY <1>1, <1>5, <1>8, <2>1, <2>3, <2>4 DEF Steered
<1>11. ASSUME Resisting(a)
       PROVE  /\ a.still > 0 => b.still >= a.still + 1
              /\ ~a.even => b.still >= 1
  <2>1. Opposed(a, e.plant)
    BY <1>5, <1>11 DEF Opposed, Pursues
  <2>2. (a.still > 0 => e.still >= a.still + 1) /\ (~a.even => e.still >= 1)
    BY <1>1, <1>5, <2>1
  <2>3. Slow(e)
    BY <1>8 DEF Slow, Abs
  <2>4. Resisting(e)
    BY <1>1, <1>5, <1>11, <2>3 DEF Resisting
  <2>5. b.still >= e.still
    BY <1>1, <1>5, <2>4 DEF Pursues, Active, Sound, Typed
  <2>6. a.still \in Nat /\ e.still \in Nat /\ b.still \in Nat
    BY <1>1, <1>3 DEF Sound, Typed
  <2>7. QED
    BY <2>2, <2>5, <2>6
<1>12. QED
  BY <1>5, <1>9, <1>10, <1>11 DEF b

\* A stalled plant stays where it is.
LEMMA StalledStays ==
  ASSUME broken = "STALLED", NEW plant, Confined(plant), NEW duty \in Int, NEW count \in Nat
  PROVE  PlantSteps(plant, duty, count).position = plant.position
<1>0. PICK after : /\ Stepped(after, plant, duty, count)
                   /\ PlantSteps(plant, duty, count) = after[count]
  BY StepsAre
<1>1. /\ after = [i \in 0 .. count |-> IF i = 0 THEN plant ELSE PlantStep(after[i - 1], duty)]
      /\ PlantSteps(plant, duty, count) = after[count]
  BY <1>0 DEF Stepped
<1> DEFINE Good(p) == Confined(p) /\ p.position = plant.position
           S == {n \in Nat : n <= count => Good(after[n])}
<1>2. ASSUME NEW p, Good(p)
      PROVE  Good(PlantStep(p, duty))
  <2>1. Confined(PlantStep(p, duty))
    BY <1>2, PlantStepConfined
  <2> DEFINE q == [p EXCEPT !.velocity = 0]
  <2>2. PlantStep(p, duty) = StopAtEnds(q)
    BY DEF PlantStep
  <2>3. p \in PlantRecord /\ p.position \in p.min .. p.max /\ p.min \in Int /\ p.max \in Int
    BY <1>2 DEF Confined, PlantRecord
  <2>4. /\ DOMAIN q = {"position", "velocity", "min", "max"}
        /\ q.position = p.position /\ q.min = p.min /\ q.max = p.max
    BY <2>3 DEF PlantRecord
  <2> HIDE DEF q
  <2>5. StopAtEnds(q).position = Clamp(q.position, q.min, q.max)
    BY <2>4 DEF StopAtEnds
  <2>6. Clamp(q.position, q.min, q.max) = p.position
    BY <2>3, <2>4 DEF Clamp
  <2>7. QED
    BY <1>2, <2>1, <2>2, <2>5, <2>6
<1>3. Good(plant)
  OBVIOUS
<1> HIDE DEF Good
<1>4. 0 \in S
  <2>1. after[0] = plant
    BY <1>1
  <2>2. QED
    BY <1>3, <2>1
<1>5. ASSUME NEW n \in Nat, n \in S
      PROVE  n + 1 \in S
  <2>1. SUFFICES ASSUME n + 1 <= count
                 PROVE  Good(after[n + 1])
    OBVIOUS
  <2>2. n + 1 \in 0 .. count /\ n + 1 # 0 /\ (n + 1) - 1 = n
    BY <2>1
  <2>3. after[n + 1] = PlantStep(after[n], duty)
    BY <1>1, <2>2
  <2>4. Good(after[n])
    BY <1>5, <2>1
  <2>5. QED
    BY <1>2, <2>3, <2>4
<1>6. Nat \subseteq S
  <2> HIDE DEF S
  <2>1. QED
    BY <1>4, <1>5, Induct
<1>7. Good(after[count])
  BY <1>6
<1>8. QED
  BY <1>1, <1>7 DEF Good

----------------------------------------------------------------------------
(***************************************************************************)
(* The cycles since a failure.                                             *)
(***************************************************************************)
\* n cycles after a failure Safety has had the chance to open a candidate, one
\* cycle earlier if that was one of its own.
Due(n) == since >= n \/ (since = n - 1 /\ axis.even)

\* The candidate has been open for all cycles from then on.
Open(n) == axis.still >= 1 /\ axis.still >= since - n + 1

\* The integral that works against the error wears off.
Winding ==
  LET error == axis.target - axis.position
  IN  /\ error >= 50 => axis.integral >= 0 \/ axis.integral >= 100 * since - MaxIntegral
      /\ error <= -50 => axis.integral <= 0 \/ axis.integral <= MaxIntegral - 100 * since

FarOff == axis.target - axis.position >= 50 \/ axis.target - axis.position <= -50

Counted ==
  /\ since >= 1 /\ Active(axis) => axis.velocity = 0
  /\ axis.state = "HOMING" /\ Due(3) => Open(3)
  /\ axis.state = "MOVING" =>
       /\ Winding
       /\ since >= 1 => axis.duty = Clamp(6000 * (axis.target - axis.position) + axis.integral,
                                          -MaxDuty, MaxDuty)
       /\ FarOff /\ Due(52) => Open(52)

StuckInv ==
  /\ Settled(axis)
  /\ OnBench => axis.state = "IDLE"
  /\ broken # "FROZEN" => axis.register = TrueCount(axis.plant) % Word
  /\ broken = "NONE" => since = 0
  /\ broken # "NONE" => ~OnBench /\ Counted

LEMMA CandidateAges ==
  ASSUME NEW n \in Nat, NEW s \in Nat, NEW t \in {s, s + 1}, NEW x \in Nat, NEW y \in Nat,
         NEW even \in BOOLEAN,
         s >= n \/ (s = n - 1 /\ even) => x >= 1 /\ x >= s - n + 1,
         s >= n - 2 => (x > 0 => y >= x + 1) /\ (~even => y >= 1),
         t >= n \/ (t = n - 1 /\ ~even)
  PROVE  y >= 1 /\ y >= t - n + 1
<1>1. s >= n - 2
  OBVIOUS
<1>2. (x > 0 => y >= x + 1) /\ (~even => y >= 1)
  BY <1>1
<1>3. CASE s >= n
  BY <1>2, <1>3
<1>4. CASE s = n - 1 /\ even
  BY <1>2, <1>4
<1>5. CASE s = n - 1 /\ ~even
  BY <1>2, <1>5
<1>6. CASE s = n - 2
  BY <1>2, <1>6
<1>7. QED
  BY <1>1, <1>3, <1>4, <1>5, <1>6

\* The integral gains twice the error, and is limited.
LEMMA IntegralWinds ==
  ASSUME NEW i \in Int, NEW error \in Int, NEW s \in Nat, NEW t \in {s, s + 1}
  PROVE  LET j == Clamp(i + 2 * error, -MaxIntegral, MaxIntegral)
         IN  /\ error >= 50 /\ (i >= 0 \/ i >= 100 * s - MaxIntegral)
                  => j >= 0 \/ j >= 100 * t - MaxIntegral
             /\ error <= -50 /\ (i <= 0 \/ i <= MaxIntegral - 100 * s)
                  => j <= 0 \/ j <= MaxIntegral - 100 * t
BY SMT DEF Clamp, MaxIntegral

\* An error of 50 counts asks for the qualifying duty as soon as the integral
\* does not work against it.
LEMMA DutyQualifies ==
  ASSUME NEW i \in Int, NEW error \in Int,
         \/ error >= 50 /\ i >= 0
         \/ error <= -50 /\ i <= 0
  PROVE  Abs(Clamp(6000 * error + i, -MaxDuty, MaxDuty)) >= StallDuty
BY SMT DEF Clamp, Abs, MaxDuty, StallDuty

LEMMA StillOpposed ==
  ASSUME AxisInv, StuckInv, broken # "NONE", since >= 1, Active(axis)
  PROVE  /\ axis.state = "HOMING" => Resisting(axis)
         /\ axis.state = "MOVING" /\ FarOff /\ since >= 50 => Resisting(axis)
<1>1. axis.velocity = 0
  BY DEF StuckInv, Counted
<1>2. Slow(axis)
  BY <1>1 DEF Slow, Abs
<1>3. ASSUME axis.state = "HOMING"
      PROVE  Resisting(axis)
  <2>1. axis.duty = HomingDuty
    BY <1>3 DEF StuckInv, Settled
  <2>2. Abs(HomingDuty) >= StallDuty
    BY SMT DEF Abs, HomingDuty, StallDuty
  <2>3. QED
    BY <1>2, <1>3, <2>1, <2>2 DEF Resisting
<1>4. ASSUME axis.state = "MOVING", FarOff, since >= 50
      PROVE  Resisting(axis)
  <2> DEFINE error == axis.target - axis.position
  <2>1. error \in Int /\ axis.integral \in Int /\ since \in Nat
    BY Ranges, AxisAssumption DEF AxisInv, Sound, Typed, Paced
  <2>2. Winding /\ axis.duty = Clamp(6000 * error + axis.integral, -MaxDuty, MaxDuty)
    BY <1>4 DEF StuckInv, Counted
  <2>3. \/ error >= 50 /\ (axis.integral >= 0 \/ axis.integral >= 100 * since - MaxIntegral)
        \/ error <= -50 /\ (axis.integral <= 0 \/ axis.integral <= MaxIntegral - 100 * since)
    BY <1>4, <2>2 DEF FarOff, Winding
  <2> HIDE DEF error
  <2>4. 100 * since - MaxIntegral >= 0 /\ MaxIntegral - 100 * since <= 0
    BY <1>4, <2>1, SMT DEF MaxIntegral
  <2>5. \/ error >= 50 /\ axis.integral >= 0
        \/ error <= -50 /\ axis.integral <= 0
    <3>1. MaxIntegral \in Int
      BY Ranges
    <3>2. QED
      BY <2>1, <2>3, <2>4, <3>1
  <2>6. Abs(axis.duty) >= StallDuty
    BY <2>1, <2>2, <2>5, DutyQualifies
  <2>7. QED
    BY <1>2, <1>4, <2>6 DEF Resisting
<1>5. QED
  BY <1>3, <1>4

\* The plant takes its ten steps, and Motion leaves it where it is.
LEMMA CyclePlant ==
  ASSUME NEW a, Sound(a), Confined(a.plant), NEW next, Understood(next)
  PROVE  CycleOf(a, next).plant = PlantSteps(a.plant, a.duty, StepsPerCycle)
<1> DEFINE p == PlantSteps(a.plant, a.duty, StepsPerCycle)
           c == Supervised(Physics(a))
           d == Sample(c)
           e == Synced(d)
           f == MotionCommand(e, next)
           b == ControlUpdate(f)
<1>1. Sound(c) /\ c.plant = p
  BY PhysicsFollows
<1> HIDE DEF p, c
<1>2. Sound(d) /\ d.plant = c.plant
  BY <1>1, SampleFollows
<1> HIDE DEF d
<1>3. Sound(e) /\ Kept(e, d)
  BY <1>2, SyncedObeys DEF Obeys
<1> HIDE DEF e
<1>4. Sound(f) /\ Kept(f, e)
  BY <1>3, MotionCommandObeys DEF Obeys
<1> HIDE DEF f
<1>5. Kept(b, f) \/ Referenced(b, f)
  BY <1>4, ControlUpdateObeys DEF Obeys
<1>6. CycleOf(a, next) = b
  BY DEF CycleOf, Motion, b, c, d, e, f
<1> HIDE DEF b
<1>7. QED
  BY <1>1, <1>2, <1>3, <1>4, <1>5, <1>6 DEF Kept, Referenced, p

\* After a failure the register stands still.
LEMMA RegisterStands ==
  ASSUME AxisInv, StuckInv, broken # "NONE"
  PROVE  CycleOf(axis, NoCommand).register = axis.register
<1> DEFINE b == CycleOf(axis, NoCommand)
<1>1. Sound(axis) /\ Confined(axis.plant) /\ Understood(NoCommand)
  BY DEF AxisInv, OnTravel, Understood, NoCommand
<1>2. /\ b.register = Published(axis.register, b.plant)
      /\ b.plant = PlantSteps(axis.plant, axis.duty, StepsPerCycle)
  BY <1>1, CycleFollows, CyclePlant
<1> HIDE DEF b
<1>3. CASE broken = "FROZEN"
  BY <1>2, <1>3 DEF Published, b
<1>4. CASE broken = "STALLED"
  <2>1. axis.duty \in Int /\ StepsPerCycle \in Nat
    BY <1>1 DEF Sound, Typed, StepsPerCycle
  <2>2. b.plant.position = axis.plant.position
    BY <1>1, <1>2, <1>4, <2>1, StalledStays
  <2>3. TrueCount(b.plant) = TrueCount(axis.plant)
    BY <2>2 DEF TrueCount
  <2>4. QED
    BY <1>2, <1>4, <2>3 DEF Published, StuckInv, b
<1>5. QED
  BY <1>3, <1>4 DEF AxisInv, Paced

\* Every cycle after a failure counts for an operation that goes on.
LEMMA FailedCycle ==
  ASSUME AxisInv, StuckInv, broken # "NONE", Wait
  PROVE  Counted'
<1> SUFFICES ASSUME Active(axis') PROVE Counted'
  BY DEF Counted, Active
<1> PICK b : b = axis'
  OBVIOUS
<1> PICK a : a = axis
  OBVIOUS
<1> DEFINE error == a.target - a.position
<1>1. b = CycleOf(axis, NoCommand)
  BY DEF Wait, Advance, Cycled, CycleOf
<1>2. Sound(a) /\ Confined(a.plant) /\ Settled(a) /\ Understood(NoCommand)
  BY DEF AxisInv, OnTravel, StuckInv, Understood, NoCommand
<1>3. Sound(b) /\ b.even = ~a.even
  BY <1>1, <1>2, CycleFollows, CycleSettles DEF Settled
<1>4. /\ b.state = a.state /\ b.target = a.target /\ b.position = a.position
      /\ b.velocity = 0
      /\ b.state = "MOVING" =>
           /\ b.integral = Clamp(a.integral + 2 * error, -MaxIntegral, MaxIntegral)
           /\ b.duty = Clamp(6000 * error + b.integral, -MaxDuty, MaxDuty)
      /\ Resisting(a) => /\ a.still > 0 => b.still >= a.still + 1
                         /\ ~a.even => b.still >= 1
  BY <1>1, <1>2, RegisterStands, StuckCycle
<1>5. /\ since \in Nat /\ since' \in {since, since + 1}
      /\ a.still \in Nat /\ b.still \in Nat /\ a.even \in BOOLEAN
      /\ error \in Int /\ a.integral \in Int
  <2>1. since \in Nat /\ since' \in {since, since + 1}
    BY AxisAssumption DEF Wait, AxisInv, Paced
  <2>2. QED
    BY <1>2, <1>3, <2>1, Ranges DEF Sound, Typed
<1>6. Counted /\ Active(a)
  BY <1>4 DEF StuckInv, Active
<1>7. ASSUME b.state = "HOMING", Due(3)'
      PROVE  Open(3)'
  <2>1. since >= 1 => Resisting(a)
    BY <1>4, <1>6, <1>7, StillOpposed
  <2>2. since >= 3 \/ (since = 3 - 1 /\ a.even) => a.still >= 1 /\ a.still >= since - 3 + 1
    BY <1>4, <1>6, <1>7 DEF Counted, Due, Open
  <2>3. since' >= 3 \/ (since' = 3 - 1 /\ ~a.even)
    BY <1>3, <1>7 DEF Due
  <2>4. since >= 3 - 2 => (a.still > 0 => b.still >= a.still + 1) /\ (~a.even => b.still >= 1)
    BY <1>4, <2>1
  <2>5. b.still >= 1 /\ b.still >= since' - 3 + 1
    BY <1>5, <2>2, <2>3, <2>4, CandidateAges
  <2>6. QED
    BY <2>5 DEF Open
<1>8. ASSUME b.state = "MOVING"
      PROVE  /\ Winding'
             /\ b.duty = Clamp(6000 * (b.target - b.position) + b.integral, -MaxDuty, MaxDuty)
             /\ FarOff' /\ Due(52)' => Open(52)'
  <2>1. Winding'
    <3>1. Winding
      BY <1>4, <1>6, <1>8 DEF Counted
    <3>2. /\ error >= 50 => a.integral >= 0 \/ a.integral >= 100 * since - MaxIntegral
          /\ error <= -50 => a.integral <= 0 \/ a.integral <= MaxIntegral - 100 * since
      BY <3>1 DEF Winding
    <3> DEFINE j == Clamp(a.integral + 2 * error, -MaxIntegral, MaxIntegral)
    <3> HIDE DEF error
    <3>3. /\ error >= 50 => j >= 0 \/ j >= 100 * since' - MaxIntegral
          /\ error <= -50 => j <= 0 \/ j <= MaxIntegral - 100 * since'
      BY <1>5, <3>2, IntegralWinds
    <3> HIDE DEF j
    <3>4. b.integral = j
      BY <1>4, <1>8 DEF j
    <3>5. QED
      BY <1>4, <3>3, <3>4 DEF Winding, error
  <2>2. ASSUME FarOff', Due(52)'
        PROVE  Open(52)'
    <3>1. FarOff
      BY <1>4, <2>2 DEF FarOff
    <3>2. since >= 50 => Resisting(a)
      BY <1>4, <1>5, <1>6, <1>8, <3>1, StillOpposed
    <3>3. since >= 52 \/ (since = 52 - 1 /\ a.even) => a.still >= 1 /\ a.still >= since - 52 + 1
      BY <1>4, <1>6, <1>8, <3>1 DEF Counted, Due, Open
    <3>4. since' >= 52 \/ (since' = 52 - 1 /\ ~a.even)
      BY <1>3, <2>2 DEF Due
    <3>5. since >= 52 - 2 => (a.still > 0 => b.still >= a.still + 1) /\ (~a.even => b.still >= 1)
      BY <1>4, <3>2
    <3>6. b.still >= 1 /\ b.still >= since' - 52 + 1
      BY <1>5, <3>3, <3>4, <3>5, CandidateAges
    <3>7. QED
      BY <3>6 DEF Open
  <2>3. QED
    BY <1>4, <1>8, <2>1, <2>2
<1>9. QED
  BY <1>4, <1>7, <1>8 DEF Counted

LEMMA InitStuck == Init => StuckInv
<1> SUFFICES ASSUME Init PROVE StuckInv
  OBVIOUS
<1> DEFINE s == Scenarios[scenario]
           plant == [position |-> s.start * Unit, velocity |-> 0, min |-> s.min * Unit,
                     max |-> s.max * Unit]
           register == TrueCount(plant) % Word
           raw == [plant |-> plant, register |-> register, offset |-> 0, duty |-> 0,
                   state |-> "IDLE", fault |-> "NONE", position |-> 0, previous |-> 0,
                   velocity |-> 0, sampled |-> FALSE, target |-> 0, stable |-> 0, integral |-> 0,
                   measured |-> 0, seeded |-> FALSE, seek |-> 0, homed |-> FALSE,
                   homeContact |-> FALSE, still |-> 0, even |-> TRUE]
           offset == (s.shown - register) % Word
<1>1. axis = [raw EXCEPT !.offset = offset]
  BY DEF Init, Start, SetReference
<1> HIDE DEF plant, register, offset
<1>2. /\ axis.plant = plant /\ axis.register = register /\ axis.state = "IDLE"
      /\ axis.fault = "NONE" /\ axis.still = 0
  BY <1>1
<1>3. Watched(axis)
  BY <1>2 DEF Watched, Clear, Capped, StallTimeout
<1>4. Settled(axis)
  BY <1>2, <1>3 DEF Settled, Active
<1>5. broken = "NONE" /\ since = 0
  BY DEF Init
<1>6. axis.register = TrueCount(axis.plant) % Word
  BY <1>2 DEF register
<1>7. QED
  BY <1>2, <1>4, <1>5, <1>6 DEF StuckInv

LEMMA AdvanceSettles ==
  ASSUME AxisInv, StuckInv, ~OnBench, NEW next, Understood(next), Advance(next),
         scenario' = scenario, broken' = broken
  PROVE  /\ Settled(axis') /\ ~OnBench'
         /\ broken # "FROZEN" => axis'.register = TrueCount(axis'.plant) % Word
<1>1. axis' = CycleOf(axis, next)
  BY DEF Advance, Cycled, CycleOf
<1>2. Sound(axis) /\ Confined(axis.plant) /\ Watched(axis)
  BY DEF AxisInv, OnTravel, StuckInv, Settled
<1> PICK b : b = axis'
  OBVIOUS
<1>3. b = CycleOf(axis, next)
  BY <1>1
<1>4. Settled(b) /\ b.register = Published(axis.register, b.plant)
  BY <1>2, <1>3, CycleFollows, CycleSettles
<1>5. QED
  BY <1>4 DEF Published, OnBench

LEMMA WaitStuck ==
  ASSUME AxisInv, StuckInv, ~OnBench, Wait
  PROVE  StuckInv'
<1>1. Advance(NoCommand) /\ scenario' = scenario /\ broken' = broken
  BY DEF Wait
<1>2. Understood(NoCommand)
  BY DEF Understood, NoCommand
<1>3. /\ Settled(axis') /\ ~OnBench'
      /\ broken # "FROZEN" => axis'.register = TrueCount(axis'.plant) % Word
  BY <1>1, <1>2, AdvanceSettles
<1>4. broken = "NONE" => since' = 0
  BY DEF Wait, StuckInv
<1>5. broken # "NONE" => Counted'
  BY FailedCycle
<1>6. QED
  BY <1>1, <1>3, <1>4, <1>5 DEF StuckInv

LEMMA CommandStuck ==
  ASSUME AxisInv, StuckInv, ~OnBench, Issue \/ Stop
  PROVE  StuckInv'
<1>1. PICK next : Understood(next) /\ Advance(next)
  <2>1. CASE Issue
    <3>1. plan # <<>> /\ Advance(Head(plan)) /\ Head(plan).type \in {"MOVE", "MOVE_REL", "HOME"}
      BY <2>1 DEF Issue
    <3>2. plan \in Seq(PlanSteps(Low, High))
      BY DEF AxisInv, OnTravel
    <3>3. Head(plan) \in PlanSteps(Low, High)
      BY <3>1, <3>2
    <3>4. Understood(Head(plan))
      BY <3>1, <3>3 DEF Understood, PlanSteps
    <3>5. QED
      BY <3>1, <3>4
  <2>2. CASE Stop
    <3> DEFINE next == [type |-> "STOP", value |-> 0]
    <3>1. Advance(next)
      BY <2>2 DEF Stop
    <3>2. Understood(next)
      BY DEF Understood
    <3>3. QED
      BY <3>1, <3>2
  <2>3. QED
    BY <2>1, <2>2
<1>2. scenario' = scenario /\ broken' = broken /\ since' = since /\ broken = "NONE"
  BY DEF Issue, Stop
<1>3. /\ Settled(axis') /\ ~OnBench'
      /\ broken # "FROZEN" => axis'.register = TrueCount(axis'.plant) % Word
  BY <1>1, <1>2, AdvanceSettles
<1>4. QED
  BY <1>2, <1>3 DEF StuckInv

\* At the moment of the failure nothing is counted yet.
LEMMA BreakStuck ==
  ASSUME AxisInv, StuckInv, ~OnBench, NEW kind \in {"STALLED", "FROZEN"}, Break(kind)
  PROVE  StuckInv'
<1>1. /\ broken' = kind /\ broken = "NONE" /\ scenario' = scenario /\ axis' = axis /\ since' = 0
      /\ since = 0
  BY DEF Break, StuckInv
<1>2. Settled(axis') /\ ~OnBench'
  BY <1>1 DEF StuckInv, OnBench
<1>3. axis'.register = TrueCount(axis'.plant) % Word
  BY <1>1 DEF StuckInv
<1>4. Counted'
  <2>1. Winding'
    <3>1. axis.integral \in -MaxIntegral .. MaxIntegral /\ MaxIntegral \in Nat
      BY Ranges DEF AxisInv, Sound, Typed
    <3>2. axis.integral >= 100 * 0 - MaxIntegral /\ axis.integral <= MaxIntegral - 100 * 0
      BY <3>1
    <3>3. QED
      BY <1>1, <3>2 DEF Winding
  <2>2. ~Due(3)' /\ ~Due(52)'
    BY <1>1 DEF Due
  <2>3. QED
    BY <1>1, <2>1, <2>2 DEF Counted
<1>5. QED
  BY <1>1, <1>2, <1>3, <1>4 DEF StuckInv

\* On the bench the controller is idle.
LEMMA BenchedStuck ==
  ASSUME AxisInv, StuckInv, OnBench, Bench \/ Place
  PROVE  StuckInv'
<1>1. scenario' = scenario /\ broken' = broken /\ since' = since
  BY DEF Bench, Place
<1>2. axis.state = "IDLE" /\ broken = "NONE" /\ since = 0 /\ Typed(axis) /\ Watched(axis)
  BY DEF StuckInv, AxisInv, Sound, Settled
<1>3. PICK p, duty : axis' = [axis EXCEPT !.plant = p, !.register = Published(axis.register, p),
                                          !.duty = duty]
  <2>1. CASE Bench
    <3> DEFINE segment == Head(plan)
               count == IF segment.steps < StepsPerCycle THEN segment.steps ELSE StepsPerCycle
               p == PlantSteps(axis.plant, segment.value, count)
    <3>1. axis' = [axis EXCEPT !.plant = p, !.register = Published(axis.register, p),
                               !.duty = segment.value]
      BY <2>1 DEF Bench
    <3> HIDE DEF p, segment
    <3>2. QED
      BY <3>1
  <2>2. CASE Place
    <3> DEFINE p == [axis.plant EXCEPT !.position = Head(plan).value * Unit, !.velocity = 0]
    <3>1. axis' = [Parked(axis) EXCEPT !.plant = p, !.register = Published(@, p)]
      BY <2>2 DEF Place
    <3> HIDE DEF p
    <3>2. Parked(axis).register = axis.register
      BY <1>2 DEF Parked, Typed, Fields
    <3> DEFINE register == Published(axis.register, p)
    <3>3. axis' = [Parked(axis) EXCEPT !.plant = p, !.register = register]
      BY <3>1, <3>2
    <3> HIDE DEF register
    <3>4. axis' = [axis EXCEPT !.plant = p, !.register = register, !.duty = 0]
      BY <1>2, <3>3 DEF Parked, Typed, Fields
    <3>5. QED
      BY <3>4 DEF register
  <2>3. QED
    BY <2>1, <2>2
<1> PICK b : b = axis'
  OBVIOUS
<1> DEFINE register == Published(axis.register, p)
<1>4. b = [axis EXCEPT !.plant = p, !.register = register, !.duty = duty]
  BY <1>3
<1> HIDE DEF register
<1>5. /\ b.plant = p /\ b.register = register /\ b.state = "IDLE" /\ b.fault = axis.fault
      /\ b.still = axis.still /\ b.even = axis.even
  BY <1>2, <1>4 DEF Typed, Fields
<1>6. Settled(b)
  BY <1>2, <1>5 DEF Settled, Watched, Clear, Capped, Active
<1>7. b.register = TrueCount(b.plant) % Word
  BY <1>2, <1>5 DEF Published, register
<1>8. QED
  BY <1>1, <1>2, <1>5, <1>6, <1>7 DEF StuckInv

LEMMA NextStuck ==
  ASSUME AxisInv, StuckInv, [Next]_vars
  PROVE  StuckInv'
<1>1. CASE UNCHANGED vars
  BY <1>1 DEF vars, StuckInv, OnBench, Counted, Due, Open, Winding, FarOff
<1>2. CASE Next
  BY <1>2, BenchedStuck, WaitStuck, CommandStuck, BreakStuck DEF Next
<1>3. QED
  BY <1>1, <1>2

\* The candidate cannot have been open for as long as the failure is old.
LEMMA StuckEnds ==
  ASSUME AxisInv, StuckInv, Patience >= 103
  PROVE  StuckIsCaught
<1> SUFFICES ASSUME since >= Patience
             PROVE  /\ axis.state # "HOMING"
                    /\ axis.state = "MOVING"
                         => 6000 * Abs(axis.target - axis.position) < StallDuty
  BY DEF StuckIsCaught
<1>1. since \in Nat /\ since >= 103 /\ axis.still \in Nat
  BY AxisAssumption DEF AxisInv, Paced, Sound, Typed
<1>2. Counted
  BY <1>1 DEF StuckInv
<1>3. Active(axis) => axis.still <= 51
  BY <1>1 DEF StuckInv, Settled, Watched, Clear, Capped, Active, StallTimeout
<1>4. Due(3) /\ Due(52) /\ (~Open(3) \/ ~Active(axis))
  BY <1>1, <1>3 DEF Due, Open
<1>5. ~Open(52) \/ ~Active(axis)
  BY <1>1, <1>3 DEF Open
<1>6. axis.state # "HOMING"
  BY <1>2, <1>4 DEF Counted, Active
<1>7. ASSUME axis.state = "MOVING"
      PROVE  6000 * Abs(axis.target - axis.position) < StallDuty
  <2>1. ~FarOff
    BY <1>2, <1>4, <1>5, <1>7 DEF Counted, Active
  <2> DEFINE error == axis.target - axis.position
  <2>2. error \in Int /\ error < 50 /\ error > -50
    BY <2>1 DEF FarOff, AxisInv, Sound, Typed
  <2> HIDE DEF error
  <2>3. 6000 * Abs(error) < StallDuty
    BY <2>2, SMT DEF Abs, StallDuty
  <2>4. QED
    BY <2>3 DEF error
<1>8. QED
  BY <1>6, <1>7

----------------------------------------------------------------------------
(***************************************************************************)
(* A step of the plant in numbers.                                         *)
(***************************************************************************)
Near(r, n) == r \in Int /\ n - 500 <= 1000 * r /\ 1000 * r <= n + 500

LEMMA RoundNear ==
  ASSUME NEW n \in Int
  PROVE  Near(Round(n, 1000), n)
<1>1. CASE n >= 0
  <2> DEFINE q == (2 * n + 1000) \div 2000
  <2>1. q \in Int /\ 2000 * q <= 2 * n + 1000 /\ 2 * n + 1000 < 2000 * q + 2000
    BY SMT
  <2>2. Round(n, 1000) = q
    BY <1>1, SMT DEF Round
  <2> HIDE DEF q
  <2>3. QED
    BY <2>1, <2>2 DEF Near
<1>2. CASE ~(n >= 0)
  <2> DEFINE m == -n
             q == (2 * m + 1000) \div 2000
  <2>1. q \in Int /\ 2000 * q <= 2 * m + 1000 /\ 2 * m + 1000 < 2000 * q + 2000
    BY SMT
  <2>2. Round(n, 1000) = -q
    BY <1>2, SMT DEF Round
  <2> HIDE DEF q
  <2>3. QED
    BY <2>1, <2>2 DEF Near
<1>3. QED
  BY <1>1, <1>2

LEMMA PlantNumbers ==
  ASSUME NEW p, Confined(p)
  PROVE  /\ p.position \in Int /\ p.velocity \in Int /\ p.min \in Int /\ p.max \in Int
         /\ p.min <= p.position /\ p.position <= p.max
         /\ MaxVelocity \in Nat /\ -MaxVelocity <= p.velocity /\ p.velocity <= MaxVelocity
<1>1. MaxVelocity \in Nat
  BY DEF MaxVelocity, Unit
<1>2. /\ p.position \in Int /\ p.velocity \in -MaxVelocity .. MaxVelocity
      /\ p.min \in Int /\ p.max \in Int /\ p.position \in p.min .. p.max
  BY DEF Confined, PlantRecord
<1>3. QED
  BY <1>1, <1>2

\* The speed a step is made at and the place it leads to, before the stops.
Arrives(q, p, v, x) ==
  /\ q.min = p.min /\ q.max = p.max
  /\ q.position = Clamp(x, p.min, p.max)
  /\ q.velocity = IF (x <= p.min /\ v < 0) \/ (x >= p.max /\ v > 0) THEN 0 ELSE v

Travels(q, p, duty) ==
  \E v \in Int, x \in Int :
    /\ v = Accelerated(p.velocity, duty) /\ x = p.position + Round(v, 1000)
    /\ Arrives(q, p, v, x)

LEMMA StepArrives ==
  ASSUME broken # "STALLED", NEW p, Confined(p), NEW duty \in Int
  PROVE  Travels(PlantStep(p, duty), p, duty)
<1> DEFINE v == Accelerated(p.velocity, duty)
           x == p.position + Round(v, 1000)
           m == [p EXCEPT !.velocity = v, !.position = x]
<1>1. p \in PlantRecord /\ p.velocity \in Int /\ p.position \in Int /\ MaxVelocity \in Nat
  BY PlantNumbers DEF Confined
<1>2. v \in Int
  <2>1. v \in -MaxVelocity .. MaxVelocity
    BY <1>1, AcceleratedRange
  <2>2. QED
    BY <1>1, <2>1
<1>3. x \in Int
  BY <1>1, <1>2, RoundNear DEF Near
<1>4. PlantStep(p, duty) = StopAtEnds(m)
  BY <1>1 DEF PlantStep, PlantRecord
<1> HIDE DEF v, x
<1>5. m.velocity = v /\ m.position = x /\ m.min = p.min /\ m.max = p.max
      /\ DOMAIN m = {"position", "velocity", "min", "max"}
  BY <1>1 DEF PlantRecord
<1> HIDE DEF m
<1>6. Arrives(StopAtEnds(m), p, v, x)
  BY <1>5 DEF StopAtEnds, Arrives
<1>7. QED
  BY <1>2, <1>3, <1>4, <1>6 DEF v, x, Travels

\* What a step adds to the speed, and the limit of the speed.
Gains(u, v, duty) ==
  \E w \in Int :
    /\ 1000 * w >= 996 * v + 200 * duty - 500 /\ 1000 * w <= 996 * v + 200 * duty + 500
    /\ u = Clamp(w, -MaxVelocity, MaxVelocity)

LEMMA AcceleratedNear ==
  ASSUME NEW v \in Int, NEW duty \in Int
  PROVE  Gains(Accelerated(v, duty), v, duty)
<1> DEFINE n == 200 * duty - 4 * v
           r == Round(n, 1000)
           w == v + r
<1>1. n \in Int
  OBVIOUS
<1>2. r \in Int /\ n - 500 <= 1000 * r /\ 1000 * r <= n + 500
  <2> HIDE DEF n
  <2>1. QED
    BY <1>1, RoundNear DEF Near
<1>3. Accelerated(v, duty) = Clamp(w, -MaxVelocity, MaxVelocity)
  BY DEF Accelerated
<1> HIDE DEF r
<1>4. w \in Int /\ 1000 * w >= 996 * v + 200 * duty - 500 /\ 1000 * w <= 996 * v + 200 * duty + 500
  BY <1>2
<1>5. QED
  BY <1>3, <1>4 DEF Gains

----------------------------------------------------------------------------
(***************************************************************************)
(* A seek reaches the switch.  What is left of the speed and of the way    *)
(* falls with every step at the duty of homing, until the axis is at the   *)
(* switch and stays there.                                                 *)
(***************************************************************************)
Ahead(p) == 996 * p.velocity + 4000 * p.position

\* By how much, in one step.
Approach == 59997500

Arrived(p) == AtMin(p) /\ p.velocity <= 500

LEMMA SeekStep ==
  ASSUME broken # "STALLED", NEW p, Confined(p)
  PROVE  LET q == PlantStep(p, HomingDuty)
         IN  /\ Arrived(q) \/ Ahead(q) <= Ahead(p) - Approach
             /\ Arrived(p) => Arrived(q)
<1> DEFINE q == PlantStep(p, HomingDuty)
<1>1. HomingDuty = -300000 /\ MaxVelocity = 60000000 /\ HomingDuty \in Int
  BY SMT DEF HomingDuty, MaxVelocity, Unit
<1>2. PICK v \in Int, x \in Int :
        v = Accelerated(p.velocity, HomingDuty) /\ x = p.position + Round(v, 1000)
        /\ Arrives(q, p, v, x)
  <2>1. HomingDuty \in Int
    BY <1>1, SMT
  <2>2. Travels(q, p, HomingDuty)
    BY <2>1, StepArrives, Zenon
  <2>3. QED
    BY <2>2, Zenon DEF Travels
<1>3. /\ p.velocity \in Int /\ p.position \in Int /\ p.min \in Int /\ p.max \in Int
      /\ -60000000 <= p.velocity /\ p.velocity <= 60000000
      /\ p.min <= p.position /\ p.position <= p.max
  BY <1>1, PlantNumbers, SMT
<1>4. PICK w \in Int : /\ 1000 * w >= 996 * p.velocity + 200 * HomingDuty - 500
                       /\ 1000 * w <= 996 * p.velocity + 200 * HomingDuty + 500
                       /\ Accelerated(p.velocity, HomingDuty) = Clamp(w, -MaxVelocity, MaxVelocity)
  <2>1. p.velocity \in Int /\ HomingDuty \in Int
    BY <1>1, <1>3, SMT
  <2>2. Gains(Accelerated(p.velocity, HomingDuty), p.velocity, HomingDuty)
    BY <2>1, AcceleratedNear, Zenon
  <2>3. QED
    BY <2>2, SMT DEF Gains
<1>5. v = w
  BY <1>1, <1>2, <1>3, <1>4, SMT DEF Clamp
<1>6. 1000 * v >= 996 * p.velocity - 60000500 /\ 1000 * v <= 996 * p.velocity - 59999500
  BY <1>1, <1>3, <1>4, <1>5, SMT
<1>7. PICK r \in Int : r = Round(v, 1000) /\ v - 500 <= 1000 * r /\ 1000 * r <= v + 500
  <2>1. Near(Round(v, 1000), v)
    BY RoundNear, Zenon
  <2>2. QED
    BY <2>1, SMT DEF Near
<1>8. x = p.position + r
  BY <1>2, <1>7, SMT
<1>9. q.min = p.min /\ q.position = Clamp(x, p.min, p.max)
      /\ q.velocity = IF (x <= p.min /\ v < 0) \/ (x >= p.max /\ v > 0) THEN 0 ELSE v
  BY <1>2, SMT DEF Arrives
<1> HIDE DEF q
<1>10. q.velocity \in Int /\ q.position \in Int
  BY <1>3, <1>9, SMT DEF Clamp
<1>11. CASE x <= p.min
  <2>1. q.position = p.min
    BY <1>3, <1>9, <1>11, SMT DEF Clamp
  <2>2. 1000 * r <= 0
    BY <1>3, <1>8, <1>11, SMT
  <2>3. q.velocity <= 500
    BY <1>7, <1>9, <2>2, SMT
  <2>4. QED
    BY <1>3, <1>9, <2>1, <2>3, SMT DEF Arrived, AtMin, q
<1>12. CASE ~(x <= p.min)
  <2>1. q.position <= x /\ q.velocity <= v
    BY <1>3, <1>9, <1>12, SMT DEF Clamp
  <2>2. 996 * q.velocity + 4000 * q.position <= 996 * v + 4000 * (p.position + r)
    BY <1>8, <1>10, <2>1, SMT
  <2>3. 996 * v + 4000 * (p.position + r) <= (996 * p.velocity + 4000 * p.position) - 59997500
    BY <1>3, <1>6, <1>7, SMT
  <2>4. Ahead(q) <= Ahead(p) - Approach
    BY <1>3, <1>10, <2>2, <2>3, SMT DEF Ahead, Approach
  <2>5. ~Arrived(p)
    <3>1. p.position <= p.min /\ p.velocity <= 500 => r <= 0
      BY <1>3, <1>6, <1>7, SMT
    <3>2. QED
      BY <1>3, <1>8, <1>12, <3>1, SMT DEF Arrived, AtMin
  <2>6. QED
    BY <2>4, <2>5, SMT DEF q
<1>13. QED
  BY <1>11, <1>12, SMT

\* Ten steps, and any other number of them.
LEMMA SeekSteps ==
  ASSUME broken # "STALLED", NEW p, Confined(p), NEW count \in Nat
  PROVE  LET q == PlantSteps(p, HomingDuty, count)
         IN  Arrived(q) \/ Ahead(q) <= Ahead(p) - Approach * count
<1>0. PICK after : /\ Stepped(after, p, HomingDuty, count)
                   /\ PlantSteps(p, HomingDuty, count) = after[count]
  BY StepsAre, Zenon
<1>1. after = [i \in 0 .. count |-> IF i = 0 THEN p ELSE PlantStep(after[i - 1], HomingDuty)]
  BY <1>0, Zenon DEF Stepped
<1> DEFINE Good(q, n) == Confined(q) /\ (Arrived(q) \/ Ahead(q) <= Ahead(p) - Approach * n)
           S == {n \in Nat : n <= count => Good(after[n], n)}
<1>2. ASSUME NEW q, Confined(q)
      PROVE  Ahead(q) \in Int
  BY <1>2, PlantNumbers, SMT DEF Ahead
<1>3. ASSUME NEW q, NEW n \in Nat, Good(q, n)
      PROVE  Good(PlantStep(q, HomingDuty), n + 1)
  <2> DEFINE r == PlantStep(q, HomingDuty)
  <2>1. HomingDuty \in Int
    BY SMT DEF HomingDuty
  <2>2. Confined(r)
    BY <1>3, <2>1, PlantStepConfined, Zenon
  <2>3. /\ Arrived(r) \/ Ahead(r) <= Ahead(q) - Approach
        /\ Arrived(q) => Arrived(r)
    BY <1>3, SeekStep, Zenon
  <2>4. Ahead(p) \in Int /\ Ahead(q) \in Int /\ Ahead(r) \in Int
    BY <1>2, <1>3, <2>2, Zenon
  <2> HIDE DEF r
  <2>5. Arrived(r) \/ Ahead(r) <= Ahead(p) - Approach * (n + 1)
    BY <1>3, <2>3, <2>4, SMT DEF Approach
  <2>6. QED
    BY <2>2, <2>5, SMT DEF r
<1>4. Good(p, 0)
  BY <1>2, SMT DEF Approach
<1> HIDE DEF Good
<1>5. 0 \in S
  <2>1. after[0] = p
    BY <1>1
  <2>2. QED
    BY <1>4, <2>1
<1>6. ASSUME NEW n \in Nat, n \in S
      PROVE  n + 1 \in S
  <2>1. SUFFICES ASSUME n + 1 <= count
                 PROVE  Good(after[n + 1], n + 1)
    OBVIOUS
  <2>2. n + 1 \in 0 .. count /\ n + 1 # 0 /\ (n + 1) - 1 = n
    BY <2>1
  <2>3. after[n + 1] = PlantStep(after[n], HomingDuty)
    BY <1>1, <2>2
  <2>4. Good(after[n], n)
    BY <1>6, <2>1
  <2>5. QED
    BY <1>3, <2>3, <2>4
<1>7. Nat \subseteq S
  <2> HIDE DEF S
  <2>1. QED
    BY <1>5, <1>6, Induct
<1>8. Good(after[count], count)
  BY <1>7
<1>9. QED
  BY <1>0, <1>8, Zenon DEF Good

LEMMA SeekCycle ==
  ASSUME broken # "STALLED", NEW p, Confined(p)
  PROVE  LET q == PlantSteps(p, HomingDuty, StepsPerCycle)
         IN  AtMin(q) \/ Ahead(q) <= Ahead(p) - 10 * Approach
<1> PICK count \in Nat : count = StepsPerCycle /\ count = 10
  BY SMT DEF StepsPerCycle
<1>1. \/ Arrived(PlantSteps(p, HomingDuty, count))
      \/ Ahead(PlantSteps(p, HomingDuty, count)) <= Ahead(p) - Approach * count
  BY SeekSteps, Zenon
<1>2. Approach * count = 10 * Approach
  BY SMT DEF Approach
<1>3. QED
  BY <1>1, <1>2, Zenon DEF Arrived

----------------------------------------------------------------------------
(***************************************************************************)
(* What the cycle's functions do to the latch, to the guarded switch and   *)
(* to the clock of a seek.                                                 *)
(***************************************************************************)
Verdicts == {"POSITIVE_LIMIT", "NEGATIVE_LIMIT", "NO_MOTION"}

\* Safety has its verdicts, keeps a latched fault, and clears the guard off the
\* switch.
Judged(b, a) ==
  /\ b.seek = a.seek
  /\ b.fault = a.fault \/ (a.fault = "NONE" /\ b.fault \in Verdicts)
  /\ b.fault = "NO_MOTION" =>
       \/ a.fault = "NO_MOTION"
       \/ Noticed(a) > StallTimeout /\ ~AtMax(a.plant) /\ ~UnexpectedContact(a)
  /\ b.fault = "NONE" => /\ ~AtMax(a.plant) /\ ~UnexpectedContact(a)
                         /\ b.homeContact <=> (a.homeContact /\ AtMin(a.plant))

LEMMA SafetyJudges ==
  ASSUME NEW a, Sound(a)
  PROVE  Judged(Safety(a), a)
<1> DEFINE resists == Resisting(a) /\ ~(a.state = "HOMING" /\ AtMin(a.plant))
           still   == IF ~resists THEN 0 ELSE IF a.still = 0 THEN 1 ELSE a.still
           contact == a.homeContact /\ AtMin(a.plant)
           watched == [a EXCEPT !.still = still, !.homeContact = contact]
           contactAt == UnexpectedContact(a)
           latched == a.fault # "NONE"
           top == AtMax(a.plant)
<1>1. still = Noticed(a)
  BY DEF Sound, Typed, Noticed
<1>2. contact <=> (a.homeContact /\ AtMin(a.plant))
  OBVIOUS
<1> HIDE DEF still, contact
<1>3. /\ watched.seek = a.seek /\ watched.still = still /\ watched.homeContact = contact
      /\ watched.fault = a.fault /\ DOMAIN watched = Fields
  BY DEF Sound, Typed, Fields
<1> HIDE DEF watched, contactAt, latched, top
<1>4. Safety(a) = CASE latched -> a
                    [] ~latched /\ top -> Tripped(watched, "POSITIVE_LIMIT")
                    [] ~latched /\ ~top /\ contactAt -> Tripped(watched, "NEGATIVE_LIMIT")
                    [] ~latched /\ ~top /\ ~contactAt ->
                         IF watched.still > StallTimeout THEN Tripped(watched, "NO_MOTION") ELSE watched
  BY DEF Safety, watched, still, contact, contactAt, latched, top
<1>5. ASSUME NEW fault \in Verdicts
      PROVE  Tripped(watched, fault).seek = a.seek /\ Tripped(watched, fault).fault = fault
  BY <1>3 DEF Tripped, Parked, Fields
<1>6. CASE latched
  BY <1>4, <1>6 DEF latched, Judged
<1>7. CASE ~latched /\ (top \/ contactAt)
  <2>1. PICK fault \in {"POSITIVE_LIMIT", "NEGATIVE_LIMIT"} : Safety(a) = Tripped(watched, fault)
    BY <1>4, <1>7
  <2>2. fault \in Verdicts
    BY DEF Verdicts
  <2>3. QED
    BY <1>5, <1>7, <2>1, <2>2 DEF latched, Judged
<1>8. CASE ~latched /\ ~top /\ ~contactAt /\ watched.still > StallTimeout
  <2>1. Safety(a) = Tripped(watched, "NO_MOTION") /\ "NO_MOTION" \in Verdicts
    BY <1>4, <1>8 DEF Verdicts
  <2>2. QED
    BY <1>1, <1>3, <1>5, <1>8, <2>1 DEF latched, top, contactAt, Judged
<1>9. CASE ~latched /\ ~top /\ ~contactAt /\ ~(watched.still > StallTimeout)
  <2>1. Safety(a) = watched
    BY <1>4, <1>9
  <2>2. QED
    BY <1>2, <1>3, <1>9, <2>1 DEF latched, top, contactAt, Judged
<1>10. QED
  BY <1>6, <1>7, <1>8, <1>9

LEMMA SyncedLeaves ==
  ASSUME NEW a, Sound(a)
  PROVE  /\ Synced(a).seek = a.seek /\ Synced(a).fault = a.fault
         /\ Synced(a).homeContact = a.homeContact
BY DEF Synced, ClearControl, PidReset, Parked, Sound, Typed, Fields

LEMMA CheckedJudges ==
  ASSUME NEW a, Sound(a)
  PROVE  Judged(Checked(a), a)
<1> DEFINE b == Safety(a)
<1>1. Sound(b) /\ Judged(b, a)
  BY SafetyObeys, SafetyJudges DEF Obeys
<1>2. Checked(a) = Synced(b)
  BY DEF Checked
<1> HIDE DEF b
<1>3. /\ Synced(b).seek = b.seek /\ Synced(b).fault = b.fault
      /\ Synced(b).homeContact = b.homeContact
  BY <1>1, SyncedLeaves
<1>4. QED
  BY <1>1, <1>2, <1>3 DEF Judged

LEMMA MotionUpdateLeaves ==
  ASSUME NEW a, Sound(a)
  PROVE  LET b == MotionUpdate(a)
         IN  /\ b.seek = a.seek /\ b.fault = a.fault /\ b.homeContact = a.homeContact
             /\ b.still = a.still
<1> DEFINE Left(b, c) == /\ b.seek = c.seek /\ b.fault = c.fault /\ b.homeContact = c.homeContact
                         /\ b.still = c.still
           d == Dwelt(a)
<1>1. Left(d, a)
  BY DEF Dwelt, PidReset, Sound, Typed, Fields
<1>2. Sound(d)
  BY DweltObeys DEF Obeys
<1>3. MotionUpdate(a) = IF d.state = "MOVING" THEN Drive(d) ELSE Parked(d)
  BY DEF MotionUpdate
<1> HIDE DEF d
<1>4. Left(Drive(d), d) /\ Left(Parked(d), d)
  BY <1>2 DEF Drive, Parked, Sound, Typed, Fields
<1>5. QED
  BY <1>1, <1>3, <1>4

\* A seek that goes on has a cycle more; one that fails was not at the switch.
LEMMA HomingUpdateJudges ==
  ASSUME NEW a, Sound(a), a.fault = "NONE", a.state = "HOMING", ~AtMax(a.plant)
  PROVE  LET b == HomingUpdate(a)
         IN  /\ b.fault \in {"NONE", "HOMING_TIMEOUT"}
             /\ b.fault = "HOMING_TIMEOUT" => a.seek >= HomingTimeout
             /\ b.state = "HOMING" => /\ b.seek = a.seek + 1 /\ a.seek < HomingTimeout
                                      /\ b.homeContact = a.homeContact /\ ~AtMin(a.plant)
             /\ b.fault = "NONE" /\ b.homeContact => a.homeContact \/ AtMin(a.plant)
             /\ b.still = a.still
<1> DEFINE b == HomingUpdate(a)
<1>0. a.seek \in Nat /\ HomingTimeout \in Nat
  BY DEF Sound, Typed, HomingTimeout
<1>1. CASE a.seek >= HomingTimeout
  <2>1. b = Synced(Tripped(a, "HOMING_TIMEOUT"))
    BY <1>1 DEF HomingUpdate
  <2>2. b.fault = "HOMING_TIMEOUT" /\ b.state = "FAULT" /\ b.still = a.still
    BY <2>1 DEF Synced, Tripped, ClearControl, PidReset, Parked, Sound, Typed, Fields
  <2>3. QED
    BY <1>1, <2>2
<1>2. CASE ~(a.seek >= HomingTimeout) /\ AtMin(a.plant)
  <2> DEFINE c == SetReference(ClearControl(a), 0)
             d == [c EXCEPT !.position = 0, !.target = 0, !.previous = 0, !.velocity = 0,
                            !.sampled = FALSE, !.state = "IDLE", !.homeContact = TRUE,
                            !.homed = TRUE]
  <2>1. b = d
    BY <1>2 DEF HomingUpdate
  <2>2. DOMAIN c = Fields /\ c.fault = a.fault /\ c.still = a.still
    BY DEF SetReference, ClearControl, PidReset, Parked, Sound, Typed, Fields
  <2> HIDE DEF c
  <2>3. d.fault = a.fault /\ d.still = a.still /\ d.state = "IDLE"
    BY <2>2 DEF Fields
  <2> HIDE DEF d
  <2>4. QED
    BY <1>2, <2>1, <2>3
<1>3. CASE ~(a.seek >= HomingTimeout) /\ ~AtMin(a.plant)
  <2> DEFINE next == a.seek + 1
             d == [a EXCEPT !.duty = HomingDuty, !.seek = next]
  <2>1. b = d
    BY <1>3 DEF HomingUpdate
  <2> HIDE DEF next
  <2>2. /\ d.fault = a.fault /\ d.still = a.still /\ d.state = a.state /\ d.seek = next
        /\ d.homeContact = a.homeContact
    BY DEF Sound, Typed, Fields
  <2> HIDE DEF d
  <2>3. a.seek < HomingTimeout
    BY <1>0, <1>3
  <2>4. QED
    BY <1>3, <2>1, <2>2, <2>3 DEF next
<1>4. QED
  BY <1>1, <1>2, <1>3

LEMMA ControlUpdateJudges ==
  ASSUME NEW a, Sound(a), Watched(a), a.state = "HOMING" /\ a.homeContact => AtMin(a.plant)
  PROVE  LET b == ControlUpdate(a)
         IN  /\ b.fault = "INTERNAL" => a.fault = "INTERNAL"
             /\ b.fault = "HOMING_TIMEOUT" => \/ a.fault = "HOMING_TIMEOUT"
                                              \/ a.state = "HOMING" /\ a.seek >= HomingTimeout
             /\ b.fault = "NO_MOTION" => \/ a.fault = "NO_MOTION"
                                         \/ a.homeContact /\ Noticed(a) > StallTimeout
             /\ b.fault = "NONE" =>
                  /\ a.fault = "NONE"
                  /\ b.homeContact => AtMin(a.plant) /\ ~AtMax(a.plant) /\ b.state # "HOMING"
                  /\ b.homeContact /\ b.state = "MOVING" => a.homeContact
                  /\ b.still = IF a.state # "HOMING" /\ ~a.homeContact THEN a.still
                               ELSE IF a.state # "HOMING" \/ AtMin(a.plant) THEN Noticed(a)
                               ELSE a.still
             /\ b.state = "HOMING" => b.seek = a.seek + 1 /\ a.seek < HomingTimeout
<1> DEFINE b == ControlUpdate(a)
           c == Checked(a)
<1>1. /\ Sound(c) /\ Watched(c) /\ Judged(c, a) /\ c.plant = a.plant
      /\ c.fault = "NONE" => Passed(c, a)
  BY CheckedObeys, CheckedWatches, CheckedJudges DEF Obeys, Watched, Kept
<1>2. c.fault # "NONE" => c.state = "FAULT"
  BY <1>1 DEF Watched, Clear
<1> HIDE DEF c
<1>3. CASE a.state # "HOMING" /\ ~a.homeContact
  <2> DEFINE m == MotionUpdate(a)
  <2>1. b = m
    BY <1>3 DEF ControlUpdate
  <2>2. m.seek = a.seek /\ m.fault = a.fault /\ m.homeContact = a.homeContact /\ m.still = a.still
    BY MotionUpdateLeaves
  <2>3. m.state # "HOMING"
    BY <1>3, MotionUpdateWatches
  <2> HIDE DEF m, b
  <2>4. QED
    BY <1>3, <2>1, <2>2, <2>3 DEF b
<1>4. CASE a.state # "HOMING" /\ a.homeContact
  <2> DEFINE m == MotionUpdate(c)
  <2>1. b = m
    BY <1>4 DEF ControlUpdate, c
  <2>2. m.seek = c.seek /\ m.fault = c.fault /\ m.homeContact = c.homeContact /\ m.still = c.still
    BY <1>1, MotionUpdateLeaves
  <2>3. c.state # "HOMING"
    BY <1>1, <1>2, <1>4 DEF Passed, Alike
  <2>4. m.state # "HOMING"
    BY <1>1, <2>3, MotionUpdateWatches
  <2> HIDE DEF m, b
  <2>5. b.fault = "NONE" => /\ b.still = Noticed(a)
                            /\ b.homeContact => AtMin(a.plant) /\ ~AtMax(a.plant)
    BY <1>1, <2>1, <2>2 DEF Passed, Judged
  <2>6. /\ b.fault = a.fault \/ b.fault \in Verdicts
        /\ b.fault = "NO_MOTION" => a.fault = "NO_MOTION" \/ Noticed(a) > StallTimeout
        /\ b.fault = "NONE" => a.fault = "NONE"
    BY <1>1, <2>1, <2>2 DEF Judged, Verdicts
  <2>7. QED
    BY <1>4, <2>1, <2>4, <2>5, <2>6 DEF b, Verdicts
<1>5. CASE a.state = "HOMING" /\ ~AtMin(a.plant) /\ ~AtMax(a.plant)
  <2>1. b = HomingUpdate(a)
    BY <1>5 DEF ControlUpdate
  <2>2. a.fault = "NONE"
    BY <1>5 DEF Watched, Clear
  <2> HIDE DEF b
  <2>3. /\ b.fault \in {"NONE", "HOMING_TIMEOUT"}
        /\ b.fault = "HOMING_TIMEOUT" => a.seek >= HomingTimeout
        /\ b.state = "HOMING" => /\ b.seek = a.seek + 1 /\ a.seek < HomingTimeout
                                 /\ b.homeContact = a.homeContact
        /\ b.fault = "NONE" /\ b.homeContact => a.homeContact \/ AtMin(a.plant)
        /\ b.still = a.still
    BY <1>5, <2>1, <2>2, HomingUpdateJudges
  <2>4. QED
    BY <1>5, <2>2, <2>3 DEF b
<1>6. CASE a.state = "HOMING" /\ ~(~AtMin(a.plant) /\ ~AtMax(a.plant)) /\ c.fault # "NONE"
  <2>1. b = c
    BY <1>6 DEF ControlUpdate, c
  <2>2. a.fault = "NONE"
    BY <1>6 DEF Watched, Clear
  <2>3. Noticed(a) > StallTimeout => ~AtMin(a.plant)
    BY <1>6 DEF Noticed, StallTimeout
  <2> HIDE DEF b
  <2>4. b.fault \in Verdicts /\ b.fault # "NO_MOTION" /\ b.state = "FAULT" /\ b.fault # "NONE"
    BY <1>1, <1>2, <1>6, <2>1, <2>2, <2>3 DEF Judged
  <2>5. QED
    BY <2>4 DEF b, Verdicts
<1>7. CASE a.state = "HOMING" /\ ~(~AtMin(a.plant) /\ ~AtMax(a.plant)) /\ c.fault = "NONE"
  <2>1. b = HomingUpdate(c)
    BY <1>7 DEF ControlUpdate, c
  <2>2. /\ c.state = "HOMING" /\ ~AtMax(c.plant) /\ AtMin(c.plant) /\ c.seek = a.seek
        /\ a.fault = "NONE" /\ c.still = Noticed(a)
    BY <1>1, <1>7 DEF Passed, Alike, Judged, Watched, Clear
  <2> HIDE DEF b
  <2>3. /\ b.fault \in {"NONE", "HOMING_TIMEOUT"}
        /\ b.fault = "HOMING_TIMEOUT" => c.seek >= HomingTimeout
        /\ b.state # "HOMING" /\ b.still = c.still
    BY <1>1, <1>7, <2>1, <2>2, HomingUpdateJudges
  <2>4. b.state # "MOVING"
    BY <1>1, <1>7, <2>1, <2>2, HomingUpdateWatches
  <2>5. QED
    BY <1>1, <1>7, <2>2, <2>3, <2>4 DEF b
<1>8. QED
  BY <1>3, <1>4, <1>5, <1>6, <1>7

\* What a command leaves of an operation that was not tripped: the same, a move
\* from where the axis is, a seek, or a stop.
Starts(b, a, next) ==
  /\ next.type \in {"MOVE", "MOVE_REL"} /\ a.state = "IDLE" /\ b.state = "MOVING"
  /\ b.target = Target(a, next) /\ b.position = a.position /\ b.measured = a.position
  /\ b.seeded /\ b.integral = 0
  /\ b.homeContact => a.homeContact /\ AtMin(a.plant) /\ b.target > b.position
  /\ b.still = 0 \/ (b.still = a.still /\ ~a.homeContact)

Seeks(b, a, next) ==
  /\ next.type = "HOME" /\ a.state = "IDLE" /\ b.state = "HOMING"
  /\ b.seek = 0 /\ b.still = 0 /\ (b.homeContact => AtMin(a.plant))

Stops(b, a, next) ==
  /\ next.type = "STOP" /\ Active(a) /\ b.state = "STOPPING"
  /\ b.still = a.still /\ b.homeContact = a.homeContact

Commanded(b, a, next) ==
  b = a \/ (b.duty = 0 /\ b.velocity = a.velocity
              /\ (Starts(b, a, next) \/ Seeks(b, a, next) \/ Stops(b, a, next)))

\* A command that Safety checks is checked at rest.
LEMMA RestNoticed ==
  ASSUME NEW a, a.duty = 0
  PROVE  Noticed(a) = 0
<1>1. ~(Abs(0) >= StallDuty)
  BY SMT DEF Abs, StallDuty
<1>2. QED
  BY <1>1 DEF Noticed, Resisting

LEMMA MotionCommandJudges ==
  ASSUME NEW a, Sound(a), Watched(a), NEW next, Understood(next)
  PROVE  LET b == MotionCommand(a, next)
         IN  /\ b.fault = a.fault
                  \/ (a.fault = "NONE" /\ b.fault \in {"POSITIVE_LIMIT", "NEGATIVE_LIMIT"})
             /\ b.fault = "NONE" => Commanded(b, a, next)
             /\ b.state \in {"IDLE", "FAULT"} => b = a \/ b.fault # "NONE"
<1> DEFINE b == MotionCommand(a, next)
<1>0. ASSUME NEW d, Sound(d), d.duty = 0, d.fault = a.fault, d.plant = a.plant
      PROVE  LET c == Checked(d)
             IN  /\ c.fault = a.fault
                      \/ (a.fault = "NONE" /\ c.fault \in {"POSITIVE_LIMIT", "NEGATIVE_LIMIT"})
                 /\ c.fault = "NONE" => /\ Alike(c, d) /\ c.still = 0 /\ c.seek = d.seek
                                        /\ c.homeContact => d.homeContact /\ AtMin(a.plant)
  <2> DEFINE c == Checked(d)
  <2>1. Judged(c, d) /\ (c.fault = "NONE" => Passed(c, d))
    BY <1>0, CheckedJudges, CheckedWatches
  <2> HIDE DEF c
  <2>2. Noticed(d) = 0 /\ ~(0 > StallTimeout)
    BY <1>0, RestNoticed DEF StallTimeout
  <2>3. c.fault = "NO_MOTION" => a.fault = "NO_MOTION"
    BY <1>0, <2>1, <2>2 DEF Judged
  <2>4. QED
    BY <1>0, <2>1, <2>2, <2>3 DEF Judged, Passed, Verdicts, c
<1>1. CASE next.type \in {"MOVE", "MOVE_REL"}
  <2> DEFINE target == Target(a, next)
             m == Move(a, target)
             c == Checked(m)
             goes == /\ a.state = "IDLE" /\ target \in MinTarget .. MaxTarget
                     /\ a.homeContact => target > a.position
  <2>1. b = IF goes THEN (IF a.homeContact THEN c ELSE m) ELSE a
    BY <1>1 DEF MotionCommand
  <2>2. target \in Int
    BY <1>1 DEF Target, Understood, Sound, Typed
  <2> HIDE DEF target
  <2>3. Sound(m) /\ m.plant = a.plant /\ m.velocity = a.velocity
    BY <2>2, MoveObeys DEF Obeys, Sound, Kept
  <2>4. /\ m.duty = 0 /\ m.fault = a.fault /\ m.state = "MOVING" /\ m.target = target
        /\ m.position = a.position /\ m.measured = a.position /\ m.seeded /\ m.integral = 0
        /\ m.homeContact = a.homeContact /\ m.still = a.still
    BY DEF Move, PidReset, Parked, Sound, Typed, Fields
  <2> HIDE DEF m
  <2>5. /\ c.fault = a.fault
             \/ (a.fault = "NONE" /\ c.fault \in {"POSITIVE_LIMIT", "NEGATIVE_LIMIT"})
        /\ c.fault = "NONE" => /\ Alike(c, m) /\ c.still = 0 /\ c.seek = m.seek
                               /\ c.homeContact => m.homeContact /\ AtMin(a.plant)
        /\ Watched(c)
    BY <1>0, <2>3, <2>4, CheckedWatches DEF Watched
  <2> HIDE DEF b, c
  <2>6. CASE ~goes
    BY <2>1, <2>6 DEF Commanded, b
  <2>7. CASE goes /\ ~a.homeContact
    <3>1. Starts(b, a, next)
      BY <1>1, <2>1, <2>4, <2>7 DEF Starts, target
    <3>2. b = m
      BY <2>1, <2>7
    <3>3. QED
      BY <2>3, <2>4, <3>1, <3>2 DEF Commanded, b
  <2>8. CASE goes /\ a.homeContact
    <3>1. b = c
      BY <2>1, <2>8
    <3>2. c.fault = "NONE" => Starts(b, a, next) /\ b.duty = 0 /\ b.velocity = a.velocity
      BY <1>1, <2>3, <2>4, <2>5, <2>8, <3>1 DEF Starts, Alike, target
    <3>3. c.fault = "NONE" => c.state = "MOVING"
      BY <2>4, <2>5 DEF Alike
    <3>4. QED
      BY <2>5, <3>1, <3>2, <3>3 DEF Commanded, b
  <2>9. QED
    BY <2>6, <2>7, <2>8
<1>2. CASE next.type = "HOME"
  <2> DEFINE m == [ClearControl(a) EXCEPT !.state = "HOMING", !.seek = 0, !.homed = FALSE]
             c == Checked(m)
  <2>1. b = IF a.state = "IDLE" THEN c ELSE a
    BY <1>2 DEF MotionCommand
  <2>2. Sound(m) /\ m.plant = a.plant /\ m.velocity = a.velocity
    BY SeekObeys DEF Obeys, Kept
  <2>3. m.duty = 0 /\ m.fault = a.fault /\ m.state = "HOMING" /\ m.seek = 0
    BY DEF ClearControl, PidReset, Parked, Sound, Typed, Fields
  <2> HIDE DEF m
  <2>4. /\ c.fault = a.fault
             \/ (a.fault = "NONE" /\ c.fault \in {"POSITIVE_LIMIT", "NEGATIVE_LIMIT"})
        /\ c.fault = "NONE" => /\ Alike(c, m) /\ c.still = 0 /\ c.seek = m.seek
                               /\ c.homeContact => m.homeContact /\ AtMin(a.plant)
    BY <1>0, <2>2, <2>3
  <2> HIDE DEF b, c
  <2>5. CASE a.state # "IDLE"
    BY <2>1, <2>5 DEF Commanded, b
  <2>6. CASE a.state = "IDLE"
    <3>1. b = c
      BY <2>1, <2>6
    <3>2. c.fault = "NONE" => Seeks(b, a, next) /\ b.duty = 0 /\ b.velocity = a.velocity
      BY <1>2, <2>2, <2>3, <2>4, <2>6, <3>1 DEF Seeks, Alike
    <3>3. c.fault = "NONE" => c.state = "HOMING"
      BY <2>3, <2>4 DEF Alike
    <3>4. QED
      BY <2>4, <3>1, <3>2, <3>3 DEF Commanded, b
  <2>7. QED
    BY <2>5, <2>6
<1>3. CASE next.type = "STOP"
  <2> DEFINE m == [ClearControl(a) EXCEPT !.state = "STOPPING"]
             c == [PidReset(Parked(a)) EXCEPT !.state = "STOPPING", !.stable = 0]
  <2>1. b = a \/ (Active(a) /\ b \in {m, c})
    BY <1>3 DEF MotionCommand, Active
  <2>2. /\ m.fault = a.fault /\ m.still = a.still /\ m.state = "STOPPING" /\ m.duty = 0
        /\ m.velocity = a.velocity /\ m.homeContact = a.homeContact
        /\ c.fault = a.fault /\ c.still = a.still /\ c.state = "STOPPING" /\ c.duty = 0
        /\ c.velocity = a.velocity /\ c.homeContact = a.homeContact
    BY DEF ClearControl, PidReset, Parked, Sound, Typed, Fields
  <2> HIDE DEF m, c, b
  <2>3. QED
    BY <1>3, <2>1, <2>2 DEF Commanded, Stops, b
<1>4. CASE next.type \notin {"MOVE", "MOVE_REL", "HOME", "STOP"}
  <2>1. b = a
    BY <1>4 DEF MotionCommand
  <2>2. QED
    BY <2>1 DEF Commanded
<1>5. QED
  BY <1>1, <1>2, <1>3, <1>4

\* The candidate after ten steps of the plant, of which Safety sees every other.
Candidate(a, plant) ==
  LET aged == IF a.still > 0 THEN a.still + 1 ELSE 0
  IN  IF a.even THEN aged ELSE IF ~Opposed(a, plant) THEN 0 ELSE IF aged = 0 THEN 1 ELSE aged

\* What the ten steps and Safety's look at them make of a.
Supervises(b, a) ==
  /\ b.seek = a.seek
  /\ b.fault = a.fault \/ (a.fault = "NONE" /\ b.fault \in Verdicts)
  /\ b.fault = "NO_MOTION" =>
       \/ a.fault = "NO_MOTION"
       \/ /\ ~a.even /\ Opposed(a, b.plant) /\ a.still >= StallTimeout /\ ~AtMax(b.plant)
          /\ AtMin(b.plant) => a.state = "HOMING" \/ a.homeContact
  /\ b.fault = "NONE" =>
       /\ b.still = Candidate(a, b.plant)
       /\ b.homeContact => a.homeContact
       /\ ~a.even => /\ ~AtMax(b.plant) /\ (b.homeContact => AtMin(b.plant))
                     /\ AtMin(b.plant) => a.state = "HOMING" \/ a.homeContact

LEMMA PhysicsJudges ==
  ASSUME NEW a, Sound(a), Confined(a.plant)
  PROVE  Supervises(Supervised(Physics(a)), a)
<1> DEFINE p == PlantSteps(a.plant, a.duty, StepsPerCycle)
           register == Published(a.register, p)
           even == ~a.even
           still == IF a.still > 0 /\ a.fault = "NONE" THEN a.still + 1 ELSE a.still
           c == [a EXCEPT !.plant = p, !.register = register, !.even = even, !.still = still]
           s == Safety(c)
           b == Supervised(c)
<1>1. Confined(p)
  <2>1. StepsPerCycle \in Nat /\ a.duty \in Int
    BY DEF StepsPerCycle, Sound, Typed
  <2>2. QED
    BY <2>1, PlantStepsConfined
<1>2. Physics(a) = c
  BY DEF Physics
<1> HIDE DEF p
<1>3. register \in 0 .. Word - 1 /\ even \in BOOLEAN /\ still \in Nat /\ p \in PlantRecord
  BY <1>1, PublishedRange DEF Confined, Sound, Typed
<1>4. a.still \in Nat /\ a.even \in BOOLEAN
  BY DEF Sound, Typed
<1>5. a.fault = "NONE" => still = IF a.still > 0 THEN a.still + 1 ELSE 0
  BY <1>4
<1> HIDE DEF register, still
<1>6. /\ Typed(c) /\ c.plant = p /\ c.even = even /\ c.still = still /\ c.fault = a.fault
      /\ c.state = a.state /\ c.duty = a.duty /\ c.velocity = a.velocity /\ c.stable = a.stable
      /\ c.seek = a.seek /\ c.homeContact = a.homeContact
  BY <1>3 DEF Sound, Typed, Fields
<1> HIDE DEF c
<1>7. Sound(c)
  BY <1>6 DEF Sound
<1>8. b = IF c.even THEN s ELSE c
  BY DEF Supervised
<1>9. s.plant = c.plant /\ Judged(s, c) /\ (s.fault = "NONE" => Passed(s, c))
  BY <1>7, SafetyObeys, SafetyWatches, SafetyJudges DEF Obeys, Kept
<1> HIDE DEF b, s
<1>10. Noticed(c) = IF Opposed(a, p) THEN IF still = 0 THEN 1 ELSE still ELSE 0
  BY <1>6 DEF Noticed, Opposed, Resisting, Slow
<1>11. CASE c.even
  <2>1. b = s /\ ~a.even /\ s.plant = p /\ s.seek = a.seek
    BY <1>6, <1>8, <1>9, <1>11 DEF Judged
  <2>2. s.fault = a.fault \/ (a.fault = "NONE" /\ s.fault \in Verdicts)
    BY <1>6, <1>9 DEF Judged
  <2>3. s.fault = "NO_MOTION" /\ a.fault # "NO_MOTION" =>
          /\ Opposed(a, p) /\ a.still >= StallTimeout /\ ~AtMax(p)
          /\ AtMin(p) => a.state = "HOMING" \/ a.homeContact
    <3>1. SUFFICES ASSUME s.fault = "NO_MOTION", a.fault # "NO_MOTION"
                   PROVE  /\ Opposed(a, p) /\ a.still >= StallTimeout /\ ~AtMax(p)
                          /\ AtMin(p) => a.state = "HOMING" \/ a.homeContact
      OBVIOUS
    <3>2. Noticed(c) > StallTimeout /\ ~AtMax(p) /\ ~UnexpectedContact(c) /\ a.fault = "NONE"
      BY <1>6, <1>9, <2>2, <3>1 DEF Judged
    <3>3. AtMin(p) => a.state = "HOMING" \/ a.homeContact
      BY <1>6, <3>2 DEF UnexpectedContact
    <3>4. QED
      BY <1>4, <1>5, <1>10, <3>2, <3>3 DEF StallTimeout
  <2>4. s.fault = "NONE" =>
          /\ s.still = Candidate(a, p)
          /\ s.homeContact => a.homeContact /\ AtMin(p)
          /\ ~AtMax(p) /\ (AtMin(p) => a.state = "HOMING" \/ a.homeContact)
    <3>1. SUFFICES ASSUME s.fault = "NONE"
                   PROVE  /\ s.still = Candidate(a, p)
                          /\ s.homeContact => a.homeContact /\ AtMin(p)
                          /\ ~AtMax(p) /\ (AtMin(p) => a.state = "HOMING" \/ a.homeContact)
      OBVIOUS
    <3>2. s.still = Noticed(c) /\ a.fault = "NONE"
      BY <1>9, <2>2, <3>1 DEF Passed, Verdicts
    <3>3. s.still = Candidate(a, p)
      BY <1>4, <1>5, <1>10, <2>1, <3>2 DEF Candidate
    <3>4. ~AtMax(p) /\ ~UnexpectedContact(c) /\ (s.homeContact => a.homeContact /\ AtMin(p))
      BY <1>6, <1>9, <3>1 DEF Judged
    <3>5. AtMin(p) => a.state = "HOMING" \/ a.homeContact
      BY <1>6, <3>4 DEF UnexpectedContact
    <3>6. QED
      BY <3>3, <3>4, <3>5
  <2>5. Supervises(b, a)
    BY <2>1, <2>2, <2>3, <2>4 DEF Supervises, Verdicts
  <2>6. QED
    BY <1>2, <2>5 DEF b
<1>12. CASE ~c.even
  <2>1. b = c /\ a.even
    BY <1>4, <1>6, <1>8, <1>12
  <2>2. a.fault = "NONE" => c.still = Candidate(a, p)
    BY <1>5, <1>6, <2>1 DEF Candidate
  <2>3. Supervises(b, a)
    BY <1>6, <2>1, <2>2 DEF Supervises
  <2>4. QED
    BY <1>2, <2>3 DEF b
<1>13. QED
  BY <1>11, <1>12

LEMMA SensedJudges ==
  ASSUME NEW a, Sound(a), Confined(a.plant)
  PROVE  LET e == Sensed(a)
         IN  Supervises(e, a) /\ e.plant = PlantSteps(a.plant, a.duty, StepsPerCycle)
<1> DEFINE c == Supervised(Physics(a))
           d == Sample(c)
           e == Synced(d)
<1>1. Sound(c) /\ c.plant = PlantSteps(a.plant, a.duty, StepsPerCycle) /\ Supervises(c, a)
  BY PhysicsFollows, PhysicsJudges
<1> HIDE DEF c
<1>2. Sound(d) /\ d.plant = c.plant
  BY <1>1, SampleFollows
<1>3. d.fault = c.fault /\ d.still = c.still /\ d.seek = c.seek /\ d.homeContact = c.homeContact
  BY <1>1 DEF Sample, Sound, Typed, Fields
<1> HIDE DEF d
<1>4. /\ e.plant = d.plant /\ e.fault = d.fault /\ e.seek = d.seek /\ e.homeContact = d.homeContact
      /\ d.fault = "NONE" => e = d
  BY <1>2, SyncedObeys, SyncedWatches, SyncedLeaves DEF Obeys, Kept
<1> HIDE DEF e
<1>5. Supervises(e, a)
  BY <1>1, <1>2, <1>3, <1>4 DEF Supervises
<1>6. Sensed(a) = e
  BY DEF Sensed, e, d, c
<1>7. QED
  BY <1>1, <1>2, <1>4, <1>5, <1>6

----------------------------------------------------------------------------
(***************************************************************************)
(* The latch, the guarded switch and the seek over one cycle.              *)
(***************************************************************************)
\* The guard is there only at the switch, and never during a seek; a departure
\* goes forwards.
Departing(a) == a.target > a.position /\ a.integral >= 0 /\ a.duty >= 0

Guarded(a) ==
  a.homeContact /\ a.fault = "NONE" =>
    AtMin(a.plant) /\ a.state # "HOMING" /\ (a.state = "MOVING" => Departing(a))

\* A seek that goes on, or that has just begun.
Sought(b, a) ==
  \/ a.state = "HOMING" /\ a.fault = "NONE" /\ b.seek = a.seek + 1
  \/ b.seek = 1

LEMMA CycleStages ==
  ASSUME NEW a, Sound(a), Confined(a.plant), Watched(a), NEW next, Understood(next)
  PROVE  \E e, f : /\ e = Sensed(a) /\ f = MotionCommand(e, next)
                   /\ CycleOf(a, next) = ControlUpdate(f)
                   /\ Sound(e) /\ Watched(e) /\ Supervises(e, a)
                   /\ Sound(f) /\ Watched(f) /\ f.plant = e.plant
                   /\ CycleOf(a, next).plant = e.plant
<1> DEFINE e == Sensed(a)
           f == MotionCommand(e, next)
<1>1. Sound(e) /\ Watched(e) /\ Supervises(e, a)
        /\ e.plant = PlantSteps(a.plant, a.duty, StepsPerCycle)
  BY SensedWatches, SensedJudges
<1>2. CycleOf(a, next) = ControlUpdate(f)
  BY DEF CycleOf, Motion, Sensed
<1> HIDE DEF e
<1>3. Sound(f) /\ Watched(f) /\ f.plant = e.plant
  BY <1>1, MotionCommandObeys, MotionCommandWatches DEF Obeys, Kept
<1>4. CycleOf(a, next).plant = e.plant
  BY <1>1, CyclePlant
<1>5. QED
  BY <1>1, <1>2, <1>3, <1>4 DEF e

LEMMA CycleJudges ==
  ASSUME NEW a, Sound(a), Confined(a.plant), Watched(a), Guarded(a),
         NEW next, Understood(next)
  PROVE  LET b == CycleOf(a, next)
             e == Sensed(a)
             f == MotionCommand(e, next)
         IN  /\ b.fault = "INTERNAL" => a.fault = "INTERNAL"
             /\ b.fault = "HOMING_TIMEOUT" =>
                  \/ a.fault = "HOMING_TIMEOUT"
                  \/ a.state = "HOMING" /\ a.fault = "NONE" /\ a.seek >= HomingTimeout
             /\ b.fault = "NONE" => a.fault = "NONE"
             /\ b.state = "HOMING" => Sought(b, a)
             /\ b.fault = "NONE" /\ b.homeContact =>
                  /\ AtMin(b.plant) /\ b.state # "HOMING"
                  /\ b.state = "MOVING" =>
                       /\ Pursues(b, f)
                       /\ \/ f = e /\ a.homeContact /\ a.state = "MOVING"
                          \/ Starts(f, e, next) /\ f.homeContact
<1> DEFINE b == CycleOf(a, next)
<1>1. PICK e, f : /\ e = Sensed(a) /\ f = MotionCommand(e, next)
                  /\ b = ControlUpdate(f)
                  /\ Sound(e) /\ Watched(e) /\ Supervises(e, a)
                  /\ Sound(f) /\ Watched(f) /\ f.plant = e.plant /\ b.plant = e.plant
  BY CycleStages, Zenon
<1> HIDE DEF b
<1>2. /\ f.fault = e.fault
           \/ (e.fault = "NONE" /\ f.fault \in {"POSITIVE_LIMIT", "NEGATIVE_LIMIT"})
      /\ f.fault = "NONE" => Commanded(f, e, next)
  BY <1>1, MotionCommandJudges
<1>3. e.fault = "NONE" => /\ e.state = a.state /\ e.seek = a.seek /\ a.fault = "NONE"
                          /\ e.homeContact => a.homeContact
  <2>1. e.fault = "NONE" => e.state = a.state
    BY <1>1, SensedWatches
  <2>2. QED
    BY <1>1, <2>1 DEF Supervises, Verdicts
<1>4. f.fault = "NONE" => e.fault = "NONE"
  BY <1>2
<1>5. f.state = "HOMING" => f.fault = "NONE"
  BY <1>1 DEF Watched, Clear
<1>6. f.state = "HOMING" => /\ f.homeContact => AtMin(f.plant)
                            /\ (a.state = "HOMING" /\ f.seek = a.seek) \/ f.seek = 0
  <2>1. SUFFICES ASSUME f.state = "HOMING"
                 PROVE  /\ f.homeContact => AtMin(f.plant)
                        /\ (a.state = "HOMING" /\ f.seek = a.seek) \/ f.seek = 0
    OBVIOUS
  <2>2. f.fault = "NONE" /\ e.fault = "NONE" /\ Commanded(f, e, next)
    BY <1>2, <1>4, <1>5, <2>1
  <2>3. CASE f = e
    BY <1>3, <2>1, <2>2, <2>3 DEF Guarded
  <2>4. CASE Seeks(f, e, next)
    BY <1>1, <2>4 DEF Seeks
  <2>5. QED
    BY <2>1, <2>2, <2>3, <2>4 DEF Commanded, Starts, Stops
<1>7. /\ b.fault = "INTERNAL" => f.fault = "INTERNAL"
      /\ b.fault = "HOMING_TIMEOUT" => \/ f.fault = "HOMING_TIMEOUT"
                                       \/ f.state = "HOMING" /\ f.seek >= HomingTimeout
      /\ b.fault = "NONE" =>
           /\ f.fault = "NONE"
           /\ b.homeContact => AtMin(f.plant) /\ b.state # "HOMING"
           /\ b.homeContact /\ b.state = "MOVING" => f.homeContact
      /\ b.state = "HOMING" => b.seek = f.seek + 1
  BY <1>1, <1>6, ControlUpdateJudges
<1>8. Active(b) => Pursues(b, f)
  BY <1>1, ControlUpdateWatches
<1>9. b.fault = "INTERNAL" => a.fault = "INTERNAL"
  BY <1>1, <1>2, <1>7 DEF Supervises, Verdicts
<1>10. b.fault = "HOMING_TIMEOUT" =>
         \/ a.fault = "HOMING_TIMEOUT"
         \/ a.state = "HOMING" /\ a.fault = "NONE" /\ a.seek >= HomingTimeout
  <2>1. ~(0 >= HomingTimeout)
    BY DEF HomingTimeout
  <2>2. f.state = "HOMING" /\ f.seek >= HomingTimeout => a.state = "HOMING" /\ a.seek >= HomingTimeout
    BY <1>6, <2>1
  <2>3. f.state = "HOMING" => a.fault = "NONE"
    BY <1>3, <1>4, <1>5
  <2>4. QED
    BY <1>1, <1>2, <1>7, <2>2, <2>3 DEF Supervises, Verdicts
<1>11. b.fault = "NONE" => a.fault = "NONE"
  BY <1>3, <1>4, <1>7
<1>12. b.state = "HOMING" => Sought(b, a)
  <2>1. SUFFICES ASSUME b.state = "HOMING"
                 PROVE  Sought(b, a)
    OBVIOUS
  <2>2. f.state = "HOMING"
    BY <1>8, <2>1 DEF Active, Pursues
  <2>3. a.seek \in Nat
    BY DEF Sound, Typed
  <2>4. QED
    BY <1>3, <1>4, <1>5, <1>6, <1>7, <2>1, <2>2, <2>3 DEF Sought
<1>13. ASSUME b.fault = "NONE", b.homeContact, b.state = "MOVING"
       PROVE  /\ Pursues(b, f)
              /\ \/ f = e /\ a.homeContact /\ a.state = "MOVING"
                 \/ Starts(f, e, next) /\ f.homeContact
  <2>1. Pursues(b, f) /\ f.state = "MOVING" /\ f.fault = "NONE" /\ f.homeContact
    BY <1>7, <1>8, <1>13 DEF Active, Pursues
  <2>2. f = e \/ Starts(f, e, next)
    BY <1>2, <2>1 DEF Commanded, Seeks, Stops
  <2>3. QED
    BY <1>3, <1>4, <2>1, <2>2
<1>14. QED
  BY <1>1, <1>7, <1>9, <1>10, <1>11, <1>12, <1>13 DEF b

\* Who starts at the switch pushes off, and does so until it has left.
LEMMA DepartsForward ==
  ASSUME NEW i \in Int, i >= 0, NEW error \in Int, error > 0
  PROVE  LET j == Clamp(i + 2 * error, -MaxIntegral, MaxIntegral)
         IN  j >= 0 /\ Clamp(6000 * error + j, -MaxDuty, MaxDuty) >= 0
BY SMT DEF Clamp, MaxIntegral, MaxDuty

LEMMA GuardCycle ==
  ASSUME AxisInv, StuckInv, ~OnBench, Guarded(axis), NEW next, Understood(next)
  PROVE  Guarded(CycleOf(axis, next))
<1> PICK a : a = axis
  OBVIOUS
<1> DEFINE b == CycleOf(a, next)
           e == Sensed(a)
           f == MotionCommand(e, next)
<1>1. /\ Sound(a) /\ Confined(a.plant) /\ Settled(a) /\ Watched(a) /\ Guarded(a)
      /\ broken # "FROZEN" => a.register = TrueCount(a.plant) % Word
  BY DEF AxisInv, OnTravel, StuckInv, Settled
<1>2. /\ Sound(b) /\ Confined(b.plant) /\ SameTravel(b.plant, a.plant)
      /\ b.register = Published(a.register, b.plant)
  BY <1>1, CycleFollows
<1>3. b.fault = "NONE" => a.fault = "NONE"
  BY <1>1, CycleJudges
<1>4. b.fault = "NONE" /\ b.homeContact =>
        /\ AtMin(b.plant) /\ b.state # "HOMING"
        /\ b.state = "MOVING" =>
             /\ Pursues(b, f)
             /\ \/ f = e /\ a.homeContact /\ a.state = "MOVING"
                \/ Starts(f, e, next) /\ f.homeContact
  BY <1>1, CycleJudges
<1>5. ASSUME f = e
      PROVE  b = CycleOf(a, NoCommand)
  BY <1>5 DEF CycleOf, Motion, Sensed, MotionCommand, NoCommand
<1>6. Sound(e) /\ Sound(f)
  BY <1>1, SensedWatches, MotionCommandObeys DEF Obeys
<1> HIDE DEF b, e, f
<1>7. ASSUME b.fault = "NONE", b.homeContact, b.state = "MOVING", Starts(f, e, next), f.homeContact
      PROVE  Departing(b)
  <2>1. Pursues(b, f) /\ Steered(b, f)
    BY <1>4, <1>7 DEF Pursues
  <2>2. /\ f.integral = 0 /\ f.measured = f.position /\ f.position \in Int /\ f.target \in Int
        /\ f.target > f.position
    BY <1>6, <1>7 DEF Starts, Sound, Typed
  <2> PICK error \in Int : error = f.target - f.position /\ error > 0
    BY <2>2
  <2>3. Derivative(f) = 0
    BY <2>2 DEF Derivative
  <2> PICK j : j = Clamp(0 + 2 * error, -MaxIntegral, MaxIntegral)
    OBVIOUS
  <2>4. j \in Int
    BY Ranges DEF Clamp
  <2>5. j >= 0 /\ Clamp(6000 * error + j, -MaxDuty, MaxDuty) >= 0
    <3>1. 0 \in Int /\ 0 >= 0
      OBVIOUS
    <3>2. QED
      BY <3>1, DepartsForward
  <2>6. b.integral = j
    BY <2>1, <2>2 DEF Steered
  <2>7. b.duty = Clamp(6000 * error + j, -MaxDuty, MaxDuty)
    <3>1. 6000 * error + j + 0 = 6000 * error + j
      BY <2>4
    <3>2. QED
      BY <2>1, <2>3, <2>6, <3>1 DEF Steered
  <2>8. b.target = f.target /\ b.position = f.position
    BY <2>1 DEF Pursues
  <2>9. QED
    BY <2>2, <2>5, <2>6, <2>7, <2>8 DEF Departing
<1>8. ASSUME b.fault = "NONE", b.homeContact, b.state = "MOVING", f = e, a.homeContact,
             a.state = "MOVING"
      PROVE  Departing(b)
  <2>1. AtMin(a.plant) /\ AtMin(b.plant) /\ Departing(a)
    BY <1>1, <1>3, <1>4, <1>8 DEF Guarded
  <2>2. b.plant.position = a.plant.position
    <3>1. /\ a.plant.position = a.plant.min /\ b.plant.position = b.plant.min
          /\ b.plant.min = a.plant.min
      BY <1>1, <1>2, <2>1, PlantNumbers DEF AtMin, SameTravel
    <3>2. QED
      BY <3>1
  <2>3. b.register = a.register
    BY <1>1, <1>2, <2>2 DEF Published, TrueCount
  <2>4. b = CycleOf(a, NoCommand) /\ Active(b)
    BY <1>5, <1>8 DEF Active
  <2> PICK error : error = a.target - a.position
    OBVIOUS
  <2>5. /\ b.target = a.target /\ b.position = a.position
        /\ b.integral = Clamp(a.integral + 2 * error, -MaxIntegral, MaxIntegral)
        /\ b.duty = Clamp(6000 * error + b.integral, -MaxDuty, MaxDuty)
    BY <1>1, <1>8, <2>3, <2>4, StuckCycle
  <2>6. /\ error \in Int /\ error > 0 /\ a.integral \in Int /\ a.integral >= 0
        /\ a.target > a.position
    BY <1>1, <2>1, Ranges DEF Departing, Sound, Typed
  <2>7. b.integral >= 0 /\ b.duty >= 0
    BY <2>5, <2>6, DepartsForward
  <2>8. QED
    BY <2>5, <2>6, <2>7 DEF Departing
<1>9. QED
  BY <1>4, <1>7, <1>8 DEF Guarded, b

----------------------------------------------------------------------------
(***************************************************************************)
(* The invariant of the seek and of the departure.                         *)
(***************************************************************************)
\* What is left of the way after each cycle that was driven at the duty of homing.
Nearing(a) ==
  /\ a.seek >= 1
  /\ Ahead(a.plant) <= (996 * MaxVelocity + 4000 * a.plant.max) - 10 * Approach * (a.seek - 1)

TravelInv ==
  /\ axis.fault # "INTERNAL"
  /\ Guarded(axis) /\ (OnBench => ~axis.homeContact)
  /\ broken = "NONE" =>
       /\ axis.state = "HOMING" => Nearing(axis)
       /\ WithinReach => axis.fault # "HOMING_TIMEOUT"

\* The way on the travel that a seek covers is shorter than that.
LEMMA SeekEnds ==
  ASSUME AxisInv, NEW a, a = axis, a.seek >= HomingTimeout, Nearing(a)
  PROVE  ~WithinReach
<1>1. Confined(a.plant) /\ a.plant.min = Low * Unit /\ a.plant.max = High * Unit /\ a.seek \in Nat
  BY DEF AxisInv, OnTravel, Sound, Typed
<1>2. Low \in Int /\ High \in Int
  BY ScenarioFacts DEF AxisInv, OnTravel
<1>3. WithinReach => High - Low <= 5600
  BY SMT DEF WithinReach, Low, High, SeekCovers
<1>4. /\ a.plant.velocity \in Int /\ a.plant.position \in Int
      /\ a.plant.position >= Low * Unit /\ a.plant.velocity >= -MaxVelocity
  BY <1>1, PlantNumbers, Zenon
<1> PICK v : v = a.plant.velocity
  OBVIOUS
<1> PICK x : x = a.plant.position
  OBVIOUS
<1> PICK n : n = a.seek
  OBVIOUS
<1>5. /\ v \in Int /\ x \in Int /\ n \in Nat /\ n >= 4000
      /\ x >= Low * 100000 /\ v >= -60000000
      /\ 996 * v + 4000 * x <= (996 * 60000000 + 4000 * (High * 100000)) - 599975000 * (n - 1)
  BY <1>1, <1>2, <1>4, SMT DEF Nearing, Ahead, Approach, MaxVelocity, Unit, HomingTimeout
<1>6. High - Low <= 5600 => FALSE
  BY <1>2, <1>5, SMT
<1>7. QED
  BY <1>3, <1>6, SMT

LEMMA AdvanceTravels ==
  ASSUME AxisInv, StuckInv, TravelInv, ~OnBench, NEW next, Understood(next), Advance(next),
         scenario' = scenario, broken' = broken
  PROVE  TravelInv'
<1> PICK a : a = axis
  OBVIOUS
<1> PICK b : b = axis'
  OBVIOUS
<1>1. b = CycleOf(a, next)
  BY DEF Advance, Cycled, CycleOf
<1>2. /\ Sound(a) /\ Confined(a.plant) /\ Settled(a) /\ Watched(a) /\ Guarded(a)
  BY DEF AxisInv, OnTravel, StuckInv, Settled, TravelInv
<1>3. /\ Sound(b) /\ Confined(b.plant) /\ SameTravel(b.plant, a.plant) /\ Settled(b)
      /\ b.plant = PlantSteps(a.plant, a.duty, StepsPerCycle)
  BY <1>1, <1>2, CycleFollows, CycleSettles, CyclePlant
<1>4. /\ b.fault = "INTERNAL" => a.fault = "INTERNAL"
      /\ b.fault = "HOMING_TIMEOUT" =>
           \/ a.fault = "HOMING_TIMEOUT"
           \/ a.state = "HOMING" /\ a.fault = "NONE" /\ a.seek >= HomingTimeout
      /\ b.state = "HOMING" => Sought(b, a)
  BY <1>1, <1>2, CycleJudges
<1>5. Guarded(b)
  BY <1>1, GuardCycle DEF TravelInv
<1>6. ASSUME broken = "NONE", b.state = "HOMING"
      PROVE  Nearing(b)
  <2>1. /\ b.plant.velocity \in Int /\ b.plant.position \in Int /\ MaxVelocity \in Nat
        /\ b.plant.velocity <= MaxVelocity /\ b.plant.position <= b.plant.max
        /\ b.plant.max \in Int /\ a.plant.velocity \in Int /\ a.plant.position \in Int
    BY <1>2, <1>3, PlantNumbers
  <2>2. CASE b.seek = 1
    <3>1. 10 * Approach * (b.seek - 1) = 0
      BY <2>2, SMT DEF Approach
    <3>2. Ahead(b.plant) <= 996 * MaxVelocity + 4000 * b.plant.max
      BY <2>1, SMT DEF Ahead
    <3>3. QED
      BY <2>1, <2>2, <3>1, <3>2, SMT DEF Nearing
  <2>3. CASE a.state = "HOMING" /\ b.seek = a.seek + 1
    <3>1. a.duty = HomingDuty /\ ~AtMin(b.plant) /\ Nearing(a)
      BY <1>2, <1>3, <1>6, <2>3 DEF Settled, TravelInv
    <3>2. Ahead(b.plant) <= Ahead(a.plant) - 10 * Approach
      BY <1>2, <1>3, <1>6, <3>1, SeekCycle
    <3>3. Ahead(a.plant) \in Int /\ Ahead(b.plant) \in Int /\ a.seek \in Nat
      BY <1>2, <2>1, SMT DEF Ahead, Sound, Typed
    <3>4. b.plant.max = a.plant.max
      BY <1>3 DEF SameTravel
    <3>5. QED
      BY <2>1, <2>3, <3>1, <3>2, <3>3, <3>4, SMT DEF Nearing, Approach
  <2>4. QED
    BY <1>4, <1>6, <2>2, <2>3 DEF Sought
<1>7. broken = "NONE" /\ WithinReach => b.fault # "HOMING_TIMEOUT"
  <2>1. a.state = "HOMING" /\ a.seek >= HomingTimeout /\ broken = "NONE" => ~WithinReach
    BY SeekEnds DEF TravelInv
  <2>2. QED
    BY <1>4, <2>1 DEF TravelInv
<1>8. QED
  BY <1>4, <1>5, <1>6, <1>7 DEF TravelInv, OnBench, WithinReach

LEMMA InitTravels == Init => TravelInv
<1> SUFFICES ASSUME Init PROVE TravelInv
  OBVIOUS
<1> DEFINE s == Scenarios[scenario]
           plant == [position |-> s.start * Unit, velocity |-> 0, min |-> s.min * Unit,
                     max |-> s.max * Unit]
           register == TrueCount(plant) % Word
           raw == [plant |-> plant, register |-> register, offset |-> 0, duty |-> 0,
                   state |-> "IDLE", fault |-> "NONE", position |-> 0, previous |-> 0,
                   velocity |-> 0, sampled |-> FALSE, target |-> 0, stable |-> 0, integral |-> 0,
                   measured |-> 0, seeded |-> FALSE, seek |-> 0, homed |-> FALSE,
                   homeContact |-> FALSE, still |-> 0, even |-> TRUE]
           offset == (s.shown - register) % Word
<1>1. axis = [raw EXCEPT !.offset = offset]
  BY DEF Init, Start, SetReference
<1> HIDE DEF plant, register, offset
<1>2. axis.fault = "NONE" /\ axis.state = "IDLE" /\ axis.homeContact = FALSE
  BY <1>1
<1>3. QED
  BY <1>2 DEF TravelInv, Guarded

\* A failure changes nothing at once.
LEMMA BreakTravels ==
  ASSUME TravelInv, NEW kind \in {"STALLED", "FROZEN"}, Break(kind)
  PROVE  TravelInv'
<1>1. axis' = axis /\ scenario' = scenario /\ broken' # "NONE"
  BY DEF Break
<1>2. QED
  BY <1>1 DEF TravelInv, OnBench, Guarded, Departing

LEMMA BenchTravels ==
  ASSUME AxisInv, StuckInv, TravelInv, OnBench, Bench \/ Place
  PROVE  TravelInv'
<1> PICK a : a = axis
  OBVIOUS
<1> PICK b : b = axis'
  OBVIOUS
<1>1. scenario' = scenario /\ broken' = broken
  BY DEF Bench, Place
<1>2. a.state = "IDLE" /\ Typed(a) /\ a.homeContact = FALSE
  BY DEF StuckInv, AxisInv, Sound, Typed, TravelInv
<1>3. b.fault = a.fault /\ b.state = a.state /\ b.homeContact = a.homeContact
  <2>1. CASE Bench
    BY <1>2, <2>1 DEF Bench, Typed, Fields
  <2>2. CASE Place
    BY <1>2, <2>2 DEF Place, Parked, Typed, Fields
  <2>3. QED
    BY <2>1, <2>2
<1>4. QED
  BY <1>1, <1>2, <1>3 DEF TravelInv, Guarded, OnBench, WithinReach

\* Every step of the drivers that is a cycle of the axis.
LEMMA StepAdvances ==
  ASSUME AxisInv, Wait \/ Issue \/ Stop
  PROVE  /\ \E next : Understood(next) /\ Advance(next)
         /\ scenario' = scenario /\ broken' = broken
<1>1. CASE Wait
  <2>1. Understood(NoCommand) /\ Advance(NoCommand)
    BY <1>1 DEF Wait, Understood, NoCommand
  <2>2. QED
    BY <1>1, <2>1 DEF Wait
<1>2. CASE Issue
  <2>1. plan # <<>> /\ Advance(Head(plan)) /\ Head(plan).type \in {"MOVE", "MOVE_REL", "HOME"}
    BY <1>2 DEF Issue
  <2>2. plan \in Seq(PlanSteps(Low, High))
    BY DEF AxisInv, OnTravel
  <2>3. Head(plan) \in PlanSteps(Low, High)
    BY <2>1, <2>2
  <2>4. Understood(Head(plan))
    BY <2>1, <2>3 DEF Understood, PlanSteps
  <2>5. QED
    BY <1>2, <2>1, <2>4 DEF Issue
<1>3. CASE Stop
  <2> DEFINE next == [type |-> "STOP", value |-> 0]
  <2>1. Advance(next) /\ Understood(next)
    BY <1>3 DEF Stop, Understood
  <2>2. QED
    BY <1>3, <2>1 DEF Stop
<1>4. QED
  BY <1>1, <1>2, <1>3

LEMMA NextTravels ==
  ASSUME AxisInv, StuckInv, TravelInv, [Next]_vars
  PROVE  TravelInv'
<1>1. CASE UNCHANGED vars
  BY <1>1 DEF vars, TravelInv, OnBench, WithinReach
<1>2. CASE Next /\ ~OnBench /\ (Wait \/ Issue \/ Stop)
  BY <1>2, StepAdvances, AdvanceTravels
<1>3. CASE Next
  BY <1>2, <1>3, BreakTravels, BenchTravels DEF Next
<1>4. QED
  BY <1>1, <1>3

----------------------------------------------------------------------------
(***************************************************************************)
(* Ten steps under a push, in the direction of the push: speed and place   *)
(* are negated for an axis that is driven down.                            *)
(***************************************************************************)
\* One step from speed u and place z, between the stops low and high.
Pushed(v, y, u, z, low, high, d) ==
  \E w \in Int, r \in Int :
    /\ 1000 * w >= 996 * u + 200 * d - 500 /\ 1000 * w <= 996 * u + 200 * d + 500
    /\ 1000 * r >= w - 500 /\ 1000 * r <= w + 500
    /\ y = Clamp(z + r, low, high)
    /\ v = IF (z + r <= low /\ w < 0) \/ (z + r >= high /\ w > 0) THEN 0 ELSE w

\* What a step adds at least, unless it ends at the stop ahead.
Adds(v, y, u, z, d) ==
  /\ 1000 * v >= 996 * u + 200 * d - 500
  /\ 1000000 * (y - z) >= 996 * u + 200 * d - 500500

LEMMA PushedMirrors ==
  ASSUME NEW v \in Int, NEW y \in Int, NEW u \in Int, NEW z \in Int, NEW low \in Int,
         NEW high \in Int, NEW d \in Int, low <= high, Pushed(v, y, u, z, low, high, d)
  PROVE  Pushed(-v, -y, -u, -z, -high, -low, -d)
<1>1. PICK w \in Int, r \in Int :
        /\ 1000 * w >= 996 * u + 200 * d - 500 /\ 1000 * w <= 996 * u + 200 * d + 500
        /\ 1000 * r >= w - 500 /\ 1000 * r <= w + 500
        /\ y = Clamp(z + r, low, high)
        /\ v = IF (z + r <= low /\ w < 0) \/ (z + r >= high /\ w > 0) THEN 0 ELSE w
  BY SMT DEF Pushed
<1> PICK m \in Int, s \in Int : m = -w /\ s = -r
  OBVIOUS
<1>2. /\ 1000 * m >= 996 * (-u) + 200 * (-d) - 500 /\ 1000 * m <= 996 * (-u) + 200 * (-d) + 500
      /\ 1000 * s >= m - 500 /\ 1000 * s <= m + 500
  BY <1>1, SMT
<1>3. -y = Clamp((-z) + s, -high, -low)
  BY <1>1, SMT DEF Clamp
<1>4. -v = IF ((-z) + s <= -high /\ m < 0) \/ ((-z) + s >= -low /\ m > 0) THEN 0 ELSE m
  BY <1>1, SMT
<1>5. QED
  <2> SUFFICES \E w1 \in Int, r1 \in Int :
                 /\ 1000 * w1 >= 996 * (-u) + 200 * (-d) - 500
                 /\ 1000 * w1 <= 996 * (-u) + 200 * (-d) + 500
                 /\ 1000 * r1 >= w1 - 500 /\ 1000 * r1 <= w1 + 500
                 /\ -y = Clamp((-z) + r1, -high, -low)
                 /\ -v = IF ((-z) + r1 <= -high /\ w1 < 0) \/ ((-z) + r1 >= -low /\ w1 > 0)
                         THEN 0 ELSE w1
    BY SMT DEF Pushed
  <2> WITNESS m \in Int, s \in Int
  <2> QED
    BY <1>2, <1>3, <1>4, SMT

LEMMA PushedAdds ==
  ASSUME NEW v \in Int, NEW y \in Int, NEW u \in Int, NEW z \in Int, NEW low \in Int,
         NEW high \in Int, NEW d \in Int, low <= z, z <= high, Pushed(v, y, u, z, low, high, d)
  PROVE  (y = high /\ v = 0) \/ Adds(v, y, u, z, d)
<1>1. PICK w \in Int, r \in Int :
        /\ 1000 * w >= 996 * u + 200 * d - 500 /\ 1000 * w <= 996 * u + 200 * d + 500
        /\ 1000 * r >= w - 500 /\ 1000 * r <= w + 500
        /\ y = Clamp(z + r, low, high)
        /\ v = IF (z + r <= low /\ w < 0) \/ (z + r >= high /\ w > 0) THEN 0 ELSE w
  BY SMT DEF Pushed
<1>2. CASE z + r >= high /\ w > 0
  BY <1>1, <1>2, SMT DEF Clamp
<1>3. CASE ~(z + r >= high /\ w > 0)
  <2>1. v >= w
    BY <1>1, <1>3, SMT
  <2>2. y >= z + r
    BY <1>1, <1>3, SMT DEF Clamp
  <2>3. QED
    BY <1>1, <2>1, <2>2, SMT DEF Adds
<1>4. QED
  BY <1>2, <1>3

\* A step of the plant is such a step in either direction.
LEMMA TravelsPushed ==
  ASSUME NEW p, Confined(p), NEW q, Confined(q), NEW duty \in Int, -MaxDuty <= duty,
         duty <= MaxDuty, Travels(q, p, duty)
  PROVE  Pushed(q.velocity, q.position, p.velocity, p.position, p.min, p.max, duty)
<1>1. MaxVelocity = 60000000 /\ MaxDuty = 800000
  BY SMT DEF MaxVelocity, Unit, MaxDuty
<1>2. PICK v \in Int, x \in Int :
        v = Accelerated(p.velocity, duty) /\ x = p.position + Round(v, 1000)
        /\ Arrives(q, p, v, x)
  BY Zenon DEF Travels
<1>3. /\ p.velocity \in Int /\ p.position \in Int /\ p.min \in Int /\ p.max \in Int
      /\ -60000000 <= p.velocity /\ p.velocity <= 60000000
      /\ p.min <= p.position /\ p.position <= p.max
  BY <1>1, PlantNumbers, SMT
<1>4. PICK w \in Int : /\ 1000 * w >= 996 * p.velocity + 200 * duty - 500
                       /\ 1000 * w <= 996 * p.velocity + 200 * duty + 500
                       /\ Accelerated(p.velocity, duty) = Clamp(w, -MaxVelocity, MaxVelocity)
  <2>1. p.velocity \in Int
    BY <1>3, SMT
  <2>2. Gains(Accelerated(p.velocity, duty), p.velocity, duty)
    BY <2>1, AcceleratedNear, Zenon
  <2>3. QED
    BY <2>2, SMT DEF Gains
<1>5. v = w
  BY <1>1, <1>2, <1>3, <1>4, SMT DEF Clamp
<1>6. PICK r \in Int : r = Round(v, 1000) /\ v - 500 <= 1000 * r /\ 1000 * r <= v + 500
  <2>1. Near(Round(v, 1000), v)
    BY RoundNear, Zenon
  <2>2. QED
    BY <2>1, SMT DEF Near
<1>7. /\ q.position = Clamp(p.position + r, p.min, p.max)
      /\ q.velocity = IF (p.position + r <= p.min /\ w < 0) \/ (p.position + r >= p.max /\ w > 0)
                      THEN 0 ELSE w
  BY <1>2, <1>5, <1>6, SMT DEF Arrives
<1>8. QED
  BY <1>3, <1>4, <1>5, <1>6, <1>7, SMT DEF Pushed

\* Ten such steps.
Trace(U, Z, low, high, d) ==
  /\ U \in [0 .. 10 -> Int] /\ Z \in [0 .. 10 -> Int]
  /\ \A i \in 0 .. 10 : /\ low <= Z[i] /\ Z[i] <= high
                         /\ -MaxVelocity <= U[i] /\ U[i] <= MaxVelocity
  /\ \A i \in 0 .. 9 : Pushed(U[i + 1], Z[i + 1], U[i], Z[i], low, high, d)

LEMMA TraceMirrors ==
  ASSUME NEW U, NEW Z, NEW low \in Int, NEW high \in Int, NEW d \in Int,
         Trace(U, Z, low, high, d)
  PROVE  Trace([i \in 0 .. 10 |-> -U[i]], [i \in 0 .. 10 |-> -Z[i]], -high, -low, -d)
<1> DEFINE V == [i \in 0 .. 10 |-> -U[i]]
           Y == [i \in 0 .. 10 |-> -Z[i]]
<1>1. /\ \A i \in 0 .. 10 : /\ U[i] \in Int /\ Z[i] \in Int /\ low <= Z[i] /\ Z[i] <= high
                            /\ -MaxVelocity <= U[i] /\ U[i] <= MaxVelocity
      /\ MaxVelocity \in Int
  BY DEF Trace, MaxVelocity, Unit
<1>2. V \in [0 .. 10 -> Int] /\ Y \in [0 .. 10 -> Int]
  BY <1>1
<1>3. \A i \in 0 .. 10 : V[i] = -U[i] /\ Y[i] = -Z[i]
  OBVIOUS
<1> HIDE DEF V, Y
<1>4. \A i \in 0 .. 10 : /\ -high <= Y[i] /\ Y[i] <= -low
                         /\ -MaxVelocity <= V[i] /\ V[i] <= MaxVelocity
  BY <1>1, <1>3
<1>5. ASSUME NEW i \in 0 .. 9
      PROVE  Pushed(V[i + 1], Y[i + 1], V[i], Y[i], -high, -low, -d)
  <2>1. i \in 0 .. 10 /\ i + 1 \in 0 .. 10
    OBVIOUS
  <2>2. /\ U[i + 1] \in Int /\ Z[i + 1] \in Int /\ U[i] \in Int /\ Z[i] \in Int
        /\ low <= high
    BY <1>1, <2>1
  <2>3. Pushed(U[i + 1], Z[i + 1], U[i], Z[i], low, high, d)
    BY DEF Trace
  <2>4. Pushed(-U[i + 1], -Z[i + 1], -U[i], -Z[i], -high, -low, -d)
    BY <2>2, <2>3, PushedMirrors
  <2>5. QED
    BY <1>3, <2>1, <2>4
<1>6. QED
  BY <1>2, <1>4, <1>5 DEF Trace, V, Y

\* A push of ten steps adds at least this; mirrored, at most.
Gathers(v, gone, u, d) ==
  /\ 1000000 * v >= 960712 * u + 1964381 * d - 40000000
  /\ 10000000 * gone >= 97826 * u + 108690 * d - 100000000

LEMMA TenSum ==
  ASSUME NEW d \in Int,
         NEW u0 \in Int, NEW u1 \in Int, NEW u2 \in Int, NEW u3 \in Int, NEW u4 \in Int,
         NEW u5 \in Int, NEW u6 \in Int, NEW u7 \in Int, NEW u8 \in Int, NEW u9 \in Int,
         NEW u10 \in Int, NEW z0 \in Int, NEW z1 \in Int, NEW z2 \in Int, NEW z3 \in
         Int, NEW z4 \in Int, NEW z5 \in Int, NEW z6 \in Int, NEW z7 \in Int, NEW z8 \in
         Int, NEW z9 \in Int, NEW z10 \in Int,
         Adds(u1, z1, u0, z0, d), Adds(u2, z2, u1, z1, d),
         Adds(u3, z3, u2, z2, d), Adds(u4, z4, u3, z3, d),
         Adds(u5, z5, u4, z4, d), Adds(u6, z6, u5, z5, d),
         Adds(u7, z7, u6, z6, d), Adds(u8, z8, u7, z7, d),
         Adds(u9, z9, u8, z8, d), Adds(u10, z10, u9, z9, d),
         -60000000 <= u0, u0 <= 60000000, -800000 <= d, d <= 800000
  PROVE  Gathers(u10, z10 - z0, u0, d)
BY SMTT(60) DEF Adds, Gathers

LEMMA TenAdds ==
  ASSUME NEW U \in [0 .. 10 -> Int], NEW Z \in [0 .. 10 -> Int], NEW d \in Int,
         -MaxVelocity <= U[0], U[0] <= MaxVelocity, -MaxDuty <= d, d <= MaxDuty,
         \A i \in 0 .. 9 : Adds(U[i + 1], Z[i + 1], U[i], Z[i], d)
  PROVE  Gathers(U[10], Z[10] - Z[0], U[0], d)
<1>1. /\ Adds(U[1], Z[1], U[0], Z[0], d) /\ Adds(U[2], Z[2], U[1], Z[1], d)
      /\ Adds(U[3], Z[3], U[2], Z[2], d) /\ Adds(U[4], Z[4], U[3], Z[3], d)
      /\ Adds(U[5], Z[5], U[4], Z[4], d) /\ Adds(U[6], Z[6], U[5], Z[5], d)
      /\ Adds(U[7], Z[7], U[6], Z[6], d) /\ Adds(U[8], Z[8], U[7], Z[7], d)
      /\ Adds(U[9], Z[9], U[8], Z[8], d) /\ Adds(U[10], Z[10], U[9], Z[9], d)
  <2>1. ASSUME NEW i \in 0 .. 9, NEW k, k = i + 1
        PROVE  Adds(U[k], Z[k], U[i], Z[i], d)
    BY <2>1
  <2>2. QED
    BY <2>1
<1>2. /\ U[0] \in Int /\ U[1] \in Int /\ U[2] \in Int /\ U[3] \in Int /\ U[4] \in Int
      /\ U[5] \in Int /\ U[6] \in Int /\ U[7] \in Int /\ U[8] \in Int /\ U[9] \in Int
      /\ U[10] \in Int
      /\ Z[0] \in Int /\ Z[1] \in Int /\ Z[2] \in Int /\ Z[3] \in Int /\ Z[4] \in Int
      /\ Z[5] \in Int /\ Z[6] \in Int /\ Z[7] \in Int /\ Z[8] \in Int /\ Z[9] \in Int
      /\ Z[10] \in Int
  OBVIOUS
<1>3. -60000000 <= U[0] /\ U[0] <= 60000000 /\ -800000 <= d /\ d <= 800000
  BY SMT DEF MaxVelocity, Unit, MaxDuty
<1>4. QED
  BY <1>1, <1>2, <1>3, TenSum, SMT

LEMMA UpToTen ==
  ASSUME NEW S, 0 \in S, \A i \in 0 .. 9 : i \in S => i + 1 \in S
  PROVE  \A i \in 0 .. 10 : i \in S
<1> DEFINE N == {n \in Nat : n <= 10 => n \in S}
<1>1. 0 \in N
  OBVIOUS
<1>2. ASSUME NEW n \in Nat, n \in N
      PROVE  n + 1 \in N
  <2>1. SUFFICES ASSUME n + 1 <= 10
                 PROVE  n + 1 \in S
    OBVIOUS
  <2>2. n \in 0 .. 9 /\ n \in S
    BY <1>2, <2>1
  <2>3. QED
    BY <2>2
<1>3. Nat \subseteq N
  <2> HIDE DEF N
  <2>1. QED
    BY <1>1, <1>2, Induct
<1>4. QED
  BY <1>3

\* Held at the stop by the push.
Held(v, y, high) == v = 0 /\ y = high

LEMMA StaysHeld ==
  ASSUME NEW v \in Int, NEW y \in Int, NEW u \in Int, NEW z \in Int, NEW low \in Int,
         NEW high \in Int, NEW d \in Int, low <= high, d >= StallDuty, Held(u, z, high),
         Pushed(v, y, u, z, low, high, d)
  PROVE  Held(v, y, high)
<1>1. PICK w \in Int, r \in Int :
        /\ 1000 * w >= 996 * u + 200 * d - 500 /\ 1000 * w <= 996 * u + 200 * d + 500
        /\ 1000 * r >= w - 500 /\ 1000 * r <= w + 500
        /\ y = Clamp(z + r, low, high)
        /\ v = IF (z + r <= low /\ w < 0) \/ (z + r >= high /\ w > 0) THEN 0 ELSE w
  BY SMT DEF Pushed
<1>2. u = 0 /\ z = high
  BY DEF Held
<1>0. d >= 300000
  BY SMT DEF StallDuty
<1>3. w > 0 /\ r > 0
  BY <1>0, <1>1, <1>2, SMT
<1>4. QED
  BY <1>1, <1>2, <1>3, SMT DEF Clamp, Held

\* A push that qualifies gains its due, or ends at the stop ahead.
LEMMA PushGathers ==
  ASSUME NEW U, NEW Z, NEW low \in Int, NEW high \in Int, NEW d \in Int,
         Trace(U, Z, low, high, d), d >= StallDuty, d <= MaxDuty
  PROVE  Held(U[10], Z[10], high) \/ Gathers(U[10], Z[10] - Z[0], U[0], d)
<1> DEFINE Good(i) == Held(U[i], Z[i], high)
                        \/ \A k \in 0 .. 9 : k < i => Adds(U[k + 1], Z[k + 1], U[k], Z[k], d)
           S == {i \in 0 .. 10 : Good(i)}
<1>1. /\ U \in [0 .. 10 -> Int] /\ Z \in [0 .. 10 -> Int]
      /\ -MaxVelocity <= U[0] /\ U[0] <= MaxVelocity
  BY DEF Trace
<1>2. ASSUME NEW i \in 0 .. 9, Good(i)
      PROVE  Good(i + 1)
  <2>1. i \in 0 .. 10 /\ i + 1 \in 0 .. 10
    OBVIOUS
  <2>2. /\ U[i + 1] \in Int /\ Z[i + 1] \in Int /\ U[i] \in Int /\ Z[i] \in Int
        /\ low <= Z[i] /\ Z[i] <= high /\ low <= high
        /\ Pushed(U[i + 1], Z[i + 1], U[i], Z[i], low, high, d)
    BY <1>1, <2>1 DEF Trace
  <2>3. CASE Held(U[i], Z[i], high)
    BY <2>2, <2>3, StaysHeld, Zenon
  <2>4. CASE \A k \in 0 .. 9 : k < i => Adds(U[k + 1], Z[k + 1], U[k], Z[k], d)
    <3>1. (Z[i + 1] = high /\ U[i + 1] = 0) \/ Adds(U[i + 1], Z[i + 1], U[i], Z[i], d)
      BY <2>2, PushedAdds, Zenon
    <3>2. \A k \in 0 .. 9 : k < i + 1 => k < i \/ k = i
      OBVIOUS
    <3>3. QED
      BY <2>4, <3>1, <3>2, Zenon DEF Held
  <2>5. QED
    BY <1>2, <2>3, <2>4
<1>3. Good(0)
  OBVIOUS
<1> HIDE DEF Good
<1>4. Good(10)
  <2>1. 0 \in S /\ (\A i \in 0 .. 9 : i \in S => i + 1 \in S)
    BY <1>2, <1>3
  <2>2. 10 \in S
    <3> HIDE DEF S
    <3> QED
      BY <2>1, UpToTen
  <2>3. QED
    BY <2>2
<1>5. (\A k \in 0 .. 9 : Adds(U[k + 1], Z[k + 1], U[k], Z[k], d))
        => Gathers(U[10], Z[10] - Z[0], U[0], d)
  <2>1. -MaxDuty <= d
    BY SMT DEF MaxDuty, StallDuty
  <2>2. QED
    BY <1>1, <2>1, TenAdds
<1>6. QED
  BY <1>4, <1>5 DEF Good

\* What a step of a trace is made of.
LEMMA TraceStep ==
  ASSUME NEW U, NEW Z, NEW low \in Int, NEW high \in Int, NEW d \in Int,
         Trace(U, Z, low, high, d), NEW i \in 0 .. 9
  PROVE  /\ U[i + 1] \in Int /\ Z[i + 1] \in Int /\ U[i] \in Int /\ Z[i] \in Int
         /\ low <= Z[i] /\ Z[i] <= high /\ low <= high
         /\ low <= Z[i + 1] /\ Z[i + 1] <= high
         /\ U[0] \in Int /\ Z[0] \in Int /\ low <= Z[0] /\ Z[0] <= high
         /\ Pushed(U[i + 1], Z[i + 1], U[i], Z[i], low, high, d)
<1>1. i \in 0 .. 10 /\ i + 1 \in 0 .. 10 /\ 0 \in 0 .. 10
  OBVIOUS
<1>2. QED
  BY <1>1 DEF Trace

LEMMA TraceEnds ==
  ASSUME NEW U, NEW Z, NEW low \in Int, NEW high \in Int, NEW d \in Int,
         Trace(U, Z, low, high, d)
  PROVE  /\ U[0] \in Int /\ Z[0] \in Int /\ U[10] \in Int /\ Z[10] \in Int
         /\ low <= Z[0] /\ Z[0] <= high /\ low <= Z[10] /\ Z[10] <= high
         /\ -MaxVelocity <= U[0] /\ U[0] <= MaxVelocity
         /\ U \in [0 .. 10 -> Int] /\ Z \in [0 .. 10 -> Int]
<1>1. 0 \in 0 .. 10 /\ 10 \in 0 .. 10
  OBVIOUS
<1>2. QED
  BY <1>1 DEF Trace

\* The parts of a step, named.
Makes(w, r, v, y, u, z, low, high, d) ==
  /\ 1000 * w >= 996 * u + 200 * d - 500 /\ 1000 * w <= 996 * u + 200 * d + 500
  /\ 1000 * r >= w - 500 /\ 1000 * r <= w + 500
  /\ y = Clamp(z + r, low, high)
  /\ v = IF (z + r <= low /\ w < 0) \/ (z + r >= high /\ w > 0) THEN 0 ELSE w

LEMMA PushedMakes ==
  ASSUME NEW v, NEW y, NEW u, NEW z, NEW low, NEW high, NEW d,
         Pushed(v, y, u, z, low, high, d)
  PROVE  \E w \in Int, r \in Int : Makes(w, r, v, y, u, z, low, high, d)
BY SMT DEF Pushed, Makes

----------------------------------------------------------------------------
\* After a stop behind the axis, at most i steps ago, at or below place z.
Bounced(v, y, z, i) == v >= 0 /\ v <= 160001 * i /\ y - z <= 1610 * i

LEMMA BounceStep ==
  ASSUME NEW v \in Int, NEW y \in Int, NEW u \in Int, NEW z \in Int, NEW low \in Int,
         NEW high \in Int, NEW d \in Int, NEW i \in 0 .. 9, NEW from \in Int,
         low <= z, z <= high, d >= StallDuty, d <= MaxDuty,
         Bounced(u, z, from, i), Pushed(v, y, u, z, low, high, d)
  PROVE  Bounced(v, y, from, i + 1)
<1>1. PICK w \in Int, r \in Int : Makes(w, r, v, y, u, z, low, high, d)
  BY PushedMakes, Zenon
<1>2. d >= 300000 /\ d <= 800000 /\ i \in Int /\ 0 <= i /\ i <= 9
  BY SMT DEF StallDuty, MaxDuty
<1>3. w > 0 /\ w <= 160001 * (i + 1) /\ r >= 0 /\ r <= 1610
  BY <1>1, <1>2, SMT DEF Makes, Bounced
<1>4. (v = 0 \/ v = w) /\ y <= z + r
  BY <1>1, <1>3, SMT DEF Makes, Clamp
<1>5. QED
  BY <1>2, <1>3, <1>4, SMT DEF Bounced

\* What the mirrored push adds at least, the push adds at most, unless the axis
\* has met the stop behind it.
LEMMA PushLimits ==
  ASSUME NEW U, NEW Z, NEW low \in Int, NEW high \in Int, NEW d \in Int,
         Trace(U, Z, low, high, d), d >= StallDuty, d <= MaxDuty
  PROVE  \/ Bounced(U[10], Z[10], Z[0], 10)
         \/ Gathers(-U[10], (-Z[10]) - (-Z[0]), -U[0], -d)
<1> DEFINE V == [i \in 0 .. 10 |-> -U[i]]
           Y == [i \in 0 .. 10 |-> -Z[i]]
           Good(i) == Bounced(U[i], Z[i], Z[0], i)
                        \/ \A k \in 0 .. 9 : k < i => Adds(V[k + 1], Y[k + 1], V[k], Y[k], -d)
           S == {i \in 0 .. 10 : Good(i)}
<1>0. (\A i \in 0 .. 10 : V[i] = -U[i] /\ Y[i] = -Z[i]) /\ -d \in Int /\ -low \in Int /\ -high \in Int
  OBVIOUS
<1>1. Trace(V, Y, -high, -low, -d)
  BY TraceMirrors, Zenon
<1> HIDE DEF V, Y
<1>2. ASSUME NEW i \in 0 .. 9, Good(i)
      PROVE  Good(i + 1)
  <2>1. /\ U[i + 1] \in Int /\ Z[i + 1] \in Int /\ U[i] \in Int /\ Z[i] \in Int
        /\ low <= Z[i] /\ Z[i] <= high /\ U[0] \in Int /\ Z[0] \in Int /\ low <= Z[0]
        /\ Pushed(U[i + 1], Z[i + 1], U[i], Z[i], low, high, d)
    BY TraceStep, Zenon
  <2>2. /\ V[i + 1] \in Int /\ Y[i + 1] \in Int /\ V[i] \in Int /\ Y[i] \in Int
        /\ -high <= Y[i] /\ Y[i] <= -low
        /\ Pushed(V[i + 1], Y[i + 1], V[i], Y[i], -high, -low, -d)
    BY <1>0, <1>1, TraceStep, Zenon
  <2>3. CASE Bounced(U[i], Z[i], Z[0], i)
    BY <2>1, <2>3, BounceStep, Zenon
  <2>4. CASE \A k \in 0 .. 9 : k < i => Adds(V[k + 1], Y[k + 1], V[k], Y[k], -d)
    <3>1. (Y[i + 1] = -low /\ V[i + 1] = 0) \/ Adds(V[i + 1], Y[i + 1], V[i], Y[i], -d)
      BY <1>0, <2>2, PushedAdds, Zenon
    <3>2. \A k \in 0 .. 9 : k < i + 1 => k < i \/ k = i
      OBVIOUS
    <3>3. Y[i + 1] = -low /\ V[i + 1] = 0 => Bounced(U[i + 1], Z[i + 1], Z[0], i + 1)
      <4>1. V[i + 1] = -U[i + 1] /\ Y[i + 1] = -Z[i + 1]
        BY <1>0
      <4> PICK v \in Int, y \in Int, z \in Int : v = U[i + 1] /\ y = Z[i + 1] /\ z = Z[0]
        BY <2>1
      <4>2. -y = -low /\ -v = 0 => v = 0 /\ y = low
        OBVIOUS
      <4>3. y = low /\ v = 0 => Bounced(v, y, z, i + 1)
        BY <2>1, SMT DEF Bounced
      <4>4. QED
        BY <4>1, <4>2, <4>3
    <3>4. QED
      BY <2>4, <3>1, <3>2, <3>3, Zenon
  <2>5. QED
    BY <1>2, <2>3, <2>4
<1>3. Good(0)
  OBVIOUS
<1> HIDE DEF Good
<1>4. Good(10)
  <2>1. 0 \in S /\ (\A i \in 0 .. 9 : i \in S => i + 1 \in S)
    BY <1>2, <1>3
  <2>2. 10 \in S
    <3> HIDE DEF S
    <3> QED
      BY <2>1, UpToTen
  <2>3. QED
    BY <2>2
<1>5. (\A k \in 0 .. 9 : Adds(V[k + 1], Y[k + 1], V[k], Y[k], -d))
        => Gathers(V[10], Y[10] - Y[0], V[0], -d)
  <2>1. -MaxDuty <= -d /\ -d <= MaxDuty
    BY SMT DEF MaxDuty, StallDuty
  <2>2. /\ V \in [0 .. 10 -> Int] /\ Y \in [0 .. 10 -> Int]
        /\ -MaxVelocity <= V[0] /\ V[0] <= MaxVelocity
    BY <1>0, <1>1, TraceEnds, Zenon
  <2>3. QED
    BY <1>0, <2>1, <2>2, TenAdds, Zenon
<1>6. V[10] = -U[10] /\ V[0] = -U[0] /\ Y[10] = -Z[10] /\ Y[0] = -Z[0]
  BY <1>0
<1>7. QED
  BY <1>4, <1>5, <1>6 DEF Good

----------------------------------------------------------------------------
\* The weakest push that a duty takes on between two samples, and an axis so close
\* to the stop ahead that a push that qualifies reaches it within a cycle.
DriftDuty == -12000

NearStop(v, y, high, i) == high - y <= 25 * i /\ v >= -2401 * i

LEMMA NearStep ==
  ASSUME NEW v \in Int, NEW y \in Int, NEW u \in Int, NEW z \in Int, NEW low \in Int,
         NEW high \in Int, NEW d \in Int, NEW i \in 0 .. 9,
         low <= z, z <= high, d >= DriftDuty,
         NearStop(u, z, high, i), Pushed(v, y, u, z, low, high, d)
  PROVE  NearStop(v, y, high, i + 1)
<1>1. PICK w \in Int, r \in Int : Makes(w, r, v, y, u, z, low, high, d)
  BY PushedMakes, Zenon
<1>2. d >= -12000 /\ i \in Int /\ 0 <= i /\ i <= 9
  BY SMT DEF DriftDuty
<1>3. w >= -2401 * (i + 1) /\ r >= -25
  BY <1>1, <1>2, SMT DEF Makes, NearStop
<1>4. (v = 0 \/ v = w) /\ (y >= z + r \/ y = high)
  BY <1>1, SMT DEF Makes, Clamp
<1>5. QED
  BY <1>2, <1>3, <1>4, SMT DEF NearStop

LEMMA DriftGathers ==
  ASSUME NEW U, NEW Z, NEW low \in Int, NEW high \in Int, NEW d \in Int,
         Trace(U, Z, low, high, d), d >= DriftDuty, d <= MaxDuty
  PROVE  NearStop(U[10], Z[10], high, 10) \/ Gathers(U[10], Z[10] - Z[0], U[0], d)
<1> DEFINE Good(i) == (i > 0 /\ NearStop(U[i], Z[i], high, i))
                        \/ \A k \in 0 .. 9 : k < i => Adds(U[k + 1], Z[k + 1], U[k], Z[k], d)
           S == {i \in 0 .. 10 : Good(i)}
<1>2. ASSUME NEW i \in 0 .. 9, Good(i)
      PROVE  Good(i + 1)
  <2>1. /\ U[i + 1] \in Int /\ Z[i + 1] \in Int /\ U[i] \in Int /\ Z[i] \in Int
        /\ low <= Z[i] /\ Z[i] <= high
        /\ Pushed(U[i + 1], Z[i + 1], U[i], Z[i], low, high, d)
    BY TraceStep, Zenon
  <2>0. i + 1 > 0
    OBVIOUS
  <2>3. CASE NearStop(U[i], Z[i], high, i)
    BY <2>0, <2>1, <2>3, NearStep, Zenon
  <2>4. CASE \A k \in 0 .. 9 : k < i => Adds(U[k + 1], Z[k + 1], U[k], Z[k], d)
    <3>1. (Z[i + 1] = high /\ U[i + 1] = 0) \/ Adds(U[i + 1], Z[i + 1], U[i], Z[i], d)
      BY <2>1, PushedAdds, Zenon
    <3>2. \A k \in 0 .. 9 : k < i + 1 => k < i \/ k = i
      OBVIOUS
    <3>3. Z[i + 1] = high /\ U[i + 1] = 0 => NearStop(U[i + 1], Z[i + 1], high, i + 1)
      <4> PICK v \in Int, y \in Int : v = U[i + 1] /\ y = Z[i + 1]
        BY <2>1
      <4>1. y = high /\ v = 0 => NearStop(v, y, high, i + 1)
        BY SMT DEF NearStop
      <4>2. QED
        BY <4>1
    <3>4. QED
      BY <2>0, <2>4, <3>1, <3>2, <3>3, Zenon
  <2>5. QED
    BY <1>2, <2>3, <2>4
<1>3. Good(0)
  OBVIOUS
<1> HIDE DEF Good
<1>4. Good(10)
  <2>1. 0 \in S /\ (\A i \in 0 .. 9 : i \in S => i + 1 \in S)
    BY <1>2, <1>3
  <2>2. 10 \in S
    <3> HIDE DEF S
    <3> QED
      BY <2>1, UpToTen
  <2>3. QED
    BY <2>2
<1>5. (\A k \in 0 .. 9 : Adds(U[k + 1], Z[k + 1], U[k], Z[k], d))
        => Gathers(U[10], Z[10] - Z[0], U[0], d)
  <2>1. -MaxDuty <= d
    BY SMT DEF MaxDuty, DriftDuty
  <2>2. /\ U \in [0 .. 10 -> Int] /\ Z \in [0 .. 10 -> Int]
        /\ -MaxVelocity <= U[0] /\ U[0] <= MaxVelocity
    BY TraceEnds, Zenon
  <2>3. QED
    BY <2>1, <2>2, TenAdds, Zenon
<1>6. QED
  BY <1>4, <1>5 DEF Good

\* At speed, such a cycle has a bound from above as well.
Speedy(u, i) == u >= 9000000 - 50000 * i

LEMMA SpeedyStep ==
  ASSUME NEW v \in Int, NEW y \in Int, NEW u \in Int, NEW z \in Int, NEW low \in Int,
         NEW high \in Int, NEW d \in Int, NEW i \in 0 .. 9,
         low <= z, z <= high, d >= DriftDuty,
         Speedy(u, i), Pushed(v, y, u, z, low, high, d)
  PROVE  (y = high /\ v = 0) \/ (Speedy(v, i + 1) /\ Adds(-v, -y, -u, -z, -d))
<1>1. PICK w \in Int, r \in Int : Makes(w, r, v, y, u, z, low, high, d)
  BY PushedMakes, Zenon
<1>2. d >= -12000 /\ i \in Int /\ 0 <= i /\ i <= 9
  BY SMT DEF DriftDuty
<1>3. w >= 9000000 - 50000 * (i + 1) /\ r > 0
  BY <1>1, <1>2, SMT DEF Makes, Speedy
<1>4. w > 0 /\ z + r > low
  BY <1>2, <1>3, SMT
<1>5. (y = high /\ v = 0) \/ (v = w /\ y = z + r)
  BY <1>1, <1>4, SMT DEF Makes, Clamp
<1>6. v = w /\ y = z + r => Adds(-v, -y, -u, -z, -d)
  BY <1>1, SMT DEF Makes, Adds
<1>7. v = w => Speedy(v, i + 1)
  BY <1>3, SMT DEF Speedy
<1>8. QED
  BY <1>5, <1>6, <1>7, Zenon

LEMMA DriftLimits ==
  ASSUME NEW U, NEW Z, NEW low \in Int, NEW high \in Int, NEW d \in Int,
         Trace(U, Z, low, high, d), d >= DriftDuty, d <= MaxDuty, Speedy(U[0], 0)
  PROVE  \/ NearStop(U[10], Z[10], high, 10)
         \/ Gathers(-U[10], (-Z[10]) - (-Z[0]), -U[0], -d)
<1> DEFINE V == [i \in 0 .. 10 |-> -U[i]]
           Y == [i \in 0 .. 10 |-> -Z[i]]
           Good(i) == (i > 0 /\ NearStop(U[i], Z[i], high, i))
                        \/ /\ Speedy(U[i], i)
                           /\ \A k \in 0 .. 9 : k < i => Adds(V[k + 1], Y[k + 1], V[k], Y[k], -d)
           S == {i \in 0 .. 10 : Good(i)}
<1>0. (\A i \in 0 .. 10 : V[i] = -U[i] /\ Y[i] = -Z[i]) /\ -d \in Int /\ -low \in Int /\ -high \in Int
  OBVIOUS
<1>1. Trace(V, Y, -high, -low, -d)
  BY TraceMirrors, Zenon
<1> HIDE DEF V, Y
<1>2. ASSUME NEW i \in 0 .. 9, Good(i)
      PROVE  Good(i + 1)
  <2>1. /\ U[i + 1] \in Int /\ Z[i + 1] \in Int /\ U[i] \in Int /\ Z[i] \in Int
        /\ low <= Z[i] /\ Z[i] <= high
        /\ Pushed(U[i + 1], Z[i + 1], U[i], Z[i], low, high, d)
    BY TraceStep, Zenon
  <2>2. /\ V[i + 1] = -U[i + 1] /\ Y[i + 1] = -Z[i + 1] /\ V[i] = -U[i] /\ Y[i] = -Z[i]
    BY <1>0
  <2>0. i + 1 > 0
    OBVIOUS
  <2>3. CASE NearStop(U[i], Z[i], high, i)
    BY <2>0, <2>1, <2>3, NearStep, Zenon
  <2>4. CASE /\ Speedy(U[i], i)
             /\ \A k \in 0 .. 9 : k < i => Adds(V[k + 1], Y[k + 1], V[k], Y[k], -d)
    <3>1. \/ Z[i + 1] = high /\ U[i + 1] = 0
          \/ Speedy(U[i + 1], i + 1) /\ Adds(-U[i + 1], -Z[i + 1], -U[i], -Z[i], -d)
      BY <2>1, <2>4, SpeedyStep, Zenon
    <3>2. \A k \in 0 .. 9 : k < i + 1 => k < i \/ k = i
      OBVIOUS
    <3>3. Z[i + 1] = high /\ U[i + 1] = 0 => NearStop(U[i + 1], Z[i + 1], high, i + 1)
      <4> PICK v \in Int, y \in Int : v = U[i + 1] /\ y = Z[i + 1]
        BY <2>1
      <4>1. y = high /\ v = 0 => NearStop(v, y, high, i + 1)
        BY SMT DEF NearStop
      <4>2. QED
        BY <4>1
    <3>4. QED
      BY <2>0, <2>2, <2>4, <3>1, <3>2, <3>3, Zenon
  <2>5. QED
    BY <1>2, <2>3, <2>4
<1>3. Good(0)
  OBVIOUS
<1> HIDE DEF Good
<1>4. Good(10)
  <2>1. 0 \in S /\ (\A i \in 0 .. 9 : i \in S => i + 1 \in S)
    BY <1>2, <1>3
  <2>2. 10 \in S
    <3> HIDE DEF S
    <3> QED
      BY <2>1, UpToTen
  <2>3. QED
    BY <2>2
<1>5. (\A k \in 0 .. 9 : Adds(V[k + 1], Y[k + 1], V[k], Y[k], -d))
        => Gathers(V[10], Y[10] - Y[0], V[0], -d)
  <2>1. -MaxDuty <= -d /\ -d <= MaxDuty
    BY SMT DEF MaxDuty, DriftDuty
  <2>2. /\ V \in [0 .. 10 -> Int] /\ Y \in [0 .. 10 -> Int]
        /\ -MaxVelocity <= V[0] /\ V[0] <= MaxVelocity
    BY <1>0, <1>1, TraceEnds, Zenon
  <2>3. QED
    BY <1>0, <2>1, <2>2, TenAdds, Zenon
<1>6. V[10] = -U[10] /\ V[0] = -U[0] /\ Y[10] = -Z[10] /\ Y[0] = -Z[0]
  BY <1>0
<1>7. QED
  BY <1>4, <1>5, <1>6 DEF Good

----------------------------------------------------------------------------
\* An axis that close is held at the stop after a cycle.
Closes(v, y, high, i) == high - y <= 250 - 35 * i /\ v >= -24010

LEMMA CloseStep ==
  ASSUME NEW v \in Int, NEW y \in Int, NEW u \in Int, NEW z \in Int, NEW low \in Int,
         NEW high \in Int, NEW d \in Int, NEW i \in 0 .. 9,
         low <= z, z <= high, d >= StallDuty,
         Closes(u, z, high, i), Pushed(v, y, u, z, low, high, d)
  PROVE  Held(v, y, high) \/ Closes(v, y, high, i + 1)
<1>1. PICK w \in Int, r \in Int : Makes(w, r, v, y, u, z, low, high, d)
  BY PushedMakes, Zenon
<1>2. d >= 300000 /\ i \in Int /\ 0 <= i /\ i <= 9
  BY SMT DEF StallDuty
<1>3. w > 0 /\ r >= 35
  BY <1>1, <1>2, SMT DEF Makes, Closes
<1>4. (y = high /\ v = 0) \/ (v = w /\ y = z + r)
  BY <1>1, <1>3, SMT DEF Makes, Clamp
<1>5. QED
  BY <1>2, <1>3, <1>4, SMT DEF Closes, Held

LEMMA CloseIsHeld ==
  ASSUME NEW U, NEW Z, NEW low \in Int, NEW high \in Int, NEW d \in Int,
         Trace(U, Z, low, high, d), d >= StallDuty, NearStop(U[0], Z[0], high, 10)
  PROVE  Held(U[10], Z[10], high)
<1> DEFINE Good(i) == Held(U[i], Z[i], high) \/ Closes(U[i], Z[i], high, i)
           S == {i \in 0 .. 10 : Good(i)}
<1>2. ASSUME NEW i \in 0 .. 9, Good(i)
      PROVE  Good(i + 1)
  <2>1. /\ U[i + 1] \in Int /\ Z[i + 1] \in Int /\ U[i] \in Int /\ Z[i] \in Int
        /\ low <= Z[i] /\ Z[i] <= high /\ low <= high
        /\ Pushed(U[i + 1], Z[i + 1], U[i], Z[i], low, high, d)
    BY TraceStep, Zenon
  <2>2. QED
    BY <1>2, <2>1, CloseStep, StaysHeld, Zenon
<1>0. /\ U[0] \in Int /\ Z[0] \in Int /\ U[10] \in Int /\ Z[10] \in Int /\ Z[10] <= high
  BY TraceEnds, Zenon
<1>3. Good(0)
  <2> PICK v \in Int, y \in Int : v = U[0] /\ y = Z[0]
    BY <1>0
  <2>1. NearStop(v, y, high, 10) => Closes(v, y, high, 0)
    BY SMT DEF NearStop, Closes
  <2>2. QED
    BY <2>1
<1> HIDE DEF Good
<1>4. Good(10)
  <2>1. 0 \in S /\ (\A i \in 0 .. 9 : i \in S => i + 1 \in S)
    BY <1>2, <1>3
  <2>2. 10 \in S
    <3> HIDE DEF S
    <3> QED
      BY <2>1, UpToTen
  <2>3. QED
    BY <2>2
<1>5. ~Closes(U[10], Z[10], high, 10)
  <2> PICK v \in Int, y \in Int : v = U[10] /\ y = Z[10] /\ y <= high
    BY <1>0
  <2>1. ~Closes(v, y, high, 10)
    BY SMT DEF Closes
  <2>2. QED
    BY <2>1
<1>6. QED
  BY <1>4, <1>5 DEF Good

----------------------------------------------------------------------------
\* An axis that has not lost a count's length in a cycle is not fast backwards.
Backs(v, y, z, i) == v < -10290000 - 121000 * i => y - z <= -10200 * i

LEMMA BackStep ==
  ASSUME NEW v \in Int, NEW y \in Int, NEW u \in Int, NEW z \in Int, NEW low \in Int,
         NEW high \in Int, NEW d \in Int, NEW i \in 0 .. 9, NEW from \in Int,
         low <= z, z <= high, -MaxDuty <= d,
         Backs(u, z, from, i), Pushed(v, y, u, z, low, high, d)
  PROVE  Backs(v, y, from, i + 1)
<1>1. PICK w \in Int, r \in Int : Makes(w, r, v, y, u, z, low, high, d)
  BY PushedMakes, Zenon
<1>2. d >= -800000 /\ i \in Int /\ 0 <= i /\ i <= 9
  BY SMT DEF MaxDuty
<1>3. SUFFICES ASSUME v < -10290000 - 121000 * (i + 1)
               PROVE  y - from <= -10200 * (i + 1)
  BY <1>2, SMT DEF Backs
<1>4. v = w /\ r <= -10200 /\ z + r < high /\ ~(z + r <= low)
  BY <1>1, <1>2, <1>3, SMT DEF Makes
<1>5. y = z + r
  BY <1>1, <1>4, SMT DEF Makes, Clamp
<1>6. u < -10290000 - 121000 * i
  BY <1>1, <1>2, <1>3, <1>4, SMT DEF Makes
<1>7. QED
  BY <1>2, <1>4, <1>5, <1>6, SMT DEF Backs

Calm == 11500000

LEMMA CalmCycle ==
  ASSUME NEW U, NEW Z, NEW low \in Int, NEW high \in Int, NEW d \in Int,
         Trace(U, Z, low, high, d), -MaxDuty <= d, Z[10] - Z[0] >= -Unit
  PROVE  U[10] >= -Calm
<1> DEFINE Good(i) == Backs(U[i], Z[i], Z[0], i)
           S == {i \in 0 .. 10 : Good(i)}
<1>2. ASSUME NEW i \in 0 .. 9, Good(i)
      PROVE  Good(i + 1)
  <2>1. /\ U[i + 1] \in Int /\ Z[i + 1] \in Int /\ U[i] \in Int /\ Z[i] \in Int
        /\ low <= Z[i] /\ Z[i] <= high /\ low <= high /\ Z[0] \in Int
        /\ Pushed(U[i + 1], Z[i + 1], U[i], Z[i], low, high, d)
    BY TraceStep, Zenon
  <2>2. QED
    BY <1>2, <2>1, BackStep, Zenon
<1>0. /\ U[0] \in Int /\ Z[0] \in Int /\ U[10] \in Int /\ Z[10] \in Int /\ Z[10] <= high
  BY TraceEnds, Zenon
<1>3. Good(0)
  <2> PICK v \in Int, y \in Int : v = U[0] /\ y = Z[0]
    BY <1>0
  <2>1. Backs(v, y, y, 0)
    BY SMT DEF Backs
  <2>2. QED
    BY <2>1
<1> HIDE DEF Good
<1>4. Good(10)
  <2>1. 0 \in S /\ (\A i \in 0 .. 9 : i \in S => i + 1 \in S)
    BY <1>2, <1>3
  <2>2. 10 \in S
    <3> HIDE DEF S
    <3> QED
      BY <2>1, UpToTen
  <2>3. QED
    BY <2>2
<1>5. QED
  <2> PICK v \in Int, y \in Int, z \in Int : v = U[10] /\ y = Z[10] /\ z = Z[0]
    BY <1>0
  <2>1. y - z >= -100000
    BY SMT DEF Unit
  <2>2. Backs(v, y, z, 10)
    BY <1>4 DEF Good
  <2>3. v >= -Calm
    BY <2>1, <2>2, SMT DEF Backs, Calm
  <2>4. QED
    BY <2>3

----------------------------------------------------------------------------
(***************************************************************************)
(* Two cycles: the push that qualifies, before Safety's look, in which the *)
(* count may move, and the one after it, in which it does not.             *)
(***************************************************************************)
\* Where the axis is between two counts.
Phase(y) == -50000 <= y /\ y <= 50000

\* From speed u and phase y to speed v and phase z, k counts on.
Leads(v, z, k, u, y, d) ==
  /\ Phase(y) /\ Phase(z) /\ -Calm <= u /\ u <= Calm /\ StallDuty <= d /\ d <= MaxDuty
  /\ Gathers(v, (z + Unit * k) - y, u, d)
  /\ Bounced(v, (z + Unit * k) - y, 0, 10) \/ Gathers(-v, -((z + Unit * k) - y), -u, -d)

Follow(w, x, v, z, k, d, e) ==
  /\ Phase(x) /\ e <= MaxDuty /\ Gathers(w, x - z, v, e)
  /\ k <= 0 => e >= StallDuty
  /\ k = 1 => e >= d - 156000
  /\ k = 2 => e >= d - 312000

LEMMA AtMostTwo ==
  ASSUME NEW v \in Int, NEW z \in Int, NEW k \in Int, NEW u \in Int, NEW y \in Int, NEW d \in Int,
         Leads(v, z, k, u, y, d)
  PROVE  k <= 2
BY SMTT(30) DEF Leads, Phase, Calm, StallDuty, MaxDuty, Unit, Gathers, Bounced

\* What two such looks in a row gain in speed and in place.
Gained(w, x, u, y) ==
  /\ \/ 1000 * w >= 923 * u + 1150000000
     \/ 1000 * w >= 923 * u + 845000000 /\ w >= 200000
  /\ 100000 * (x - y) >= 1918 * u - 8950000000

LEMMA PairGains ==
  ASSUME NEW v \in Int, NEW z \in Int, NEW k \in Int, NEW u \in Int, NEW y \in Int, NEW d \in Int,
         NEW w \in Int, NEW x \in Int, NEW e \in Int,
         Leads(v, z, k, u, y, d), Follow(w, x, v, z, k, d, e), k <= 1
  PROVE  Gained(w, x, u, y)
<1>1. CASE k <= 0
  <2>1. 1000 * w >= 923 * u + 1150000000
    BY <1>1, SMTT(30) DEF Leads, Follow, Phase, Calm, StallDuty, MaxDuty, Unit, Gathers, Bounced
  <2>2. 100000 * (x - y) >= 1918 * u - 8950000000
    BY <1>1, SMTT(30) DEF Leads, Follow, Phase, Calm, StallDuty, MaxDuty, Unit, Gathers, Bounced
  <2>3. QED
    BY <2>1, <2>2, SMT DEF Gained
<1>2. CASE k = 1
  <2>1. 1000 * w >= 923 * u + 845000000
    BY <1>2, SMTT(30) DEF Leads, Follow, Phase, Calm, StallDuty, MaxDuty, Unit, Gathers, Bounced
  <2>2. w >= 200000
    BY <1>2, SMTT(30) DEF Leads, Follow, Phase, Calm, StallDuty, MaxDuty, Unit, Gathers, Bounced
  <2>3. 100000 * (x - y) >= 1918 * u - 8950000000
    BY <1>2, SMTT(30) DEF Leads, Follow, Phase, Calm, StallDuty, MaxDuty, Unit, Gathers, Bounced
  <2>4. QED
    BY <2>1, <2>2, <2>3, SMT DEF Gained
<1>3. QED
  BY <1>1, <1>2, SMT

LEMMA TwoNeedSpeed ==
  ASSUME NEW v \in Int, NEW z \in Int, NEW u \in Int, NEW y \in Int, NEW d \in Int,
         NEW w \in Int, NEW x \in Int, NEW e \in Int,
         Leads(v, z, 2, u, y, d), Follow(w, x, v, z, 2, d, e)
  PROVE  /\ Speedy(v, 0) /\ w >= 9000000 /\ x >= 40000 /\ d <= 374600
<1>1. v >= 9000000
  BY SMTT(30) DEF Leads, Follow, Phase, Calm, StallDuty, MaxDuty, Unit, Gathers, Bounced
<1>2. w >= 9000000
  BY SMTT(30) DEF Leads, Follow, Phase, Calm, StallDuty, MaxDuty, Unit, Gathers, Bounced
<1>3. x >= 40000
  BY SMTT(30) DEF Leads, Follow, Phase, Calm, StallDuty, MaxDuty, Unit, Gathers, Bounced
<1>4. d <= 374600
  BY SMTT(30) DEF Leads, Follow, Phase, Calm, StallDuty, MaxDuty, Unit, Gathers, Bounced
<1>5. QED
  BY <1>1, <1>2, <1>3, <1>4, SMT DEF Speedy

\* The way of a cycle is too short for two counts.
Short(u, d) == 97826 * u + 108690 * d + 100000000 < 1000000000000

LEMMA TwoTireOut ==
  ASSUME NEW v \in Int, NEW z \in Int, NEW u \in Int, NEW y \in Int, NEW d \in Int,
         NEW w \in Int, NEW x \in Int, NEW e \in Int, NEW f \in Int,
         Leads(v, z, 2, u, y, d), Follow(w, x, v, z, 2, d, e),
         Gathers(-w, -(x - z), -v, -e), e <= d - 311870, f <= d - 11750, d <= 340000
  PROVE  Short(w, f)
BY SMTT(30) DEF Leads, Follow, Phase, Calm, StallDuty, MaxDuty, Unit, Gathers, Bounced, Short

LEMMA ShortIsNotTwo ==
  ASSUME NEW v \in Int, NEW z \in Int, NEW u \in Int, NEW y \in Int, NEW d \in Int,
         Leads(v, z, 2, u, y, d), Short(u, d)
  PROVE  FALSE
BY SMTT(30) DEF Leads, Phase, Calm, StallDuty, MaxDuty, Unit, Gathers, Bounced, Short

----------------------------------------------------------------------------
(***************************************************************************)
(* A cycle of ten steps, by its ends: from speed u and place z to speed v  *)
(* and place x.                                                            *)
(***************************************************************************)
Rides(v, x, u, z, low, high, d) ==
  \E U, Z : Trace(U, Z, low, high, d) /\ U[0] = u /\ Z[0] = z /\ U[10] = v /\ Z[10] = x

LEMMA RidesMirror ==
  ASSUME NEW v \in Int, NEW x \in Int, NEW u \in Int, NEW z \in Int, NEW low \in Int,
         NEW high \in Int, NEW d \in Int, Rides(v, x, u, z, low, high, d)
  PROVE  Rides(-v, -x, -u, -z, -high, -low, -d)
<1> PICK U, Z : Trace(U, Z, low, high, d) /\ U[0] = u /\ Z[0] = z /\ U[10] = v /\ Z[10] = x
  BY DEF Rides
<1> DEFINE V == [i \in 0 .. 10 |-> -U[i]]
           Y == [i \in 0 .. 10 |-> -Z[i]]
<1>1. Trace(V, Y, -high, -low, -d)
  BY TraceMirrors, Zenon
<1>2. 0 \in 0 .. 10 /\ 10 \in 0 .. 10
  OBVIOUS
<1>3. V[0] = -u /\ Y[0] = -z /\ V[10] = -v /\ Y[10] = -x
  BY <1>2
<1> HIDE DEF V, Y
<1>4. QED
  BY <1>1, <1>3 DEF Rides

LEMMA RideGathers ==
  ASSUME NEW v \in Int, NEW x \in Int, NEW u \in Int, NEW z \in Int, NEW low \in Int,
         NEW high \in Int, NEW d \in Int, Rides(v, x, u, z, low, high, d),
         d >= StallDuty, d <= MaxDuty
  PROVE  /\ Held(v, x, high) \/ Gathers(v, x - z, u, d)
         /\ Bounced(v, x, z, 10) \/ Gathers(-v, (-x) - (-z), -u, -d)
<1> PICK U, Z : Trace(U, Z, low, high, d) /\ U[0] = u /\ Z[0] = z /\ U[10] = v /\ Z[10] = x
  BY DEF Rides
<1>1. Held(U[10], Z[10], high) \/ Gathers(U[10], Z[10] - Z[0], U[0], d)
  BY PushGathers, Zenon
<1>2. \/ Bounced(U[10], Z[10], Z[0], 10)
      \/ Gathers(-U[10], (-Z[10]) - (-Z[0]), -U[0], -d)
  BY PushLimits, Zenon
<1>3. QED
  BY <1>1, <1>2, Zenon

LEMMA RideDrifts ==
  ASSUME NEW v \in Int, NEW x \in Int, NEW u \in Int, NEW z \in Int, NEW low \in Int,
         NEW high \in Int, NEW d \in Int, Rides(v, x, u, z, low, high, d),
         d >= DriftDuty, d <= MaxDuty, ~NearStop(v, x, high, 10)
  PROVE  /\ Gathers(v, x - z, u, d)
         /\ Speedy(u, 0) => Gathers(-v, (-x) - (-z), -u, -d)
<1> PICK U, Z : Trace(U, Z, low, high, d) /\ U[0] = u /\ Z[0] = z /\ U[10] = v /\ Z[10] = x
  BY DEF Rides
<1>1. NearStop(U[10], Z[10], high, 10) \/ Gathers(U[10], Z[10] - Z[0], U[0], d)
  BY DriftGathers, Zenon
<1>2. Speedy(U[0], 0) => \/ NearStop(U[10], Z[10], high, 10)
                         \/ Gathers(-U[10], (-Z[10]) - (-Z[0]), -U[0], -d)
  BY DriftLimits, Zenon
<1>3. QED
  BY <1>1, <1>2, Zenon

LEMMA RideCloses ==
  ASSUME NEW v \in Int, NEW x \in Int, NEW u \in Int, NEW z \in Int, NEW low \in Int,
         NEW high \in Int, NEW d \in Int, Rides(v, x, u, z, low, high, d),
         d >= StallDuty, NearStop(u, z, high, 10)
  PROVE  Held(v, x, high)
<1> PICK U, Z : Trace(U, Z, low, high, d) /\ U[0] = u /\ Z[0] = z /\ U[10] = v /\ Z[10] = x
  BY DEF Rides
<1>1. Held(U[10], Z[10], high)
  BY CloseIsHeld, Zenon
<1>2. QED
  BY <1>1, Zenon

\* A cycle within a count leaves the axis calm.
LEMMA RideCalms ==
  ASSUME NEW v \in Int, NEW x \in Int, NEW u \in Int, NEW z \in Int, NEW low \in Int,
         NEW high \in Int, NEW d \in Int, Rides(v, x, u, z, low, high, d),
         -MaxDuty <= d, d <= MaxDuty, x - z <= Unit, z - x <= Unit
  PROVE  -Calm <= v /\ v <= Calm
<1>1. ASSUME NEW b \in Int, NEW y \in Int, NEW a \in Int, NEW p \in Int, NEW l \in Int,
             NEW h \in Int, NEW e \in Int, Rides(b, y, a, p, l, h, e), -MaxDuty <= e,
             y - p >= -Unit
      PROVE  b >= -Calm
  <2> PICK U, Z : Trace(U, Z, l, h, e) /\ U[0] = a /\ Z[0] = p /\ U[10] = b /\ Z[10] = y
    BY <1>1 DEF Rides
  <2>1. Z[10] - Z[0] >= -Unit
    BY <1>1, Zenon
  <2>2. U[10] >= -Calm
    BY <1>1, <2>1, CalmCycle, Zenon
  <2>3. QED
    BY <2>2, Zenon
<1>2. v >= -Calm
  <2>1. x - z >= -Unit
    BY SMT DEF Unit
  <2>2. QED
    BY <1>1, <2>1
<1>3. -v >= -Calm
  <2>1. (-x) - (-z) >= -Unit /\ -MaxDuty <= -d
    BY SMT DEF Unit, MaxDuty
  <2>2. Rides(-v, -x, -u, -z, -high, -low, -d)
    BY RidesMirror
  <2>3. -v \in Int /\ -x \in Int /\ -u \in Int /\ -z \in Int /\ -high \in Int /\ -low \in Int /\ -d \in Int
    OBVIOUS
  <2> HIDE DEF Rides
  <2>4. QED
    BY <1>1, <2>1, <2>2, <2>3
<1>4. QED
  BY <1>2, <1>3, SMT DEF Calm

----------------------------------------------------------------------------
\* At the stop behind it an axis does not move on into it.
LEMMA PushedStops ==
  ASSUME NEW v \in Int, NEW y \in Int, NEW u \in Int, NEW z \in Int, NEW low \in Int,
         NEW high \in Int, NEW d \in Int, low <= z, z <= high,
         Pushed(v, y, u, z, low, high, d), y <= low
  PROVE  v >= 0
<1> PICK w \in Int, r \in Int : Makes(w, r, v, y, u, z, low, high, d)
  BY PushedMakes, Zenon
<1>1. 1000 * r <= w + 500
  BY SMT DEF Makes
<1>2. y = Clamp(z + r, low, high)
  BY SMT DEF Makes
<1>3. /\ w < 0 /\ z + r <= low => v = 0
      /\ w >= 0 => v >= 0
  BY SMT DEF Makes
<1> PICK n \in Int : n = z + r
  OBVIOUS
<1>4. CASE w < 0
  <2>1. r <= 0
    BY <1>1, <1>4, SMT
  <2>2. n <= high
    BY <2>1, SMT
  <2>3. n <= low
    BY <1>2, <2>2, SMT DEF Clamp
  <2>4. QED
    BY <1>3, <1>4, <2>3
<1>5. QED
  BY <1>3, <1>4

LEMMA RideStops ==
  ASSUME NEW v \in Int, NEW x \in Int, NEW u \in Int, NEW z \in Int, NEW low \in Int,
         NEW high \in Int, NEW d \in Int, Rides(v, x, u, z, low, high, d), x = low
  PROVE  v >= 0
<1> PICK U, Z : Trace(U, Z, low, high, d) /\ U[0] = u /\ Z[0] = z /\ U[10] = v /\ Z[10] = x
  BY DEF Rides
<1>1. 9 \in 0 .. 9 /\ 9 + 1 = 10
  OBVIOUS
<1>2. /\ U[10] \in Int /\ Z[10] \in Int /\ U[9] \in Int /\ Z[9] \in Int
      /\ low <= Z[9] /\ Z[9] <= high
      /\ Pushed(U[10], Z[10], U[9], Z[9], low, high, d)
  <2>1. LET i == 9
        IN  /\ U[i + 1] \in Int /\ Z[i + 1] \in Int /\ U[i] \in Int /\ Z[i] \in Int
            /\ low <= Z[i] /\ Z[i] <= high
            /\ Pushed(U[i + 1], Z[i + 1], U[i], Z[i], low, high, d)
    BY <1>1, TraceStep, Zenon
  <2>2. QED
    BY <1>1, <2>1
<1>3. U[10] >= 0
  <2>1. Z[10] <= low
    BY <1>2
  <2>2. QED
    BY <1>2, <2>1, PushedStops, Zenon
<1>4. QED
  BY <1>3, Zenon

\* The least duty of a departure, and an axis that it has pushed off the stop.
DepartDuty == 6000

Left(v, y, low, high) == v >= 0 /\ (y > low \/ y = high)

LEMMA LeaveStep ==
  ASSUME NEW v \in Int, NEW y \in Int, NEW u \in Int, NEW z \in Int, NEW low \in Int,
         NEW high \in Int, NEW d \in Int, low <= z, z <= high, d >= DepartDuty, u >= 0,
         Pushed(v, y, u, z, low, high, d)
  PROVE  Left(v, y, low, high)
<1> PICK w \in Int, r \in Int : Makes(w, r, v, y, u, z, low, high, d)
  BY PushedMakes, Zenon
<1>1. w >= 1199 /\ 1000 * r >= w - 500
  BY SMT DEF Makes, DepartDuty
<1>2. r >= 1
  BY <1>1, SMT
<1>3. QED
  BY <1>1, <1>2, SMT DEF Makes, Clamp, Left

LEMMA RideLeaves ==
  ASSUME NEW v \in Int, NEW x \in Int, NEW u \in Int, NEW z \in Int, NEW low \in Int,
         NEW high \in Int, NEW d \in Int, Rides(v, x, u, z, low, high, d),
         u >= 0, d >= DepartDuty
  PROVE  x > low \/ x = high
<1> PICK U, Z : Trace(U, Z, low, high, d) /\ U[0] = u /\ Z[0] = z /\ U[10] = v /\ Z[10] = x
  BY DEF Rides
<1> DEFINE Good(i) == U[i] >= 0 /\ (i > 0 => Left(U[i], Z[i], low, high))
           S == {i \in 0 .. 10 : Good(i)}
<1>1. 0 \in S
  <2>1. 0 \in 0 .. 10 /\ ~(0 > 0)
    OBVIOUS
  <2>2. U[0] >= 0
    BY Zenon
  <2>3. QED
    BY <2>1, <2>2, Zenon
<1>2. ASSUME NEW i \in 0 .. 9, i \in S
      PROVE  i + 1 \in S
  <2>1. /\ U[i + 1] \in Int /\ Z[i + 1] \in Int /\ U[i] \in Int /\ Z[i] \in Int
        /\ low <= Z[i] /\ Z[i] <= high /\ low <= high
        /\ Pushed(U[i + 1], Z[i + 1], U[i], Z[i], low, high, d)
    BY TraceStep, Zenon
  <2>2. U[i] >= 0
    BY <1>2
  <2>3. Left(U[i + 1], Z[i + 1], low, high)
    BY <2>1, <2>2, LeaveStep, Zenon
  <2>4. U[i + 1] >= 0
    BY <2>3, Zenon DEF Left
  <2>5. i + 1 \in 0 .. 10
    OBVIOUS
  <2> HIDE DEF S
  <2>6. QED
    BY <2>3, <2>4, <2>5, Zenon DEF S
<1> HIDE DEF S
<1>3. 10 \in S
  <2>1. \A i \in 0 .. 10 : i \in S
    BY <1>1, <1>2, UpToTen, Zenon
  <2>2. 10 \in 0 .. 10
    OBVIOUS
  <2>3. QED
    BY <2>1, <2>2, Zenon
<1>4. Left(U[10], Z[10], low, high)
  <2>1. 10 > 0
    OBVIOUS
  <2>2. QED
    BY <1>3, <2>1, Zenon DEF S
<1>5. QED
  BY <1>4, Zenon DEF Left

----------------------------------------------------------------------------
(***************************************************************************)
(* The ladder.  A look that finds the axis without movement under a duty   *)
(* that qualifies is followed, two cycles later, by one that finds it      *)
(* faster or further on; twenty-five of them cannot follow each other.     *)
(***************************************************************************)
\* What the looks in a row find at least: speeds in counts per second, and places
\* between two counts in hundredths of one.
Speeds == <<-115, -95, -77, -60, -44, -30, -17, -5, 3, 11, 18,
            25, 31, 37, 42, 47, 51, 55, 59, 62, 65>>

Places == <<-50, -50, -50, -50, -50, -50, -50, -50, -50, -50, -50,
            -50, -50, -50, -50, -50, -50, -42, -27, -4, 25>>

Hundredth == 1000

Climbs(j, u, y) == j <= 20 /\ u >= Unit * Speeds[j + 1] /\ y >= Hundredth * Places[j + 1]

\* An axis that has passed two counts between its looks: it can only do so again,
\* and each time has less duty.
Doomed(j, u, y, d) ==
  /\ u >= 9000000 /\ y >= 40000 /\ d <= 362850
  /\ j >= 22 => d <= 351100
  /\ j >= 23 => d <= 339350
  /\ j >= 24 => Short(u, d)

Rises(s, t, p, q) ==
  /\ s \in Int /\ t \in Int /\ p \in Int /\ q \in Int
  /\ 1000 * t <= 923 * s + 11500
  /\ 1000 * t <= 923 * s + 8450 \/ t <= 2
  /\ q <= -50 \/ 1000 * q <= 1000 * p + 1918 * s - 89500

LEMMA TableRises ==
  ASSUME NEW j \in 0 .. 19
  PROVE  Rises(Speeds[j + 1], Speeds[j + 2], Places[j + 1], Places[j + 2])
<1>1. \/ j = 0 \/ j = 1 \/ j = 2 \/ j = 3 \/ j = 4 \/ j = 5 \/ j = 6 \/ j = 7 \/ j = 8 \/ j = 9
      \/ j = 10 \/ j = 11 \/ j = 12 \/ j = 13 \/ j = 14 \/ j = 15 \/ j = 16 \/ j = 17 \/ j = 18
      \/ j = 19
  OBVIOUS
<1>2. QED
  BY <1>1, SMT DEF Rises, Speeds, Places

LEMMA TableEnds ==
  /\ Speeds[1] = -115 /\ Places[1] = -50 /\ Speeds[21] = 65 /\ Places[21] = 25
  /\ \A j \in 0 .. 20 : Speeds[j + 1] \in Int /\ Places[j + 1] \in Int
BY SMT DEF Speeds, Places

\* Without a brake, two counts are too far for an axis that the next look finds
\* without movement.
LEMMA TwoNeedBrake ==
  ASSUME NEW v \in Int, NEW z \in Int, NEW u \in Int, NEW y \in Int, NEW w \in Int, NEW x \in Int,
         Leads(v, z, 2, u, y, StallDuty), Follow(w, x, v, z, 2, StallDuty, StallDuty)
  PROVE  FALSE
BY SMTT(30) DEF Leads, Follow, Phase, Calm, StallDuty, MaxDuty, Unit, Gathers, Bounced

\* What two counts between two looks cost, at the end of the second cycle and in
\* the duty of the next look.
Costs(w, x, v, z, d, e, f) ==
  /\ Speedy(v, 0) => Gathers(-w, -(x - z), -v, -e)
  /\ d <= 374600 => e <= d - 311870 /\ f <= d - 11750

LEMMA DoomedOn ==
  ASSUME NEW v \in Int, NEW z \in Int, NEW u \in Int, NEW y \in Int, NEW d \in Int,
         NEW w \in Int, NEW x \in Int, NEW e \in Int, NEW f \in Int, NEW j \in 0 .. 24,
         Leads(v, z, 2, u, y, d), Follow(w, x, v, z, 2, d, e), Costs(w, x, v, z, d, e, f),
         Doomed(j, u, y, d) \/ j <= 20
  PROVE  j <= 23 /\ Doomed(j + 1, w, x, f)
<1>1. Speedy(v, 0) /\ w >= 9000000 /\ x >= 40000 /\ d <= 374600
  BY TwoNeedSpeed, SMT
<1>2. /\ Gathers(-w, -(x - z), -v, -e)
      /\ e <= d - 311870 /\ f <= d - 11750 /\ f <= 362850
  BY <1>1, SMT DEF Costs
<1>3. j <= 23
  <2> SUFFICES ASSUME j = 24 PROVE FALSE
    BY SMT
  <2>1. Short(u, d)
    BY SMT DEF Doomed
  <2>2. QED
    BY <2>1, ShortIsNotTwo, SMT
<1>4. j + 1 >= 22 => f <= 351100
  BY <1>2, SMT DEF Doomed
<1>5. j + 1 >= 23 => f <= 339350
  BY <1>2, SMT DEF Doomed
<1>6. j + 1 >= 24 => Short(w, f)
  <2> SUFFICES ASSUME j >= 23 PROVE Short(w, f)
    BY SMT
  <2>1. d <= 340000
    BY SMT DEF Doomed
  <2>2. QED
    BY <1>2, <2>1, TwoTireOut, SMT
<1>7. QED
  BY <1>1, <1>2, <1>3, <1>4, <1>5, <1>6, SMT DEF Doomed

LEMMA ClimbsOn ==
  ASSUME NEW u \in Int, NEW y \in Int, NEW w \in Int, NEW x \in Int, NEW j \in 0 .. 19,
         Climbs(j, u, y), Phase(x), Gained(w, x, u, y)
  PROVE  Climbs(j + 1, w, x)
<1> PICK s, t, p, q : s = Speeds[j + 1] /\ t = Speeds[j + 2] /\ p = Places[j + 1] /\ q = Places[j + 2]
  OBVIOUS
<1>1. Rises(s, t, p, q)
  BY TableRises, Zenon
<1>2. s \in Int /\ t \in Int /\ p \in Int /\ q \in Int
  BY <1>1, SMT DEF Rises
<1>3. u >= Unit * s /\ y >= Hundredth * p
  BY Zenon DEF Climbs
<1>4. w >= Unit * t
  BY <1>1, <1>2, <1>3, SMT DEF Rises, Gained, Unit, Hundredth
<1>5. x >= Hundredth * q
  BY <1>1, <1>2, <1>3, SMT DEF Rises, Gained, Unit, Phase, Hundredth
<1>6. j + 1 <= 20 /\ (j + 1) + 1 = j + 2
  BY SMT
<1>7. QED
  BY <1>4, <1>5, <1>6, Zenon DEF Climbs

\* From one look to the next.
LEMMA NextRung ==
  ASSUME NEW v \in Int, NEW z \in Int, NEW k \in Int, NEW u \in Int, NEW y \in Int, NEW d \in Int,
         NEW w \in Int, NEW x \in Int, NEW e \in Int, NEW f \in Int, NEW j \in 0 .. 24,
         Doomed(j, u, y, d) \/ Climbs(j, u, y),
         Leads(v, z, k, u, y, d), Follow(w, x, v, z, k, d, e),
         k = 2 => Costs(w, x, v, z, d, e, f)
  PROVE  j <= 23 /\ (Doomed(j + 1, w, x, f) \/ Climbs(j + 1, w, x))
<1>1. k <= 2
  BY AtMostTwo, Zenon
<1>2. CASE k = 2
  <2>1. Leads(v, z, 2, u, y, d) /\ Follow(w, x, v, z, 2, d, e) /\ Costs(w, x, v, z, d, e, f)
    BY <1>2
  <2>2. Doomed(j, u, y, d) \/ j <= 20
    BY DEF Climbs
  <2>3. QED
    BY <2>1, <2>2, DoomedOn
<1>3. CASE k <= 1
  <2>1. Gained(w, x, u, y)
    BY <1>3, PairGains, SMT
  <2>2. Phase(x)
    BY DEF Follow
  <2>3. ~Doomed(j, u, y, d)
    BY <2>1, <2>2, SMT DEF Doomed, Phase, Gained
  <2>4. Climbs(j, u, y)
    BY <2>3
  <2>5. j # 20
    <3> SUFFICES ASSUME j = 20 PROVE FALSE
      OBVIOUS
    <3>1. u >= Unit * Speeds[21] /\ y >= Hundredth * Places[21]
      BY <2>4 DEF Climbs
    <3>2. u >= Unit * 65 /\ y >= Hundredth * 25
      BY <3>1, TableEnds, Zenon
    <3>3. QED
      BY <2>1, <2>2, <3>2, SMT DEF Phase, Gained, Unit, Hundredth
  <2>6. j \in 0 .. 19
    BY <2>4, <2>5, SMT DEF Climbs
  <2>7. Climbs(j + 1, w, x)
    BY <2>1, <2>2, <2>4, <2>6, ClimbsOn, Zenon
  <2>8. QED
    BY <2>6, <2>7, SMT
<1>4. QED
  BY <1>1, <1>2, <1>3, SMT

----------------------------------------------------------------------------
\* How far the derivative takes the duty down when the count has moved on by k.
Meets(e, k, d) ==
  /\ e <= MaxDuty
  /\ k <= 0 => e >= StallDuty
  /\ k = 1 => e >= d - 156000
  /\ k = 2 => e >= d - 312000

\* The duty of a move at an error and an integral, without movement and with one of k,
\* and what it needs after that.
Stands(d, error, i) == d = Clamp(6000 * error + i, -MaxDuty, MaxDuty)

Brakes(e, error, j, k) == e = Clamp(6000 * error + j - 150000 * k, -MaxDuty, MaxDuty)

Winds(j, i, error) == j = Clamp(i + 2 * error, -MaxIntegral, MaxIntegral)

Wants(error, j) == 6000 * error + j + 2 * error

\* After two counts the error, too, asks for less.
Spent(e, g, d) == d <= 374600 => e <= d - 311870 /\ g <= d - 11750

LEMMA Braking ==
  ASSUME NEW d \in Int, NEW e \in Int, NEW k \in Int, NEW error \in Int, NEW i \in Int,
         NEW j \in Int, -MaxIntegral <= i, i <= MaxIntegral, d >= StallDuty,
         k <= 2, Stands(d, error + k, i), Winds(j, i, error),
         Brakes(e, error, j, k)
  PROVE  error >= 48 /\ Meets(e, k, d) /\ (k = 2 => Spent(e, Wants(error, j), d))
<1> PICK g : g = Wants(error, j)
  OBVIOUS
<1>0. /\ d = Clamp(6000 * (error + k) + i, -MaxDuty, MaxDuty)
      /\ e = Clamp(6000 * error + j - 150000 * k, -MaxDuty, MaxDuty)
      /\ j = Clamp(i + 2 * error, -MaxIntegral, MaxIntegral)
      /\ g = 6000 * error + j + 2 * error
  BY SMT DEF Stands, Brakes, Winds, Wants
<1>1. error + k >= 50
  BY <1>0, SMT DEF Clamp, MaxDuty, StallDuty, MaxIntegral
<1>2. j >= i /\ j <= i + 2 * error /\ j <= MaxIntegral
  BY <1>0, <1>1, SMT DEF Clamp, MaxIntegral
<1>3. d <= 6000 * (error + k) + i /\ d <= MaxDuty
  BY <1>0, SMT DEF Clamp, MaxDuty, StallDuty
<1>4. e <= MaxDuty
  BY <1>0, SMT DEF Clamp, MaxDuty
<1>5. k <= 0 => e >= StallDuty
  BY <1>0, <1>2, <1>3, SMT DEF Clamp, MaxDuty, StallDuty
<1>6. k = 1 => e >= d - 156000
  BY <1>0, <1>2, <1>3, SMT DEF Clamp, MaxDuty, StallDuty
<1>7. k = 2 => e >= d - 312000
  BY <1>0, <1>2, <1>3, SMT DEF Clamp, MaxDuty, StallDuty
<1>8. ASSUME k = 2, d <= 374600
      PROVE  e <= d - 311870 /\ g <= d - 11750
  <2>1. d = 6000 * (error + 2) + i
    BY <1>0, <1>8, SMT DEF Clamp, MaxDuty, StallDuty
  <2>2. error <= 61
    BY <1>8, <2>1, SMT DEF MaxIntegral
  <2>3. e <= 6000 * error + j - 300000
    BY <1>0, <1>1, <1>2, <1>8, <2>2, SMT DEF Clamp, MaxDuty, MaxIntegral
  <2>4. QED
    BY <1>0, <1>2, <2>1, <2>2, <2>3, SMT
<1>9. QED
  BY <1>1, <1>4, <1>5, <1>6, <1>7, <1>8, SMT DEF Meets, Spent

----------------------------------------------------------------------------
(***************************************************************************)
(* The two cycles between a look and the next.                             *)
(***************************************************************************)
\* What the looks in a row have found.
Rung(j, u, y, d) == Doomed(j, u, y, d) \/ Climbs(j, u, y)

\* Between two looks, k counts on from the one that found rung j; g bounds the duty
\* of the next one.
Between(j, v, z, k, e, g) ==
  \E u \in Int, y \in Int, d \in Int :
    /\ Rung(j, u, y, d) /\ Leads(v, z, k, u, y, d) /\ Meets(e, k, d)
    /\ (d = StallDuty /\ e = StallDuty) \/ (k = 2 => Spent(e, g, d))

\* A place is a count and what the count leaves out.
Placed(p, y, n) == p = y + Unit * n

LEMMA LookLeads ==
  ASSUME NEW v \in Int, NEW q \in Int, NEW u \in Int, NEW p \in Int, NEW low \in Int,
         NEW high \in Int, NEW d \in Int, Rides(v, q, u, p, low, high, d),
         NEW n \in Int, NEW k \in Int, NEW y \in Int, NEW z \in Int,
         Placed(p, y, n), Placed(q, z, n + k), Phase(y), Phase(z),
         -Calm <= u, u <= Calm, StallDuty <= d, d <= MaxDuty
  PROVE  Held(v, q, high) \/ Leads(v, z, k, u, y, d)
<1>1. /\ Held(v, q, high) \/ Gathers(v, q - p, u, d)
      /\ Bounced(v, q, p, 10) \/ Gathers(-v, (-q) - (-p), -u, -d)
  BY RideGathers, Zenon
<1> PICK t \in Int : t = (z + Unit * k) - y
  BY SMT DEF Unit
<1>2. q - p = t /\ (-q) - (-p) = -t
  BY SMT DEF Placed, Unit
<1>3. Bounced(v, q, p, 10) => Bounced(v, t, 0, 10)
  BY <1>2, SMT DEF Bounced
<1>4. /\ Held(v, q, high) \/ Gathers(v, t, u, d)
      /\ Bounced(v, t, 0, 10) \/ Gathers(-v, -t, -u, -d)
  BY <1>1, <1>2, <1>3, Zenon
<1>5. QED
  BY <1>4, Zenon DEF Leads

LEMMA LookFollows ==
  ASSUME NEW j \in 0 .. 24, NEW v \in Int, NEW z \in Int, NEW k \in Int, NEW e \in Int,
         NEW g \in Int, Between(j, v, z, k, e, g),
         NEW w \in Int, NEW r \in Int, NEW q \in Int, NEW low \in Int, NEW high \in Int,
         Rides(w, r, v, q, low, high, e), NEW n \in Int, NEW x \in Int,
         Placed(q, z, n), Placed(r, x, n), Phase(x), NEW f \in Int, f <= g
  PROVE  NearStop(w, r, high, 10) \/ (j <= 23 /\ Rung(j + 1, w, x, f))
<1> PICK u \in Int, y \in Int, d \in Int :
      /\ Rung(j, u, y, d) /\ Leads(v, z, k, u, y, d) /\ Meets(e, k, d)
      /\ (d = StallDuty /\ e = StallDuty) \/ (k = 2 => Spent(e, g, d))
  BY DEF Between
<1> SUFFICES ASSUME ~NearStop(w, r, high, 10)
             PROVE  j <= 23 /\ Rung(j + 1, w, x, f)
  BY Zenon
<1>1. k <= 2 /\ d >= StallDuty
  <2>1. k <= 2
    BY AtMostTwo, Zenon
  <2>2. QED
    BY <2>1 DEF Leads
<1>2. e >= DriftDuty /\ e <= MaxDuty
  BY <1>1, SMT DEF Meets, DriftDuty, StallDuty
<1>3. /\ Gathers(w, r - q, v, e)
      /\ Speedy(v, 0) => Gathers(-w, (-r) - (-q), -v, -e)
  BY <1>2, RideDrifts, Zenon
<1>4. r - q = x - z /\ (-r) - (-q) = -(x - z)
  BY SMT DEF Placed, Unit
<1>5. /\ Gathers(w, x - z, v, e)
      /\ Speedy(v, 0) => Gathers(-w, -(x - z), -v, -e)
  BY <1>3, <1>4, Zenon
<1>6. Follow(w, x, v, z, k, d, e)
  BY <1>5, SMT DEF Follow, Meets
<1>7. ASSUME k = 2
      PROVE  Costs(w, x, v, z, d, e, f)
  <2>1. ~(d = StallDuty /\ e = StallDuty)
    <3> SUFFICES ASSUME d = StallDuty, e = StallDuty PROVE FALSE
      OBVIOUS
    <3>1. Leads(v, z, 2, u, y, StallDuty) /\ Follow(w, x, v, z, 2, StallDuty, StallDuty)
      BY <1>6, <1>7, Zenon
    <3>2. QED
      BY <3>1, TwoNeedBrake, Zenon
  <2>2. Spent(e, g, d)
    BY <1>7, <2>1, Zenon
  <2>3. d <= 374600 => e <= d - 311870 /\ f <= d - 11750
    BY <2>2, SMT DEF Spent
  <2>4. QED
    BY <1>5, <2>3, SMT DEF Costs
<1>8. j <= 23 /\ (Doomed(j + 1, w, x, f) \/ Climbs(j + 1, w, x))
  <2>1. Doomed(j, u, y, d) \/ Climbs(j, u, y)
    BY DEF Rung
  <2>2. QED
    BY <1>6, <1>7, <2>1, NextRung, Zenon
<1>9. QED
  BY <1>8 DEF Rung

----------------------------------------------------------------------------
(***************************************************************************)
(* A cycle of the plant, and what the count says of it.                    *)
(***************************************************************************)
LEMMA CycleRides ==
  ASSUME broken # "STALLED", NEW p, Confined(p), NEW duty \in Int, -MaxDuty <= duty,
         duty <= MaxDuty
  PROVE  LET q == PlantSteps(p, duty, StepsPerCycle)
         IN  /\ Rides(q.velocity, q.position, p.velocity, p.position, p.min, p.max, duty)
             /\ Confined(q) /\ SameTravel(q, p)
<1>1. PICK after : /\ Stepped(after, p, duty, 10)
                   /\ PlantSteps(p, duty, 10) = after[10]
  <2>1. 10 \in Nat
    OBVIOUS
  <2>2. QED
    BY <2>1, StepsAre, Zenon
<1>2. after = [i \in 0 .. 10 |-> IF i = 0 THEN p ELSE PlantStep(after[i - 1], duty)]
  BY <1>1, Zenon DEF Stepped
<1>3. after[0] = p /\ \A i \in 0 .. 9 : after[i + 1] = PlantStep(after[i], duty)
  <2>1. 0 \in 0 .. 10
    OBVIOUS
  <2>2. after[0] = p
    BY <1>2, <2>1
  <2>3. ASSUME NEW i \in 0 .. 9
        PROVE  after[i + 1] = PlantStep(after[i], duty)
    <3>1. i + 1 \in 0 .. 10 /\ i + 1 # 0 /\ (i + 1) - 1 = i
      OBVIOUS
    <3>2. QED
      BY <1>2, <3>1
  <2>4. QED
    BY <2>2, <2>3
<1> DEFINE Good(q) == Confined(q) /\ SameTravel(q, p)
           S == {i \in 0 .. 10 : Good(after[i])}
<1>4. \A i \in 0 .. 10 : Good(after[i])
  <2>1. 0 \in S
    <3>1. 0 \in 0 .. 10 /\ Good(p)
      BY DEF SameTravel
    <3>2. QED
      BY <1>3, <3>1
  <2>2. ASSUME NEW i \in 0 .. 9, i \in S
        PROVE  i + 1 \in S
    <3>1. i + 1 \in 0 .. 10 /\ Good(after[i]) /\ after[i + 1] = PlantStep(after[i], duty)
      BY <1>3, <2>2
    <3>2. Confined(PlantStep(after[i], duty)) /\ SameTravel(PlantStep(after[i], duty), after[i])
      BY <3>1, PlantStepConfined, Zenon
    <3>3. Good(after[i + 1])
      BY <3>1, <3>2 DEF SameTravel
    <3>4. QED
      BY <3>1, <3>3
  <2> HIDE DEF Good, S
  <2>3. \A i \in 0 .. 10 : i \in S
    BY <2>1, <2>2, UpToTen, Zenon
  <2>4. QED
    BY <2>3, Zenon DEF S
<1> DEFINE U == [i \in 0 .. 10 |-> after[i].velocity]
           Z == [i \in 0 .. 10 |-> after[i].position]
<1> HIDE DEF Good
<1>5. ASSUME NEW i \in 0 .. 10
      PROVE  /\ U[i] = after[i].velocity /\ Z[i] = after[i].position
             /\ U[i] \in Int /\ Z[i] \in Int
             /\ p.min <= Z[i] /\ Z[i] <= p.max /\ -MaxVelocity <= U[i] /\ U[i] <= MaxVelocity
  <2>1. U[i] = after[i].velocity /\ Z[i] = after[i].position
    OBVIOUS
  <2>2. Confined(after[i]) /\ after[i].min = p.min /\ after[i].max = p.max
    BY <1>4, <1>5, Zenon DEF Good, SameTravel
  <2> HIDE DEF U, Z
  <2>3. /\ after[i].position \in Int /\ after[i].velocity \in Int
        /\ after[i].min <= after[i].position /\ after[i].position <= after[i].max
        /\ -MaxVelocity <= after[i].velocity /\ after[i].velocity <= MaxVelocity
    BY <2>2, PlantNumbers, Zenon
  <2>4. QED
    BY <2>1, <2>2, <2>3, Zenon
<1>6. ASSUME NEW i \in 0 .. 9
      PROVE  Pushed(U[i + 1], Z[i + 1], U[i], Z[i], p.min, p.max, duty)
  <2>1. i \in 0 .. 10 /\ i + 1 \in 0 .. 10
    OBVIOUS
  <2>2. /\ Confined(after[i]) /\ after[i].min = p.min /\ after[i].max = p.max
        /\ Confined(after[i + 1])
    BY <1>4, <2>1, Zenon DEF Good, SameTravel
  <2>3. Travels(after[i + 1], after[i], duty)
    <3>1. Travels(PlantStep(after[i], duty), after[i], duty)
      BY <2>2, StepArrives, Zenon
    <3>2. after[i + 1] = PlantStep(after[i], duty)
      BY <1>3
    <3>3. QED
      BY <3>1, <3>2, Zenon
  <2>4. Pushed(after[i + 1].velocity, after[i + 1].position, after[i].velocity,
               after[i].position, after[i].min, after[i].max, duty)
    BY <2>2, <2>3, TravelsPushed, Zenon
  <2>5. /\ U[i] = after[i].velocity /\ Z[i] = after[i].position
        /\ U[i + 1] = after[i + 1].velocity /\ Z[i + 1] = after[i + 1].position
    BY <1>5, <2>1, Zenon
  <2> HIDE DEF U, Z
  <2>6. QED
    BY <2>2, <2>4, <2>5, Zenon
<1>7. U \in [0 .. 10 -> Int] /\ Z \in [0 .. 10 -> Int]
  <2>1. \A i \in 0 .. 10 : after[i].velocity \in Int /\ after[i].position \in Int
    BY <1>5
  <2>2. QED
    BY <2>1
<1> HIDE DEF U, Z
<1>8. Trace(U, Z, p.min, p.max, duty)
  BY <1>5, <1>6, <1>7, Zenon DEF Trace
<1>9. 0 \in 0 .. 10 /\ 10 \in 0 .. 10
  OBVIOUS
<1>10. /\ U[0] = p.velocity /\ Z[0] = p.position
       /\ U[10] = after[10].velocity /\ Z[10] = after[10].position
  BY <1>3, <1>5, <1>9, Zenon
<1>11. Rides(after[10].velocity, after[10].position, p.velocity, p.position, p.min, p.max, duty)
  BY <1>8, <1>10, Zenon DEF Rides
<1>12. Confined(after[10]) /\ SameTravel(after[10], p)
  BY <1>4, <1>9, Zenon DEF Good
<1>13. StepsPerCycle = 10
  BY DEF StepsPerCycle
<1>14. QED
  BY <1>1, <1>11, <1>12, <1>13, Zenon

\* What a count leaves out.
Part(p) == p.position - Unit * TrueCount(p)

LEMMA PartIsPhase ==
  ASSUME NEW p, Confined(p)
  PROVE  /\ TrueCount(p) \in Int /\ Part(p) \in Int /\ Phase(Part(p))
         /\ p.position = Part(p) + Unit * TrueCount(p)
<1> PICK n : n = p.position
  OBVIOUS
<1>1. n \in Int
  BY PlantNumbers, Zenon
<1> PICK c : c = TrueCount(p)
  OBVIOUS
<1>2. c = Round(n, Unit)
  BY DEF TrueCount
<1>3. c \in Int /\ -50000 <= n - Unit * c /\ n - Unit * c <= 50000
  <2>1. CASE n >= 0
    <3>1. c = (2 * n + 100000) \div 200000
      BY <1>1, <1>2, <2>1, SMT DEF Round, Unit
    <3>2. QED
      BY <1>1, <3>1, SMT DEF Unit
  <2>2. CASE ~(n >= 0)
    <3>1. c = -((2 * (-n) + 100000) \div 200000)
      BY <1>1, <1>2, <2>2, SMT DEF Round, Unit
    <3>2. QED
      BY <1>1, <3>1, SMT DEF Unit
  <2>3. QED
    BY <2>1, <2>2
<1>4. Part(p) = n - Unit * c
  BY DEF Part
<1>5. Unit * c \in Int
  BY <1>3, SMT DEF Unit
<1>6. QED
  BY <1>1, <1>3, <1>4, <1>5, SMT DEF Phase

\* A register with room for the count, under a reference at c.
LEMMA CountIs ==
  ASSUME NEW t \in Int, NEW c \in Int, -(Word \div 2) < t + c, t + c < Word \div 2,
         NEW a, a.register = t % Word, a.offset = c % Word
  PROVE  GetCount(a) = t + c
<1>1. Word \in Nat \ {0}
  BY AxisAssumption
<1> PICK r : r = c % Word
  OBVIOUS
<1>2. r \in Int
  BY <1>1, ModRange
<1>3. ((t % Word) + r) % Word = (t + r) % Word
  BY <1>1, <1>2, RemainderInSum
<1>4. ((c % Word) + t) % Word = (c + t) % Word
  BY <1>1, RemainderInSum
<1>5. t + r = (c % Word) + t /\ c + t = t + c
  BY <1>2
<1>6. ((t % Word) + r) % Word = (t + c) % Word
  BY <1>3, <1>4, <1>5
<1> PICK n \in Int : n = t + c
  OBVIOUS
<1>7. Signed(n % Word) = n
  BY SignedRemainder
<1>8. QED
  BY <1>6, <1>7 DEF GetCount

----------------------------------------------------------------------------
(***************************************************************************)
(* A cycle of an axis that works.                                          *)
(***************************************************************************)
\* The count of the place 0, and no count of the travel that runs over.
Rooms(a) ==
  \E c \in Int : a.offset = c % Word /\ -(Word \div 2) < Low + c /\ High + c < Word \div 2

\* What the other invariants say of an axis that works.
Working(a) ==
  /\ Sound(a) /\ Confined(a.plant) /\ Settled(a) /\ Guarded(a) /\ Rooms(a)
  /\ a.duty \in -MaxDuty .. MaxDuty
  /\ broken = "NONE" /\ a.register = TrueCount(a.plant) % Word
  /\ Low \in Int /\ High \in Int /\ High - Low < Word \div 2
  /\ a.plant.min = Low * Unit /\ a.plant.max = High * Unit
  /\ a.sampled => a.previous = GetCount(a)

LEMMA AxisWorks ==
  ASSUME AxisInv, StuckInv, TravelInv, ~OnBench, broken = "NONE", Rooms(axis)
  PROVE  Working(axis)
<1>1. /\ Sound(axis) /\ Confined(axis.plant) /\ Settled(axis) /\ Guarded(axis)
      /\ axis.register = TrueCount(axis.plant) % Word
      /\ axis.plant.min = Low * Unit /\ axis.plant.max = High * Unit
      /\ axis.sampled => axis.previous = GetCount(axis)
      /\ scenario \in DOMAIN Scenarios
  BY DEF AxisInv, OnTravel, StuckInv, TravelInv, Measured
<1>2. axis.duty \in -MaxDuty .. MaxDuty
  BY DEF AxisInv, InCharge
<1>3. Low \in Int /\ High \in Int /\ High - Low < Word \div 2
  BY <1>1, ScenarioFacts
<1>4. QED
  BY <1>1, <1>2, <1>3 DEF Working

\* The stages of a cycle, and what becomes of the latch in them.
Stages(b, e, f, a, next) ==
  /\ b = CycleOf(a, next) /\ e = Sensed(a) /\ f = MotionCommand(e, next) /\ b = ControlUpdate(f)
  /\ Sound(e) /\ Watched(e) /\ Supervises(e, a)
  /\ Sound(f) /\ Watched(f) /\ f.plant = e.plant /\ b.plant = e.plant
  /\ f.state = "HOMING" /\ f.homeContact => AtMin(f.plant)
  /\ f.fault = "NONE" => e.fault = "NONE" /\ Commanded(f, e, next)
  /\ e.fault = "NONE" => a.fault = "NONE" /\ e.state = a.state
                         /\ (e.homeContact => a.homeContact)
  /\ f.fault = "NO_MOTION" => e.fault = "NO_MOTION"

LEMMA CyclePasses ==
  ASSUME NEW a, Working(a), NEW next, Understood(next)
  PROVE  \E b, e, f : Stages(b, e, f, a, next)
<1> DEFINE b == CycleOf(a, next)
<1>0. Sound(a) /\ Confined(a.plant) /\ Watched(a) /\ Guarded(a)
  BY DEF Working, Settled
<1>1. PICK e, f : /\ e = Sensed(a) /\ f = MotionCommand(e, next)
                  /\ b = ControlUpdate(f)
                  /\ Sound(e) /\ Watched(e) /\ Supervises(e, a)
                  /\ Sound(f) /\ Watched(f) /\ f.plant = e.plant /\ b.plant = e.plant
  BY <1>0, CycleStages, Zenon
<1> HIDE DEF b
<1>2. /\ f.fault = e.fault
           \/ (e.fault = "NONE" /\ f.fault \in {"POSITIVE_LIMIT", "NEGATIVE_LIMIT"})
      /\ f.fault = "NONE" => Commanded(f, e, next)
  BY <1>1, MotionCommandJudges
<1>3. e.fault = "NONE" => /\ e.state = a.state /\ a.fault = "NONE"
                          /\ e.homeContact => a.homeContact
  <2>1. e.fault = "NONE" => e.state = a.state
    BY <1>0, <1>1, SensedWatches
  <2>2. QED
    BY <1>1, <2>1 DEF Supervises, Verdicts
<1>4. f.fault = "NONE" => e.fault = "NONE"
  BY <1>2
<1>5. ASSUME f.state = "HOMING", f.homeContact
      PROVE  AtMin(f.plant)
  <2>1. f.fault = "NONE"
    BY <1>1, <1>5 DEF Watched, Clear
  <2>2. e.fault = "NONE" /\ Commanded(f, e, next)
    BY <1>2, <1>4, <2>1
  <2>3. CASE f = e
    BY <1>0, <1>3, <1>5, <2>2, <2>3 DEF Guarded
  <2>4. CASE Seeks(f, e, next)
    BY <1>1, <1>5, <2>4 DEF Seeks
  <2>5. QED
    BY <1>5, <2>2, <2>3, <2>4 DEF Commanded, Starts, Stops
<1>6. f.fault = "NO_MOTION" => e.fault = "NO_MOTION"
  BY <1>2
<1>7. QED
  <2>1. b = CycleOf(a, next)
    BY DEF b
  <2>2. Stages(b, e, f, a, next)
    BY <1>1, <1>2, <1>3, <1>4, <1>5, <1>6, <2>1, Zenon DEF Stages
  <2>3. QED
    BY <2>2, Zenon

\* The plant of a cycle is a ride.
LEMMA WorkRides ==
  ASSUME NEW a, Working(a), NEW next, Understood(next)
  PROVE  LET p == a.plant
             q == CycleOf(a, next).plant
         IN  /\ Rides(q.velocity, q.position, p.velocity, p.position, p.min, p.max, a.duty)
             /\ Confined(q) /\ SameTravel(q, p)
<1>1. Sound(a) /\ Confined(a.plant) /\ a.duty \in -MaxDuty .. MaxDuty /\ broken # "STALLED"
  BY DEF Working
<1>2. a.duty \in Int /\ -MaxDuty <= a.duty /\ a.duty <= MaxDuty
  BY <1>1, Ranges
<1>3. CycleOf(a, next).plant = PlantSteps(a.plant, a.duty, StepsPerCycle)
  BY <1>1, CyclePlant, Zenon
<1>4. QED
  BY <1>1, <1>2, <1>3, CycleRides, Zenon

\* A working axis is at the home stop only at rest or on its way off.
LEMMA WorkStops ==
  ASSUME NEW a, Working(a), NEW next, Understood(next), AtMin(CycleOf(a, next).plant)
  PROVE  CycleOf(a, next).plant.velocity >= 0
<1> PICK p, q : p = a.plant /\ q = CycleOf(a, next).plant
  OBVIOUS
<1>1. /\ Rides(q.velocity, q.position, p.velocity, p.position, p.min, p.max, a.duty)
      /\ Confined(p) /\ Confined(q) /\ SameTravel(q, p) /\ a.duty \in Int
  <2>1. a.duty \in Int
    BY Ranges DEF Working
  <2>2. Confined(p)
    BY DEF Working
  <2>3. QED
    BY <2>1, <2>2, WorkRides, Zenon
<1>2. /\ q.velocity \in Int /\ q.position \in Int /\ p.velocity \in Int /\ p.position \in Int
      /\ p.min \in Int /\ p.max \in Int /\ q.min <= q.position
  BY <1>1, PlantNumbers, Zenon
<1>3. q.position = p.min
  <2>1. q.position <= q.min /\ q.min = p.min
    BY <1>1 DEF AtMin, SameTravel
  <2>2. QED
    BY <1>2, <2>1
<1>4. q.velocity >= 0
  BY <1>1, <1>2, <1>3, RideStops, Zenon
<1>5. QED
  BY <1>4

\* A departure that pushes leaves the switch.
LEMMA WorkLeaves ==
  ASSUME NEW a, Working(a), NEW next, Understood(next), AtMin(a.plant),
         a.plant.velocity >= 0, a.duty >= DepartDuty, AtMin(CycleOf(a, next).plant)
  PROVE  AtMax(CycleOf(a, next).plant)
<1> PICK p, q : p = a.plant /\ q = CycleOf(a, next).plant
  OBVIOUS
<1>1. /\ Rides(q.velocity, q.position, p.velocity, p.position, p.min, p.max, a.duty)
      /\ Confined(p) /\ Confined(q) /\ SameTravel(q, p) /\ a.duty \in Int
  <2>1. a.duty \in Int
    BY Ranges DEF Working
  <2>2. Confined(p)
    BY DEF Working
  <2>3. QED
    BY <2>1, <2>2, WorkRides, Zenon
<1>2. /\ q.velocity \in Int /\ q.position \in Int /\ p.velocity \in Int /\ p.position \in Int
      /\ p.min \in Int /\ p.max \in Int /\ q.min <= q.position /\ p.velocity >= 0
  BY <1>1, PlantNumbers, Zenon
<1>3. q.position <= p.min /\ q.max = p.max
  BY <1>1 DEF AtMin, SameTravel
<1>4. q.position > p.min \/ q.position = p.max
  BY <1>1, <1>2, RideLeaves, Zenon
<1>5. q.position = q.max /\ q.max \in Int
  BY <1>2, <1>3, <1>4
<1>6. QED
  BY <1>5 DEF AtMax

----------------------------------------------------------------------------
\* What one cycle measures.
LEMMA CycleMeasures ==
  ASSUME NEW a, Working(a), NEW next, Understood(next)
  PROVE  LET b == CycleOf(a, next)
             gone == TrueCount(b.plant) - TrueCount(a.plant)
         IN  /\ Rooms(b)
             /\ a.sampled /\ b.sampled => b.velocity = gone
             /\ Active(a) /\ Active(b) => b.velocity = gone /\ b.position = a.position + gone
<1> PICK b : b = CycleOf(a, next)
  OBVIOUS
<1> PICK new, old : new = TrueCount(b.plant) /\ old = TrueCount(a.plant)
  OBVIOUS
<1>0. /\ Sound(a) /\ Confined(a.plant) /\ Settled(a) /\ Watched(a) /\ broken = "NONE"
      /\ a.register = old % Word /\ Low \in Int /\ High \in Int /\ High - Low < Word \div 2
      /\ a.plant.min = Low * Unit /\ a.plant.max = High * Unit
      /\ a.sampled => a.previous = GetCount(a)
  BY DEF Working, Settled
<1>1. /\ Sound(b) /\ Confined(b.plant) /\ SameTravel(b.plant, a.plant)
      /\ b.register = Published(a.register, b.plant)
      /\ Estimated(b, a) \/ HomeFound(b)
  BY <1>0, CycleFollows, Zenon
<1>2. b.register = new % Word
  BY <1>0, <1>1 DEF Published
<1>3. /\ new \in Low .. High /\ old \in Low .. High
  <2>1. b.plant.min = Low * Unit /\ b.plant.max = High * Unit
    BY <1>0, <1>1 DEF SameTravel
  <2>2. QED
    BY <1>0, <1>1, <2>1, CountOnTravel
<1>4. Word \in Nat \ {0} /\ Word \div 2 \in Int /\ 0 < Word \div 2
  BY AxisAssumption
<1> PICK c \in Int : a.offset = c % Word /\ -(Word \div 2) < Low + c /\ High + c < Word \div 2
  BY DEF Working, Rooms
<1>5. /\ old \in Int /\ new \in Int /\ -(Word \div 2) < old + c /\ old + c < Word \div 2
      /\ -(Word \div 2) < new + c /\ new + c < Word \div 2
  <2> PICK low, high, half : low = Low /\ high = High /\ half = Word \div 2
    OBVIOUS
  <2>1. low \in Int /\ high \in Int /\ half \in Int /\ new \in low .. high /\ old \in low .. high
    BY <1>0, <1>3, <1>4
  <2>2. /\ old \in Int /\ new \in Int /\ -half < old + c /\ old + c < half
        /\ -half < new + c /\ new + c < half
    BY <2>1
  <2>3. QED
    BY <2>2
<1>6. GetCount(a) = old + c
  BY <1>0, <1>5, CountIs
<1>7. Rooms(b)
  <2>1. CASE Estimated(b, a)
    BY <2>1 DEF Estimated, Rooms
  <2>2. CASE HomeFound(b)
    <3>1. b.plant.position = b.plant.min
      BY <1>1, <2>2 DEF HomeFound, AtMin, Confined, PlantRecord
    <3>2. TrueCount(b.plant) = Round(b.plant.min, Unit)
      BY <3>1 DEF TrueCount
    <3>3. new = Low
      <4>1. b.plant.min = Low * Unit /\ b.plant.max = High * Unit
        BY <1>0, <1>1 DEF SameTravel
      <4>2. QED
        BY <1>0, <1>1, <3>2, <4>1, CountOnTravel
    <3>4. b.offset = (0 - (Low % Word)) % Word
      BY <1>2, <2>2, <3>3 DEF HomeFound
    <3>5. b.offset = (0 - Low) % Word
      <4>1. 0 \in Int /\ Low \in Int /\ Word \in Nat \ {0}
        BY <1>0, <1>4
      <4>2. (0 - (Low % Word)) % Word = (0 - Low) % Word
        BY <4>1, RemainderInSum, Zenon
      <4>3. QED
        BY <3>4, <4>2, Zenon
    <3>6. 0 - Low \in Int /\ -(Word \div 2) < Low + (0 - Low) /\ High + (0 - Low) < Word \div 2
      BY <1>0, <1>4
    <3>7. QED
      BY <3>5, <3>6 DEF Rooms
  <2>3. QED
    BY <1>1, <2>1, <2>2
<1>8. ASSUME a.sampled, b.sampled
      PROVE  b.velocity = new - old /\ b.previous = GetCount(b) /\ GetCount(b) = new + c
  <2>1. /\ b.velocity = Moved(GetCount(b), a.previous) /\ a.previous = GetCount(a)
        /\ b.offset = a.offset /\ b.previous = GetCount(b)
    BY <1>0, <1>1, <1>8 DEF Estimated, HomeFound
  <2>2. GetCount(b) = new + c
    BY <1>2, <1>5, <2>1, CountIs
  <2>3. b.velocity = Signed(((new + c) - (old + c)) % Word)
    BY <1>6, <2>1, <2>2 DEF Moved
  <2>4. (new + c) - (old + c) = new - old
    BY <1>5
  <2> PICK gone \in Int : gone = new - old
    BY <1>5
  <2>5. -(Word \div 2) < gone /\ gone < Word \div 2
    BY <1>0, <1>3, <1>4
  <2>6. Signed(gone % Word) = gone
    BY <2>5, SignedRemainder
  <2>7. QED
    BY <2>1, <2>2, <2>3, <2>4, <2>6
<1>9. ASSUME Active(a), Active(b)
      PROVE  b.velocity = new - old /\ b.position = a.position + (new - old)
  <2>1. Settled(b)
    BY <1>0, CycleSettles, Zenon
  <2>2. /\ a.sampled /\ a.position = GetCount(a) /\ b.sampled /\ b.position = b.previous
    BY <1>0, <1>9, <2>1 DEF Settled
  <2>3. b.velocity = new - old /\ b.position = new + c
    BY <1>8, <2>2
  <2>4. QED
    BY <1>5, <1>6, <2>2, <2>3
<1>10. QED
  BY <1>7, <1>8, <1>9

----------------------------------------------------------------------------
(***************************************************************************)
(* An axis in the direction it is driven.                                  *)
(***************************************************************************)
Forth(a) == a.state = "MOVING" /\ a.target > a.position

Turn(forth, x) == IF forth THEN x ELSE -x

Front(forth, p) == IF forth THEN p.max ELSE -p.min

Rear(forth, p) == IF forth THEN p.min ELSE -p.max

LEMMA TurnedRide ==
  ASSUME NEW a, Working(a), NEW next, Understood(next), NEW forth \in BOOLEAN
  PROVE  LET p == a.plant
             q == CycleOf(a, next).plant
         IN  /\ Rides(Turn(forth, q.velocity), Turn(forth, q.position), Turn(forth, p.velocity),
                      Turn(forth, p.position), Rear(forth, p), Front(forth, p),
                      Turn(forth, a.duty))
             /\ Turn(forth, q.velocity) \in Int /\ Turn(forth, q.position) \in Int
             /\ Turn(forth, p.velocity) \in Int /\ Turn(forth, p.position) \in Int
             /\ Rear(forth, p) \in Int /\ Front(forth, p) \in Int /\ Turn(forth, a.duty) \in Int
             /\ -MaxDuty <= Turn(forth, a.duty) /\ Turn(forth, a.duty) <= MaxDuty
<1> PICK p, q : p = a.plant /\ q = CycleOf(a, next).plant
  OBVIOUS
<1>1. /\ Rides(q.velocity, q.position, p.velocity, p.position, p.min, p.max, a.duty)
      /\ Confined(p) /\ Confined(q)
  <2>1. Confined(p)
    BY DEF Working
  <2>2. QED
    BY <2>1, WorkRides, Zenon
<1>2. /\ q.velocity \in Int /\ q.position \in Int /\ p.velocity \in Int /\ p.position \in Int
      /\ p.min \in Int /\ p.max \in Int
  BY <1>1, PlantNumbers, Zenon
<1>3. a.duty \in Int /\ -MaxDuty <= a.duty /\ a.duty <= MaxDuty /\ MaxDuty \in Int
  BY Ranges DEF Working
<1>4. CASE forth
  BY <1>1, <1>2, <1>3, <1>4, Zenon DEF Turn, Rear, Front
<1>5. CASE ~forth
  <2>1. Rides(-q.velocity, -q.position, -p.velocity, -p.position, -p.max, -p.min, -a.duty)
    BY <1>1, <1>2, <1>3, RidesMirror, Zenon
  <2>2. /\ -q.velocity \in Int /\ -q.position \in Int /\ -p.velocity \in Int
        /\ -p.position \in Int /\ -p.max \in Int /\ -p.min \in Int /\ -a.duty \in Int
        /\ -MaxDuty <= -a.duty /\ -a.duty <= MaxDuty
    BY <1>2, <1>3
  <2>3. QED
    BY <1>5, <2>1, <2>2, Zenon DEF Turn, Rear, Front
<1>6. QED
  BY <1>4, <1>5

LEMMA TurnedPart ==
  ASSUME NEW p, Confined(p), NEW forth \in BOOLEAN
  PROVE  /\ Turn(forth, TrueCount(p)) \in Int /\ Turn(forth, Part(p)) \in Int
         /\ Phase(Turn(forth, Part(p)))
         /\ Placed(Turn(forth, p.position), Turn(forth, Part(p)), Turn(forth, TrueCount(p)))
<1>1. /\ TrueCount(p) \in Int /\ Part(p) \in Int /\ Phase(Part(p))
      /\ p.position = Part(p) + Unit * TrueCount(p)
  BY PartIsPhase, Zenon
<1> PICK t, y, x : t = TrueCount(p) /\ y = Part(p) /\ x = p.position
  OBVIOUS
<1>2. Phase(-y) /\ Placed(x, y, t) /\ Placed(-x, -y, -t)
  BY <1>1, SMT DEF Phase, Placed, Unit
<1>3. -t \in Int /\ -y \in Int
  BY <1>1
<1>4. QED
  BY <1>1, <1>2, <1>3, Zenon DEF Turn

----------------------------------------------------------------------------
\* No command is taken.
Unasked(a, next) == Understood(next) /\ MotionCommand(Sensed(a), next) = Sensed(a)

\* The duty of a move that goes on.
SteersOn(b, a) ==
  LET error == b.target - b.position
  IN  /\ b.integral = Clamp(a.integral + 2 * error, -MaxIntegral, MaxIntegral)
      /\ b.duty = Clamp(6000 * error + b.integral + -150000 * (b.position - a.position),
                        -MaxDuty, MaxDuty)

\* A cycle in which the axis goes on with what it was at.
LEMMA CycleGoesOn ==
  ASSUME NEW a, Working(a), NEW next, Unasked(a, next),
         NEW b, b = CycleOf(a, next), Active(b)
  PROVE  /\ Active(a) /\ a.fault = "NONE" /\ b.fault = "NONE" /\ b.even = ~a.even
         /\ b.state = a.state /\ b.target = a.target
         /\ b.state = "HOMING" => a.duty = HomingDuty /\ b.duty = HomingDuty /\ ~AtMin(b.plant)
         /\ b.state = "MOVING" => SteersOn(b, a)
         /\ ~a.even => ~AtMax(b.plant)
                       /\ (AtMin(b.plant) => b.state = "HOMING" \/ a.homeContact)
         /\ b.homeContact => AtMin(b.plant) /\ ~AtMax(b.plant)
         /\ b.homeContact /\ b.state = "MOVING" => a.homeContact
         /\ b.still = Candidate(a, b.plant)
              \/ /\ a.state = "MOVING" /\ a.homeContact
                 /\ ~a.even => AtMin(b.plant)
                 /\ b.still <= 1 \/ b.still = Candidate(a, b.plant)
<1>0. Understood(next)
  BY DEF Unasked
<1>b. \E c, e, f : Stages(c, e, f, a, next)
  BY <1>0, CyclePasses, Zenon
<1> PICK e, f : Stages(b, e, f, a, next)
  <2>1. PICK c, e, f : Stages(c, e, f, a, next)
    BY <1>b, Zenon
  <2>2. c = b
    BY <2>1, Zenon DEF Stages
  <2>3. QED
    BY <2>1, <2>2, Zenon
<1>c. /\ e = Sensed(a) /\ f = MotionCommand(e, next)
      /\ Sound(e) /\ Watched(e) /\ Supervises(e, a)
      /\ Sound(f) /\ Watched(f) /\ f.plant = e.plant
      /\ f.state = "HOMING" /\ f.homeContact => AtMin(f.plant)
      /\ f.fault = "NONE" => e.fault = "NONE" /\ Commanded(f, e, next)
      /\ e.fault = "NONE" => a.fault = "NONE" /\ e.state = a.state
                             /\ (e.homeContact => a.homeContact)
  BY DEF Stages
<1>a. b = ControlUpdate(f) /\ b.plant = e.plant
  BY DEF Stages
<1>1. f = e
  BY <1>c DEF Unasked
<1>2. Sound(a) /\ Confined(a.plant) /\ Settled(a) /\ Watched(a) /\ Guarded(a)
  BY DEF Working, Settled
<1>3. /\ Pursues(b, e) /\ Watched(b)
  BY <1>1, <1>a, <1>c, ControlUpdateWatches
<1>4. b.fault = "NONE" /\ e.fault = "NONE" /\ Active(a) /\ a.fault = "NONE" /\ b.state = a.state
  BY <1>3, <1>c DEF Pursues, Watched, Clear, Active
<1>5. /\ e.even = ~a.even /\ e.target = a.target /\ e.integral = a.integral
      /\ e.measured = a.measured /\ e.seeded = a.seeded
  BY <1>2, <1>4, <1>c, SensedWatches
<1>6. b.even = ~a.even /\ b.target = a.target /\ b.position = e.position
  <2>1. b.even = e.even
    BY <1>1, <1>a, <1>c, ControlUpdateWatches
  <2>2. QED
    BY <1>3, <1>5, <2>1 DEF Pursues
<1>7. b.state = "HOMING" => a.duty = HomingDuty /\ b.duty = HomingDuty /\ ~AtMin(b.plant)
  BY <1>1, <1>2, <1>3, <1>4, <1>a, <1>c DEF Pursues, Settled
<1>8. ASSUME b.state = "MOVING"
      PROVE  SteersOn(b, a)
  <2>1. Steered(b, e)
    BY <1>3, <1>8 DEF Pursues
  <2>2. e.seeded /\ e.measured = a.position
    BY <1>2, <1>4, <1>5, <1>8 DEF Settled
  <2>3. Derivative(e) = -150000 * (b.position - a.position)
    BY <1>6, <2>2 DEF Derivative
  <2>4. QED
    BY <1>5, <1>6, <2>1, <2>3 DEF Steered, SteersOn
<1>9. /\ ~a.even => ~AtMax(b.plant) /\ (AtMin(b.plant) => b.state = "HOMING" \/ a.homeContact)
      /\ ~a.even /\ e.homeContact => AtMin(b.plant)
      /\ e.homeContact => a.homeContact
      /\ e.still = Candidate(a, b.plant)
  BY <1>4, <1>a, <1>c DEF Supervises
<1>10. /\ b.homeContact => AtMin(b.plant) /\ ~AtMax(b.plant)
       /\ b.homeContact /\ b.state = "MOVING" => e.homeContact
       /\ b.still = IF e.state # "HOMING" /\ ~e.homeContact THEN e.still
                    ELSE IF e.state # "HOMING" \/ AtMin(b.plant) THEN Noticed(e) ELSE e.still
  <2>1. f.state = "HOMING" /\ f.homeContact => AtMin(f.plant)
    BY <1>c
  <2>2. b.fault = "NONE" =>
          /\ b.homeContact => AtMin(f.plant) /\ ~AtMax(f.plant) /\ b.state # "HOMING"
          /\ b.homeContact /\ b.state = "MOVING" => f.homeContact
          /\ b.still = IF f.state # "HOMING" /\ ~f.homeContact THEN f.still
                       ELSE IF f.state # "HOMING" \/ AtMin(f.plant) THEN Noticed(f) ELSE f.still
    BY <1>a, <1>c, <2>1, ControlUpdateJudges
  <2>3. QED
    BY <1>1, <1>4, <1>a, <1>c, <2>2
<1>11. Noticed(e) <= 1 \/ Noticed(e) = e.still
  BY DEF Noticed
<1>12. e.state = a.state
  BY <1>4, <1>c
<1>13. \/ b.still = Candidate(a, b.plant)
       \/ /\ a.state = "MOVING" /\ a.homeContact
          /\ ~a.even => AtMin(b.plant)
          /\ b.still <= 1 \/ b.still = Candidate(a, b.plant)
  <2>1. CASE a.state = "HOMING"
    BY <1>4, <1>7, <1>9, <1>10, <1>12, <2>1
  <2>2. CASE a.state # "HOMING"
    BY <1>4, <1>9, <1>10, <1>11, <1>12, <2>2 DEF Active
  <2>3. QED
    BY <2>1, <2>2
<1>14. QED
  BY <1>4, <1>6, <1>7, <1>8, <1>9, <1>10, <1>13, Zenon

\* A departure leaves the switch with its first cycle.
LEMMA ContactEnds ==
  ASSUME NEW a, Working(a), NEW next, Unasked(a, next),
         NEW b, b = CycleOf(a, next), Active(b),
         a.state = "MOVING", a.homeContact, a.still = 0, a.duty >= DepartDuty,
         a.plant.velocity >= 0
  PROVE  ~b.homeContact /\ (b.still = Candidate(a, b.plant) \/ (a.even /\ b.still <= 1))
<1>1. a.fault = "NONE"
  BY CycleGoesOn
<1>2. AtMin(a.plant)
  BY <1>1 DEF Working, Guarded
<1>3. AtMin(b.plant) => AtMax(b.plant)
  <2>1. Understood(next)
    BY DEF Unasked
  <2>2. QED
    BY <1>2, <2>1, WorkLeaves
<1>4. QED
  BY <1>3, CycleGoesOn

\* An axis that is held in front is at the end of its travel.
LEMMA HeldIsAtEnd ==
  ASSUME NEW p, Confined(p), NEW q, Confined(q), SameTravel(q, p), NEW forth \in BOOLEAN,
         Held(Turn(forth, q.velocity), Turn(forth, q.position), Front(forth, p))
  PROVE  IF forth THEN AtMax(q) ELSE AtMin(q)
<1>1. q.position \in Int /\ q.min \in Int /\ q.max \in Int
  BY PlantNumbers, Zenon
<1>2. q.min = p.min /\ q.max = p.max
  BY DEF SameTravel
<1>3. CASE forth
  BY <1>1, <1>2, <1>3 DEF Held, Turn, Front, AtMax
<1>4. CASE ~forth
  <2>1. -q.position = -p.min
    BY <1>4 DEF Held, Turn, Front
  <2>2. q.position <= q.min
    BY <1>1, <1>2, <2>1
  <2>3. QED
    BY <1>4, <2>2 DEF AtMin
<1>5. QED
  BY <1>3, <1>4

LEMMA ClampMirrors ==
  ASSUME NEW n \in Int, NEW h \in Nat
  PROVE  Clamp(-n, -h, h) = -Clamp(n, -h, h)
BY DEF Clamp

LEMMA TurnedClamp ==
  ASSUME NEW n \in Int, NEW h \in Nat, NEW forth \in BOOLEAN
  PROVE  Turn(forth, Clamp(n, -h, h)) = Clamp(Turn(forth, n), -h, h)
<1>1. Clamp(-n, -h, h) = -Clamp(n, -h, h)
  BY ClampMirrors
<1>2. QED
  BY <1>1 DEF Turn

\* A duty that qualifies, on an axis that stands, pushes forth.
LEMMA PushesForth ==
  ASSUME NEW e \in Int, NEW i \in Int, -MaxIntegral <= i, i <= MaxIntegral, NEW d \in Int,
         Stands(d, e, i), Abs(d) >= StallDuty
  PROVE  /\ Turn(e > 0, d) >= StallDuty
         /\ Stands(Turn(e > 0, d), Turn(e > 0, e), Turn(e > 0, i))
<1>1. CASE e > 0
  <2>1. Turn(e > 0, d) = d /\ Turn(e > 0, e) = e /\ Turn(e > 0, i) = i
    BY <1>1, Zenon DEF Turn
  <2>2. d >= 0
    BY <1>1, SMT DEF Stands, Clamp, MaxDuty, MaxIntegral
  <2>3. d >= StallDuty
    BY <2>2, SMT DEF Abs
  <2>4. QED
    BY <2>1, <2>3, Zenon
<1>2. CASE ~(e > 0)
  <2>1. Turn(e > 0, d) = -d /\ Turn(e > 0, e) = -e /\ Turn(e > 0, i) = -i
    BY <1>2, Zenon DEF Turn
  <2>2. d <= MaxIntegral
    BY <1>2, SMT DEF Stands, Clamp, MaxDuty, MaxIntegral
  <2>3. -d >= StallDuty
    BY <2>2, SMT DEF Abs, StallDuty, MaxIntegral
  <2>4. Stands(-d, -e, -i)
    BY SMT DEF Stands, Clamp, MaxDuty
  <2>5. QED
    BY <2>1, <2>3, <2>4, Zenon
<1>3. QED
  BY <1>1, <1>2, Zenon

----------------------------------------------------------------------------
(***************************************************************************)
(* The ladder on the axis: the rung of a look, and what is known between   *)
(* two of them.                                                            *)
(***************************************************************************)
LookRung(a, j) ==
  LET forth == Forth(a)
  IN  \/ NearStop(Turn(forth, a.plant.velocity), Turn(forth, a.plant.position),
               Front(forth, a.plant), 10)
      \/ /\ j \in 0 .. 24
         /\ Rung(j, Turn(forth, a.plant.velocity), Turn(forth, Part(a.plant)), Turn(forth, a.duty))

\* What the duty of a move cannot exceed in the next cycle, if the count stays.
Bound(a) ==
  LET error == a.target - a.position
  IN  IF a.state = "MOVING" THEN Turn(Forth(a), Wants(error, a.integral)) ELSE StallDuty

Half(a, j) ==
  LET forth == Forth(a)
  IN  /\ j \in 0 .. 24
      /\ Between(j, Turn(forth, a.plant.velocity), Turn(forth, Part(a.plant)),
                 Turn(forth, a.velocity), Turn(forth, a.duty), Bound(a))

\* An axis that stands is calm, and its duty is the error's and the integral's.
Standing(a) ==
  a.velocity = 0 =>
    /\ -Calm <= a.plant.velocity /\ a.plant.velocity <= Calm
    /\ a.state = "MOVING" => Stands(a.duty, a.target - a.position, a.integral)

LEMMA HomingPushes == -HomingDuty = StallDuty
<1>1. HomingDuty = -StallDuty
  BY SMT DEF HomingDuty, StallDuty
<1>2. StallDuty \in Int
  BY SMT DEF StallDuty
<1>3. QED
  BY <1>1, <1>2

\* From a look that finds the axis without movement to the cycle after it.
LEMMA LookToHalf ==
  ASSUME NEW a, Working(a), NEW next, Unasked(a, next), NEW b, b = CycleOf(a, next), Active(b),
         ~a.even, Resisting(a), Standing(a), NEW j, LookRung(a, j)
  PROVE  Half(b, j)
<1> PICK forth \in BOOLEAN : forth = Forth(a)
  BY DEF Forth
<1>1. /\ Active(a) /\ a.fault = "NONE" /\ b.state = a.state /\ b.target = a.target
      /\ b.state = "HOMING" => a.duty = HomingDuty /\ b.duty = HomingDuty /\ ~AtMin(b.plant)
      /\ b.state = "MOVING" => SteersOn(b, a)
      /\ ~AtMax(b.plant) /\ (AtMin(b.plant) => b.state = "HOMING" \/ a.homeContact)
  BY CycleGoesOn
<1>2. Understood(next) /\ Sound(a) /\ Confined(a.plant) /\ Settled(a) /\ Guarded(a)
  BY DEF Unasked, Working
<1>3. Sound(b)
  BY <1>2, CycleFollows, Zenon
<1>4. Confined(b.plant) /\ SameTravel(b.plant, a.plant)
  BY <1>2, WorkRides, Zenon
<1>5. /\ a.position \in Int /\ a.target \in Int /\ a.integral \in Int /\ a.duty \in Int
      /\ -MaxIntegral <= a.integral /\ a.integral <= MaxIntegral /\ a.velocity \in Int
      /\ b.position \in Int /\ b.target \in Int /\ b.integral \in Int /\ b.duty \in Int
      /\ b.velocity \in Int
  BY <1>2, <1>3, Ranges DEF Sound, Typed
<1>6. a.velocity = 0 /\ Abs(a.duty) >= StallDuty
  <2>1. Abs(a.velocity) * 100 <= 25
    BY DEF Resisting, Slow
  <2>2. a.velocity = 0
    BY <1>5, <2>1 DEF Abs
  <2>3. QED
    BY <2>2 DEF Resisting
<1> PICK gone : gone = TrueCount(b.plant) - TrueCount(a.plant)
  OBVIOUS
<1>7. b.velocity = gone /\ b.position = a.position + gone
  BY <1>1, <1>2, CycleMeasures
<1> PICK v, q, u, p, low, high, d :
      /\ v = Turn(forth, b.plant.velocity) /\ q = Turn(forth, b.plant.position)
      /\ u = Turn(forth, a.plant.velocity) /\ p = Turn(forth, a.plant.position)
      /\ low = Rear(forth, a.plant) /\ high = Front(forth, a.plant) /\ d = Turn(forth, a.duty)
  OBVIOUS
<1>8. /\ Rides(v, q, u, p, low, high, d)
      /\ v \in Int /\ q \in Int /\ u \in Int /\ p \in Int /\ low \in Int /\ high \in Int
      /\ d \in Int /\ -MaxDuty <= d /\ d <= MaxDuty
  BY <1>2, TurnedRide, Zenon
<1> PICK n, y, m, z : /\ n = Turn(forth, TrueCount(a.plant)) /\ y = Turn(forth, Part(a.plant))
                      /\ m = Turn(forth, TrueCount(b.plant)) /\ z = Turn(forth, Part(b.plant))
  OBVIOUS
<1>9. /\ n \in Int /\ y \in Int /\ Phase(y) /\ Placed(p, y, n)
      /\ m \in Int /\ z \in Int /\ Phase(z) /\ Placed(q, z, m)
  BY <1>2, <1>4, TurnedPart, Zenon
<1> PICK k : k = Turn(forth, gone)
  OBVIOUS
<1>10. k \in Int /\ m = n + k
  <2>1. TrueCount(a.plant) \in Int /\ TrueCount(b.plant) \in Int
    BY <1>2, <1>4, PartIsPhase, Zenon
  <2>2. QED
    BY <2>1 DEF Turn
<1>11. a.state = "MOVING" => /\ Stands(d, Turn(forth, a.target - a.position), Turn(forth, a.integral))
                             /\ d >= StallDuty /\ (forth <=> a.target - a.position > 0)
  <2>1. SUFFICES ASSUME a.state = "MOVING"
                 PROVE  /\ Stands(d, Turn(forth, a.target - a.position), Turn(forth, a.integral))
                        /\ d >= StallDuty /\ (forth <=> a.target - a.position > 0)
    BY Zenon
  <2> PICK e \in Int : e = a.target - a.position
    BY <1>5
  <2>2. forth = (e > 0)
    BY <1>5, <2>1 DEF Forth
  <2>3. Stands(a.duty, e, a.integral)
    BY <1>6, <2>1 DEF Standing
  <2>4. /\ Turn(e > 0, a.duty) >= StallDuty
        /\ Stands(Turn(e > 0, a.duty), Turn(e > 0, e), Turn(e > 0, a.integral))
    BY <1>5, <1>6, <2>3, PushesForth, Zenon
  <2>5. QED
    BY <2>2, <2>4, Zenon
<1>12. ASSUME a.state = "HOMING"
       PROVE  ~forth /\ d = StallDuty
  <2>1. ~forth /\ d = -a.duty /\ a.duty = HomingDuty
    BY <1>1, <1>12, Zenon DEF Forth, Turn
  <2>2. QED
    BY <2>1, HomingPushes, Zenon
<1>13. d >= StallDuty /\ StallDuty <= d
  <2>1. a.state = "HOMING" \/ a.state = "MOVING"
    BY <1>1 DEF Active
  <2>2. d >= StallDuty
    BY <1>8, <1>11, <1>12, <2>1, SMT DEF StallDuty
  <2>3. QED
    BY <1>8, <2>2, SMT DEF StallDuty
<1>14. ~Held(v, q, high)
  <2>1. SUFFICES ASSUME Held(v, q, high) PROVE FALSE
    OBVIOUS
  <2>2. IF forth THEN AtMax(b.plant) ELSE AtMin(b.plant)
    BY <1>2, <1>4, <2>1, HeldIsAtEnd, Zenon
  <2>3. ~forth /\ AtMin(b.plant) /\ a.state = "MOVING" /\ a.homeContact
    BY <1>1, <2>2 DEF Active
  <2>4. a.target > a.position
    BY <1>1, <1>2, <2>3 DEF Guarded, Departing
  <2>5. QED
    BY <2>3, <2>4 DEF Forth
<1>15. ~NearStop(u, p, high, 10)
  BY <1>8, <1>13, <1>14, RideCloses, Zenon
<1>16. j \in 0 .. 24 /\ Rung(j, u, y, d)
  BY <1>15, Zenon DEF LookRung
<1>17. -Calm <= u /\ u <= Calm
  <2>1. a.plant.velocity \in Int
    BY <1>2, PlantNumbers, Zenon
  <2>2. -Calm <= a.plant.velocity /\ a.plant.velocity <= Calm
    BY <1>6 DEF Standing
  <2>3. QED
    BY <2>1, <2>2, SMT DEF Turn, Calm
<1>18. Leads(v, z, k, u, y, d)
  <2>1. Placed(q, z, n + k)
    BY <1>9, <1>10, Zenon
  <2>2. QED
    BY <1>8, <1>9, <1>10, <1>13, <1>14, <1>17, <2>1, LookLeads, Zenon
<1>19. k <= 2
  BY <1>8, <1>9, <1>10, <1>18, AtMostTwo, Zenon
<1> PICK e : e = Turn(forth, b.duty)
  OBVIOUS
<1>20. e \in Int
  BY <1>5 DEF Turn
<1>21. CASE a.state = "HOMING"
  <2>1. /\ ~Forth(b) /\ ~forth /\ e = -b.duty /\ b.duty = HomingDuty /\ d = StallDuty
        /\ Bound(b) = StallDuty
    BY <1>1, <1>12, <1>21, Zenon DEF Forth, Bound, Turn
  <2>a. e = StallDuty
    BY <2>1, HomingPushes, Zenon
  <2>2. Meets(e, k, d)
    BY <1>10, <1>19, <2>1, <2>a, SMT DEF Meets, StallDuty, MaxDuty
  <2>3. Between(j, v, z, k, e, StallDuty)
    BY <1>8, <1>9, <1>16, <1>18, <2>1, <2>2, <2>a, Zenon DEF Between
  <2>4. Forth(b) = forth
    <3> PICK back \in BOOLEAN : back = Forth(b)
      BY DEF Forth
    <3>1. ~back /\ ~forth
      BY <2>1
    <3>2. QED
      BY <3>1
  <2>5. QED
    BY <1>7, <1>16, <2>1, <2>3, <2>4, Zenon DEF Half
<1>22. CASE a.state = "MOVING"
  <2> PICK error \in Int : error = b.target - b.position
    BY <1>5
  <2> PICK i \in Int : i = Turn(forth, a.integral)
    BY <1>5 DEF Turn
  <2>1. -MaxIntegral <= i /\ i <= MaxIntegral /\ MaxIntegral \in Nat /\ MaxDuty \in Nat
    BY <1>5, Ranges DEF Turn
  <2>2. gone \in Int
    BY <1>5, <1>7
  <2>3. Turn(forth, a.target - a.position) = Turn(forth, error) + k
    BY <1>1, <1>5, <1>7, <2>2 DEF Turn
  <2>4. Stands(d, Turn(forth, error) + k, i)
    BY <1>11, <1>22, <2>3, Zenon
  <2>5. SteersOn(b, a)
    BY <1>1, <1>22
  <2> PICK r, h, g : /\ r = Turn(forth, error) /\ h = Turn(forth, b.integral)
                     /\ g = Turn(forth, Wants(error, b.integral))
    OBVIOUS
  <2>6. r \in Int /\ h \in Int /\ g = Wants(r, h)
    BY <1>5, SMT DEF Turn, Wants
  <2>7. Winds(h, i, r)
    <3>1. b.integral = Clamp(a.integral + 2 * error, -MaxIntegral, MaxIntegral)
      BY <2>5 DEF SteersOn
    <3>2. a.integral + 2 * error \in Int
      BY <1>5
    <3>3. h = Clamp(Turn(forth, a.integral + 2 * error), -MaxIntegral, MaxIntegral)
      BY <2>1, <3>1, <3>2, TurnedClamp
    <3>4. Turn(forth, a.integral + 2 * error) = i + 2 * r
      BY <1>5 DEF Turn
    <3>5. QED
      BY <3>3, <3>4 DEF Winds
  <2>a. Brakes(e, r, h, k)
    <3> PICK x : x = 6000 * error + b.integral + -150000 * gone
      OBVIOUS
    <3>1. b.position - a.position = gone
      BY <1>5, <1>7, <2>2
    <3>2. b.duty = Clamp(x, -MaxDuty, MaxDuty) /\ x \in Int
      BY <1>5, <2>2, <2>5, <3>1, SMT DEF SteersOn
    <3>3. e = Clamp(Turn(forth, x), -MaxDuty, MaxDuty)
      BY <2>1, <3>2, TurnedClamp, SMT
    <3>4. Turn(forth, x) = 6000 * r + h - 150000 * k
      BY <1>5, <2>2, SMT DEF Turn
    <3>5. QED
      BY <3>3, <3>4, SMT DEF Brakes
  <2>8. r >= 48 /\ Meets(e, k, d) /\ (k = 2 => Spent(e, g, d))
    <3>1. Stands(d, r + k, i)
      BY <2>4
    <3>2. r >= 48 /\ Meets(e, k, d) /\ (k = 2 => Spent(e, Wants(r, h), d))
      BY <1>5, <1>8, <1>10, <1>13, <1>19, <1>20, <2>1, <2>6, <2>7, <2>a, <3>1, Braking, Zenon
    <3>3. QED
      BY <2>6, <3>2, Zenon
  <2>9. Forth(b) = forth
    <3>1. forth => error >= 48
      BY <2>8, Zenon DEF Turn
    <3>2. ~forth => -error >= 48
      BY <2>8, Zenon DEF Turn
    <3>3. b.state = "MOVING"
      BY <1>1, <1>22
    <3>4. forth <=> b.target > b.position
      BY <1>5, <3>1, <3>2
    <3>5. QED
      BY <3>3, <3>4, Zenon DEF Forth
  <2>10. Bound(b) = g
    BY <1>1, <1>22, <2>9, Zenon DEF Bound
  <2>11. k = 2 => Spent(e, g, d)
    BY <2>8
  <2>12. Between(j, v, z, k, e, g)
    BY <1>8, <1>9, <1>16, <1>18, <2>8, <2>11, Zenon DEF Between
  <2>13. QED
    BY <1>7, <1>16, <2>9, <2>10, <2>12, Zenon DEF Half
<1>23. QED
  BY <1>1, <1>21, <1>22 DEF Active

----------------------------------------------------------------------------
\* The duty of a move without movement is what was wanted at the most.
LEMMA WantedAtMost ==
  ASSUME NEW r \in Int, r >= 0, NEW i \in Int, -MaxIntegral <= i, NEW h \in Int,
         Winds(h, i, r), NEW f \in Int, Stands(f, r, h)
  PROVE  f <= Wants(r, i)
<1>1. h = Clamp(i + 2 * r, -MaxIntegral, MaxIntegral) /\ f = Clamp(6000 * r + h, -MaxDuty, MaxDuty)
  BY SMT DEF Winds, Stands
<1>2. h <= i + 2 * r /\ h >= -MaxIntegral
  BY <1>1, SMT DEF Clamp, MaxIntegral
<1>3. f <= 6000 * r + h
  BY <1>1, <1>2, SMT DEF Clamp, MaxDuty, MaxIntegral
<1>4. QED
  BY <1>2, <1>3, SMT DEF Wants

\* Without movement a move goes on as it stands.
LEMMA SteersStands ==
  ASSUME NEW b, NEW a, SteersOn(b, a), b.position = a.position, a.position \in Int,
         b.target \in Int, b.integral \in Int
  PROVE  /\ Stands(b.duty, b.target - b.position, b.integral)
         /\ Winds(b.integral, a.integral, b.target - b.position)
<1> PICK error \in Int : error = b.target - b.position
  OBVIOUS
<1> PICK j \in Int : j = b.integral
  OBVIOUS
<1>1. b.position - a.position = 0
  OBVIOUS
<1>2. b.duty = Clamp(6000 * error + j + -150000 * 0, -MaxDuty, MaxDuty)
  BY <1>1, SMT DEF SteersOn
<1>3. 6000 * error + j + -150000 * 0 = 6000 * error + j
  BY SMT
<1>4. b.duty = Clamp(6000 * error + j, -MaxDuty, MaxDuty)
  BY <1>2, <1>3, SMT
<1>5. QED
  BY <1>4, SMT DEF SteersOn, Stands, Winds

\* From the cycle after a look to the next look.
LEMMA HalfToLook ==
  ASSUME NEW a, Working(a), NEW next, Unasked(a, next), NEW b, b = CycleOf(a, next), Active(b),
         b.velocity = 0, NEW j, Half(a, j)
  PROVE  LookRung(b, j + 1)
<1> PICK forth \in BOOLEAN : forth = Forth(a)
  BY DEF Forth
<1>1. /\ Active(a) /\ b.state = a.state /\ b.target = a.target
      /\ b.state = "HOMING" => a.duty = HomingDuty /\ b.duty = HomingDuty
      /\ b.state = "MOVING" => SteersOn(b, a)
  BY CycleGoesOn
<1>2. Understood(next) /\ Sound(a) /\ Confined(a.plant)
  BY DEF Unasked, Working
<1>3. Sound(b)
  BY <1>2, CycleFollows, Zenon
<1>4. Confined(b.plant) /\ SameTravel(b.plant, a.plant)
  BY <1>2, WorkRides, Zenon
<1>5. /\ a.position \in Int /\ a.target \in Int /\ a.integral \in Int /\ a.duty \in Int
      /\ -MaxIntegral <= a.integral /\ a.integral <= MaxIntegral /\ a.velocity \in Int
      /\ b.position \in Int /\ b.target \in Int /\ b.integral \in Int /\ b.duty \in Int
  BY <1>2, <1>3, Ranges DEF Sound, Typed
<1>6. TrueCount(a.plant) \in Int /\ TrueCount(b.plant) \in Int
  BY <1>2, <1>4, PartIsPhase, Zenon
<1>7. TrueCount(b.plant) = TrueCount(a.plant) /\ b.position = a.position
  <2> PICK new, old : new = TrueCount(b.plant) /\ old = TrueCount(a.plant)
    OBVIOUS
  <2>1. b.velocity = new - old /\ b.position = a.position + (new - old)
    BY <1>1, <1>2, CycleMeasures
  <2>2. new - old = 0 /\ new \in Int /\ old \in Int
    BY <1>6, <2>1
  <2>3. new = old
    BY <2>2
  <2>4. b.position = a.position + 0
    BY <2>1, <2>2
  <2>5. QED
    BY <1>5, <2>3, <2>4
<1> PICK back \in BOOLEAN : back = Forth(b)
  BY DEF Forth
<1>8. back = forth
  BY <1>1, <1>7 DEF Forth
<1> PICK w, r, v, q, low, high, e :
      /\ w = Turn(forth, b.plant.velocity) /\ r = Turn(forth, b.plant.position)
      /\ v = Turn(forth, a.plant.velocity) /\ q = Turn(forth, a.plant.position)
      /\ low = Rear(forth, a.plant) /\ high = Front(forth, a.plant) /\ e = Turn(forth, a.duty)
  OBVIOUS
<1>9. /\ Rides(w, r, v, q, low, high, e)
      /\ w \in Int /\ r \in Int /\ v \in Int /\ q \in Int /\ low \in Int /\ high \in Int
      /\ e \in Int
  BY <1>2, TurnedRide, Zenon
<1> PICK n, z, m, x : /\ n = Turn(forth, TrueCount(a.plant)) /\ z = Turn(forth, Part(a.plant))
                      /\ m = Turn(forth, TrueCount(b.plant)) /\ x = Turn(forth, Part(b.plant))
  OBVIOUS
<1>10. /\ n \in Int /\ z \in Int /\ Placed(q, z, n)
       /\ m \in Int /\ x \in Int /\ Phase(x) /\ Placed(r, x, m)
  BY <1>2, <1>4, TurnedPart, Zenon
<1>11. Placed(r, x, n)
  BY <1>7, <1>10, Zenon
<1> PICK k, f, g : k = Turn(forth, a.velocity) /\ f = Turn(forth, b.duty) /\ g = Bound(a)
  OBVIOUS
<1>12. k \in Int /\ f \in Int
  BY <1>5 DEF Turn
<1>13. j \in 0 .. 24 /\ Between(j, v, z, k, e, g)
  BY Zenon DEF Half
<1>14. g \in Int /\ f <= g
  <2>1. CASE a.state = "HOMING"
    <3>1. ~forth /\ f = -b.duty /\ b.duty = HomingDuty /\ g = StallDuty
      BY <1>1, <2>1, Zenon DEF Forth, Turn, Bound
    <3>2. f = StallDuty
      BY <3>1, HomingPushes, Zenon
    <3>3. QED
      BY <3>1, <3>2, SMT DEF StallDuty
  <2>2. CASE a.state = "MOVING"
    <3> PICK error \in Int : error = a.target - a.position
      BY <1>5
    <3>1. b.target - b.position = error /\ SteersOn(b, a)
      BY <1>1, <1>7, <2>2
    <3>2. Stands(b.duty, error, b.integral) /\ Winds(b.integral, a.integral, error)
      BY <1>5, <1>7, <3>1, SteersStands
    <3> PICK t, h, i : t = Turn(forth, error) /\ h = Turn(forth, b.integral) /\ i = Turn(forth, a.integral)
      OBVIOUS
    <3>3. t \in Int /\ h \in Int /\ i \in Int /\ -MaxIntegral <= i /\ t >= 0
      <4>1. forth <=> a.target > a.position
        BY <2>2 DEF Forth
      <4>2. CASE forth
        BY <1>5, <4>1, <4>2 DEF Turn
      <4>3. CASE ~forth
        BY <1>5, <4>1, <4>3, Ranges DEF Turn
      <4>4. QED
        BY <4>2, <4>3
    <3>4. Stands(f, t, h) /\ Winds(h, i, t)
      <4>1. CASE forth
        BY <3>2, <4>1, Zenon DEF Turn
      <4>2. CASE ~forth
        <5>1. f = -b.duty /\ t = -error /\ h = -b.integral /\ i = -a.integral
          BY <4>2, Zenon DEF Turn
        <5>2. Stands(-b.duty, -error, -b.integral)
          BY <1>5, <3>2, SMT DEF Stands, Clamp, MaxDuty
        <5>3. Winds(-b.integral, -a.integral, -error)
          BY <1>5, <3>2, SMT DEF Winds, Clamp, MaxIntegral
        <5>4. QED
          BY <5>1, <5>2, <5>3, Zenon
      <4>3. QED
        BY <4>1, <4>2
    <3>5. f <= Wants(t, i)
      BY <1>12, <3>3, <3>4, WantedAtMost, Zenon
    <3>6. g = Turn(forth, Wants(error, a.integral))
      BY <2>2, Zenon DEF Bound
    <3>7. g = Wants(t, i) /\ g \in Int
      BY <1>5, <3>6, SMT DEF Turn, Wants
    <3>8. QED
      BY <3>5, <3>7, Zenon
  <2>3. QED
    BY <1>1, <2>1, <2>2 DEF Active
<1>15. NearStop(w, r, high, 10) \/ (j <= 23 /\ Rung(j + 1, w, x, f))
  <2>1. Placed(q, z, n) /\ Phase(x) /\ x \in Int /\ n \in Int /\ z \in Int
    BY <1>10, Zenon
  <2>2. QED
    BY <1>9, <1>11, <1>12, <1>13, <1>14, <2>1, LookFollows, ZenonT(60)
<1>16. high = Front(forth, b.plant)
  BY <1>4 DEF SameTravel, Front
<1>17. j <= 23 => j + 1 \in 0 .. 24
  BY <1>13
<1>18. QED
  BY <1>8, <1>15, <1>16, <1>17, Zenon DEF LookRung

\* A cycle that moves no count leaves the axis calm, and a calm axis is on the first rung.
LEMMA CalmAfter ==
  ASSUME NEW a, Working(a), NEW next, Understood(next), NEW b, b = CycleOf(a, next),
         a.sampled, b.sampled, b.velocity = 0
  PROVE  -Calm <= b.plant.velocity /\ b.plant.velocity <= Calm
<1> PICK p, q : p = a.plant /\ q = b.plant
  OBVIOUS
<1>1. /\ Rides(q.velocity, q.position, p.velocity, p.position, p.min, p.max, a.duty)
      /\ Confined(p) /\ Confined(q)
  <2>1. Confined(p)
    BY DEF Working
  <2>2. QED
    BY <2>1, WorkRides, Zenon
<1>2. /\ q.velocity \in Int /\ q.position \in Int /\ p.velocity \in Int /\ p.position \in Int
      /\ p.min \in Int /\ p.max \in Int
  BY <1>1, PlantNumbers, Zenon
<1>3. a.duty \in Int /\ -MaxDuty <= a.duty /\ a.duty <= MaxDuty
  BY Ranges DEF Working
<1> PICK n, y, m, z : n = TrueCount(p) /\ y = Part(p) /\ m = TrueCount(q) /\ z = Part(q)
  OBVIOUS
<1>4. /\ n \in Int /\ y \in Int /\ Phase(y) /\ p.position = y + Unit * n
      /\ m \in Int /\ z \in Int /\ Phase(z) /\ q.position = z + Unit * m
  BY <1>1, PartIsPhase, Zenon
<1>5. m = n
  <2>1. b.velocity = m - n
    BY CycleMeasures
  <2>2. QED
    BY <1>4, <2>1
<1>6. q.position - p.position <= Unit /\ p.position - q.position <= Unit
  BY <1>4, <1>5, SMT DEF Phase, Unit
<1>7. -Calm <= q.velocity /\ q.velocity <= Calm
  BY <1>1, <1>2, <1>3, <1>6, RideCalms, Zenon
<1>8. QED
  BY <1>7

LEMMA CalmIsARung ==
  ASSUME NEW a, Confined(a.plant), a.duty \in Int, -Calm <= a.plant.velocity,
         a.plant.velocity <= Calm
  PROVE  LookRung(a, 0)
<1> PICK forth \in BOOLEAN : forth = Forth(a)
  BY DEF Forth
<1> PICK u, y, d : /\ u = Turn(forth, a.plant.velocity) /\ y = Turn(forth, Part(a.plant))
                   /\ d = Turn(forth, a.duty)
  OBVIOUS
<1>1. y \in Int /\ Phase(y)
  BY TurnedPart, Zenon
<1>2. a.plant.velocity \in Int
  BY PlantNumbers, Zenon
<1>3. u \in Int /\ -Calm <= u
  BY <1>2, SMT DEF Turn, Calm
<1>4. Speeds[0 + 1] = -115 /\ Places[0 + 1] = -50
  BY TableEnds
<1>5. Climbs(0, u, y)
  BY <1>1, <1>3, <1>4, SMT DEF Climbs, Phase, Calm, Unit, Hundredth
<1>6. 0 \in 0 .. 24 /\ Rung(0, u, y, d)
  BY <1>5 DEF Rung
<1>7. QED
  BY <1>6, Zenon DEF LookRung

----------------------------------------------------------------------------
(***************************************************************************)
(* Every cycle of an active axis is on the ladder.                         *)
(***************************************************************************)
Climbing(a) ==
  /\ Standing(a)
  /\ a.state = "MOVING" /\ a.homeContact => a.still = 0 /\ a.duty >= DepartDuty
  /\ ~a.even /\ Resisting(a) => LookRung(a, a.still \div 2)
  /\ a.even /\ a.still >= 1 => Half(a, (a.still - 1) \div 2)

\* No axis moves down that is at the home stop.
StopHolds(a) == AtMin(a.plant) => a.plant.velocity >= 0

\* A cycle without a command keeps the ladder.
LEMMA ClimbsAlong ==
  ASSUME NEW a, Working(a), NEW next, Unasked(a, next), NEW b, b = CycleOf(a, next), Active(b),
         Climbing(a), StopHolds(a)
  PROVE  Climbing(b)
<1>1. /\ Active(a) /\ a.fault = "NONE" /\ b.even = ~a.even
      /\ b.state = a.state /\ b.target = a.target
      /\ b.state = "MOVING" => SteersOn(b, a)
      /\ b.homeContact /\ b.state = "MOVING" => a.homeContact
      /\ b.still = Candidate(a, b.plant)
           \/ /\ a.state = "MOVING" /\ a.homeContact
              /\ b.still <= 1 \/ b.still = Candidate(a, b.plant)
  BY CycleGoesOn
<1>2. Understood(next) /\ Sound(a) /\ Confined(a.plant) /\ Settled(a) /\ Watched(a) /\ Guarded(a)
  BY DEF Unasked, Working, Settled
<1>3. Sound(b) /\ Confined(b.plant) /\ Settled(b)
  BY <1>2, CycleFollows, CycleSettles, Zenon
<1>4. /\ a.still \in Nat /\ b.still \in Nat /\ a.even \in BOOLEAN /\ b.duty \in Int
      /\ b.position \in Int /\ a.position \in Int /\ b.target \in Int /\ b.integral \in Int
      /\ b.velocity \in Int
  BY <1>2, <1>3, Ranges DEF Sound, Typed
<1>5. b.velocity = 0 => /\ -Calm <= b.plant.velocity /\ b.plant.velocity <= Calm
  <2>1. a.sampled /\ b.sampled
    BY <1>1, <1>2, <1>3 DEF Settled
  <2>2. QED
    BY <1>2, <2>1, CalmAfter, Zenon
<1>6. Standing(b)
  <2>1. ASSUME b.velocity = 0, b.state = "MOVING"
        PROVE  Stands(b.duty, b.target - b.position, b.integral)
    <3> PICK gone : gone = TrueCount(b.plant) - TrueCount(a.plant)
      OBVIOUS
    <3>1. b.velocity = gone /\ b.position = a.position + gone
      BY <1>1, <1>2, CycleMeasures
    <3>2. b.position = a.position
      BY <1>4, <2>1, <3>1
    <3>3. QED
      BY <1>1, <1>4, <2>1, <3>2, SteersStands
  <2>2. QED
    BY <1>5, <2>1, Zenon DEF Standing
<1>7. ASSUME a.state = "MOVING", a.homeContact
      PROVE  ~b.homeContact /\ (b.still = Candidate(a, b.plant) \/ (a.even /\ b.still <= 1))
  <2>1. a.plant.velocity >= 0
    BY <1>1, <1>2, <1>7 DEF Guarded, StopHolds
  <2>2. a.still = 0 /\ a.duty >= DepartDuty
    BY <1>7 DEF Climbing
  <2>3. QED
    BY <1>7, <2>1, <2>2, ContactEnds, Zenon
<1>8. ~(b.state = "MOVING" /\ b.homeContact)
  BY <1>1, <1>7
<1>9. b.still = Candidate(a, b.plant) \/ (a.even /\ b.still <= 1)
  BY <1>1, <1>7
<1>10. ASSUME b.even, b.still >= 1
       PROVE  Half(b, (b.still - 1) \div 2)
  <2>1. ~a.even /\ b.still = Candidate(a, b.plant)
    BY <1>1, <1>9, <1>10
  <2>2. Opposed(a, b.plant) /\ b.still = a.still + 1
    BY <1>4, <1>10, <2>1 DEF Candidate
  <2>3. Resisting(a)
    BY <2>2 DEF Opposed
  <2>4. LookRung(a, a.still \div 2) /\ Standing(a)
    BY <2>1, <2>3 DEF Climbing
  <2>5. Half(b, a.still \div 2)
    BY <2>1, <2>3, <2>4, LookToHalf, Zenon
  <2>6. b.still - 1 = a.still
    BY <1>4, <2>2
  <2>7. QED
    BY <2>5, <2>6, Zenon
<1>11. ASSUME ~b.even, Resisting(b)
       PROVE  LookRung(b, b.still \div 2)
  <2>1. a.even
    BY <1>1, <1>4, <1>11
  <2>2. b.velocity = 0
    <3>1. Abs(b.velocity) * 100 <= 25
      BY <1>11 DEF Resisting, Slow
    <3>2. QED
      BY <1>4, <3>1 DEF Abs
  <2>3. LookRung(b, 0)
    BY <1>3, <1>4, <1>5, <2>2, CalmIsARung, Zenon
  <2>4. CASE b.still <= 1
    <3>1. b.still \div 2 = 0
      BY <1>4, <2>4
    <3>2. QED
      BY <2>3, <3>1, Zenon
  <2>5. CASE b.still > 1
    <3>1. b.still = a.still + 1 /\ a.still >= 1
      BY <1>4, <1>9, <2>1, <2>5 DEF Candidate
    <3>2. Half(a, (a.still - 1) \div 2)
      BY <2>1, <3>1 DEF Climbing
    <3>3. LookRung(b, ((a.still - 1) \div 2) + 1)
      BY <2>2, <3>2, HalfToLook, Zenon
    <3>4. ((a.still - 1) \div 2) + 1 = b.still \div 2
      BY <1>4, <3>1
    <3>5. QED
      BY <3>3, <3>4, Zenon
  <2>6. QED
    BY <1>4, <2>4, <2>5
<1>12. QED
  BY <1>6, <1>8, <1>10, <1>11, Zenon DEF Climbing

----------------------------------------------------------------------------
LEMMA DepartsWithDuty ==
  ASSUME NEW error \in Int, error > 0, NEW j \in Int, j = Clamp(0 + 2 * error, -MaxIntegral, MaxIntegral),
         NEW d \in Int, Stands(d, error, j)
  PROVE  d >= DepartDuty
<1>1. j >= 0
  BY SMT DEF Clamp, MaxIntegral
<1>2. QED
  BY <1>1, SMT DEF Stands, Clamp, MaxDuty, DepartDuty

\* So does the first cycle of a command that an axis at rest takes.
LEMMA ClimbsFromRest ==
  ASSUME NEW a, Working(a), NEW next, Understood(next), NEW b, b = CycleOf(a, next), Active(b),
         MotionCommand(Sensed(a), next) # Sensed(a),
         a.state = "IDLE" => a.sampled /\ a.still = 0
  PROVE  Climbing(b)
<1>b. \E c, e, f : Stages(c, e, f, a, next)
  BY CyclePasses, Zenon
<1> PICK e, f : Stages(b, e, f, a, next)
  <2>1. PICK c, e, f : Stages(c, e, f, a, next)
    BY <1>b, Zenon
  <2>2. c = b
    BY <2>1, Zenon DEF Stages
  <2>3. QED
    BY <2>1, <2>2, Zenon
<1>c. /\ e = Sensed(a) /\ f = MotionCommand(e, next)
      /\ Sound(e) /\ Watched(e) /\ Supervises(e, a)
      /\ Sound(f) /\ Watched(f) /\ f.plant = e.plant
      /\ f.state = "HOMING" /\ f.homeContact => AtMin(f.plant)
      /\ f.fault = "NONE" => e.fault = "NONE" /\ Commanded(f, e, next)
      /\ e.fault = "NONE" => a.fault = "NONE" /\ e.state = a.state
  BY DEF Stages
<1>a. b = ControlUpdate(f) /\ b.plant = e.plant
  BY DEF Stages
<1>2. Sound(a) /\ Confined(a.plant) /\ Settled(a) /\ Watched(a)
  BY DEF Working, Settled
<1>3. Sound(b) /\ Confined(b.plant) /\ Settled(b)
  BY <1>2, CycleFollows, CycleSettles, Zenon
<1>4. Pursues(b, f)
  BY <1>a, <1>c, ControlUpdateWatches
<1>5. f.fault = "NONE" /\ b.fault = "NONE"
  BY <1>3, <1>4 DEF Pursues, Settled, Watched, Clear, Active
<1>6. /\ e.fault = "NONE" /\ f.duty = 0 /\ f.velocity = e.velocity
      /\ Starts(f, e, next) \/ Seeks(f, e, next)
  <2>1. e.fault = "NONE" /\ Commanded(f, e, next) /\ f # e
    BY <1>5, <1>c
  <2>2. ~Stops(f, e, next)
    BY <1>4 DEF Stops, Pursues, Active
  <2>3. QED
    BY <2>1, <2>2 DEF Commanded
<1>7. a.state = "IDLE" /\ a.sampled /\ a.still = 0
  <2>1. e.state = "IDLE"
    BY <1>6 DEF Starts, Seeks
  <2>2. QED
    BY <1>6, <1>c, <2>1
<1>8. e.still = 0
  <2>1. ~Opposed(a, b.plant)
    BY <1>7 DEF Opposed, Resisting
  <2>2. e.still = Candidate(a, b.plant)
    BY <1>6, <1>a, <1>c DEF Supervises
  <2>3. QED
    BY <1>7, <2>1, <2>2 DEF Candidate
<1>9. f.still = 0
  BY <1>6, <1>8 DEF Starts, Seeks
<1>10. /\ b.still = 0
       /\ b.homeContact /\ b.state = "MOVING" => f.homeContact
  <2>1. Noticed(f) = 0
    BY <1>6, RestNoticed
  <2>2. f.state = "HOMING" /\ f.homeContact => AtMin(f.plant)
    BY <1>c
  <2>3. b.fault = "NONE" =>
          /\ b.homeContact /\ b.state = "MOVING" => f.homeContact
          /\ b.still = IF f.state # "HOMING" /\ ~f.homeContact THEN f.still
                       ELSE IF f.state # "HOMING" \/ AtMin(f.plant) THEN Noticed(f) ELSE f.still
    BY <1>a, <1>c, <2>2, ControlUpdateJudges
  <2>4. QED
    BY <1>5, <1>9, <2>1, <2>3
<1>11. /\ b.duty \in Int /\ b.position \in Int /\ b.target \in Int /\ b.integral \in Int
       /\ b.velocity \in Int
  BY <1>3, Ranges DEF Sound, Typed
<1>12. b.velocity = 0 => -Calm <= b.plant.velocity /\ b.plant.velocity <= Calm
  <2>1. b.sampled
    BY <1>3 DEF Settled
  <2>2. QED
    BY <1>2, <1>7, <2>1, CalmAfter, Zenon
<1>13. ASSUME b.state = "MOVING"
       PROVE  /\ Stands(b.duty, b.target - b.position, b.integral)
              /\ b.homeContact => b.duty >= DepartDuty
  <2>1. Starts(f, e, next)
    BY <1>4, <1>6, <1>13 DEF Seeks, Pursues
  <2>2. /\ f.seeded /\ f.measured = e.position /\ f.position = e.position /\ f.integral = 0
        /\ f.homeContact => f.target > f.position
    BY <2>1 DEF Starts
  <2>3. Steered(b, f) /\ b.target = f.target /\ b.position = f.position
    BY <1>4, <1>13 DEF Pursues
  <2>4. b.position - b.position = 0
    BY <1>11
  <2>5. Derivative(f) = -150000 * (b.position - b.position)
    BY <2>2, <2>3 DEF Derivative
  <2> PICK error \in Int : error = b.target - b.position
    BY <1>11
  <2> PICK j \in Int : j = b.integral
    BY <1>11
  <2>6. /\ j = Clamp(0 + 2 * error, -MaxIntegral, MaxIntegral)
        /\ b.duty = Clamp(6000 * error + j + Derivative(f), -MaxDuty, MaxDuty)
    BY <2>2, <2>3 DEF Steered
  <2>7. Derivative(f) = 0
    BY <2>4, <2>5, SMT
  <2>8. 6000 * error + j + 0 = 6000 * error + j
    BY SMT
  <2>9. Stands(b.duty, error, j)
    BY <2>6, <2>7, <2>8, SMT DEF Stands
  <2>10. ASSUME b.homeContact
         PROVE  b.duty >= DepartDuty
    <3>1. error > 0
      BY <1>10, <1>11, <1>13, <2>2, <2>3, <2>10
    <3>2. QED
      BY <1>11, <2>6, <2>9, <3>1, DepartsWithDuty
  <2>11. QED
    BY <2>9, <2>10
<1>14. Standing(b)
  BY <1>12, <1>13, Zenon DEF Standing
<1>15. ASSUME Resisting(b)
       PROVE  LookRung(b, b.still \div 2)
  <2>1. b.velocity = 0
    <3>1. Abs(b.velocity) * 100 <= 25
      BY <1>15 DEF Resisting, Slow
    <3>2. QED
      BY <1>11, <3>1 DEF Abs
  <2>2. LookRung(b, 0)
    BY <1>3, <1>11, <1>12, <2>1, CalmIsARung, Zenon
  <2>3. b.still \div 2 = 0
    BY <1>10
  <2>4. QED
    BY <2>2, <2>3, Zenon
<1>16. ~(b.still >= 1)
  BY <1>10
<1>17. QED
  BY <1>10, <1>13, <1>14, <1>15, <1>16, Zenon DEF Climbing

----------------------------------------------------------------------------
(***************************************************************************)
(* No stall is seen.                                                       *)
(***************************************************************************)
LEMMA ResistingPushes ==
  ASSUME NEW a, Sound(a), Settled(a), Standing(a), Resisting(a)
  PROVE  Turn(Forth(a), a.duty) >= StallDuty
<1>1. /\ a.position \in Int /\ a.target \in Int /\ a.integral \in Int /\ a.duty \in Int
      /\ -MaxIntegral <= a.integral /\ a.integral <= MaxIntegral /\ a.velocity \in Int
  BY Ranges DEF Sound, Typed
<1>2. a.velocity = 0 /\ Abs(a.duty) >= StallDuty
  <2>1. Abs(a.velocity) * 100 <= 25
    BY DEF Resisting, Slow
  <2>2. QED
    BY <1>1, <2>1 DEF Abs, Resisting
<1>3. CASE a.state = "MOVING"
  <2> PICK e \in Int : e = a.target - a.position
    BY <1>1
  <2>1. Forth(a) = (e > 0)
    BY <1>1, <1>3 DEF Forth
  <2>2. Stands(a.duty, e, a.integral)
    BY <1>2, <1>3 DEF Standing
  <2>3. Turn(e > 0, a.duty) >= StallDuty
    BY <1>1, <1>2, <2>2, PushesForth, Zenon
  <2>4. QED
    BY <2>1, <2>3, Zenon
<1>4. CASE a.state = "HOMING"
  <2>1. Turn(Forth(a), a.duty) = -HomingDuty
    BY <1>4, Zenon DEF Forth, Turn, Settled
  <2>2. StallDuty >= StallDuty
    BY SMT DEF StallDuty
  <2>3. QED
    BY <2>1, <2>2, HomingPushes, Zenon
<1>5. QED
  BY <1>3, <1>4 DEF Resisting

\* A working axis is never told that it does not move.
LEMMA NoStallCycle ==
  ASSUME NEW a, Working(a), NEW next, Understood(next), NEW b, b = CycleOf(a, next),
         a.fault # "NO_MOTION", a.fault = "NONE" /\ Active(a) => Climbing(a)
  PROVE  b.fault # "NO_MOTION"
<1> SUFFICES ASSUME b.fault = "NO_MOTION" PROVE FALSE
  OBVIOUS
<1>b. \E c, e, f : Stages(c, e, f, a, next)
  BY CyclePasses, Zenon
<1> PICK e, f : Stages(b, e, f, a, next)
  <2>1. PICK c, e, f : Stages(c, e, f, a, next)
    BY <1>b, Zenon
  <2>2. c = b
    BY <2>1, Zenon DEF Stages
  <2>3. QED
    BY <2>1, <2>2, Zenon
<1>c. /\ e = Sensed(a) /\ f = MotionCommand(e, next) /\ b = ControlUpdate(f)
      /\ Sound(e) /\ Watched(e) /\ Supervises(e, a)
      /\ Sound(f) /\ Watched(f) /\ f.plant = e.plant /\ b.plant = e.plant
      /\ f.state = "HOMING" /\ f.homeContact => AtMin(f.plant)
      /\ f.fault = "NONE" => e.fault = "NONE" /\ Commanded(f, e, next)
      /\ e.fault = "NONE" => a.fault = "NONE" /\ e.state = a.state
                             /\ (e.homeContact => a.homeContact)
      /\ f.fault = "NO_MOTION" => e.fault = "NO_MOTION"
  BY DEF Stages
<1>2. Sound(a) /\ Confined(a.plant) /\ Settled(a) /\ Watched(a) /\ Guarded(a)
  BY DEF Working, Settled
<1>3. a.still \in Nat /\ a.even \in BOOLEAN
  BY <1>2 DEF Sound, Typed
<1>4. f.fault = "NO_MOTION" \/ (f.homeContact /\ Noticed(f) > StallTimeout)
  BY <1>c, ControlUpdateJudges
<1>5. CASE f.fault = "NO_MOTION"
  <2>1. /\ a.fault = "NONE" /\ ~a.even /\ Opposed(a, b.plant) /\ a.still >= StallTimeout
        /\ ~AtMax(b.plant) /\ (AtMin(b.plant) => a.state = "HOMING" \/ a.homeContact)
    BY <1>5, <1>c DEF Supervises
  <2>2. Resisting(a) /\ Active(a) /\ ~(a.state = "HOMING" /\ AtMin(b.plant))
    BY <2>1 DEF Opposed, Resisting, Active
  <2>3. Standing(a) /\ LookRung(a, a.still \div 2)
    BY <2>1, <2>2 DEF Climbing
  <2> PICK forth \in BOOLEAN : forth = Forth(a)
    BY DEF Forth
  <2> PICK v, q, u, p, low, high, d :
        /\ v = Turn(forth, b.plant.velocity) /\ q = Turn(forth, b.plant.position)
        /\ u = Turn(forth, a.plant.velocity) /\ p = Turn(forth, a.plant.position)
        /\ low = Rear(forth, a.plant) /\ high = Front(forth, a.plant) /\ d = Turn(forth, a.duty)
    OBVIOUS
  <2>4. /\ Rides(v, q, u, p, low, high, d)
        /\ v \in Int /\ q \in Int /\ u \in Int /\ p \in Int /\ low \in Int /\ high \in Int
        /\ d \in Int
    BY TurnedRide, Zenon
  <2>5. d >= StallDuty
    BY <1>2, <2>2, <2>3, ResistingPushes, Zenon
  <2>6. ~(a.still \div 2 \in 0 .. 24)
    BY <1>3, <2>1 DEF StallTimeout
  <2>7. NearStop(u, p, high, 10)
    BY <2>3, <2>6, Zenon DEF LookRung
  <2>8. Held(v, q, high)
    BY <2>4, <2>5, <2>7, RideCloses, Zenon
  <2>9. Confined(b.plant) /\ SameTravel(b.plant, a.plant)
    BY WorkRides, Zenon
  <2>10. IF forth THEN AtMax(b.plant) ELSE AtMin(b.plant)
    BY <1>2, <2>8, <2>9, HeldIsAtEnd, Zenon
  <2>11. ~forth /\ a.state = "MOVING" /\ a.homeContact
    BY <2>1, <2>2, <2>10 DEF Active
  <2>12. a.target > a.position
    BY <1>2, <2>1, <2>11 DEF Guarded, Departing
  <2>13. QED
    BY <2>11, <2>12 DEF Forth
<1>6. CASE f.homeContact /\ Noticed(f) > StallTimeout
  <2>1. Resisting(f) /\ ~(f.state = "HOMING" /\ AtMin(f.plant))
    BY <1>6 DEF Noticed, StallTimeout
  <2>2. f.fault = "NONE" /\ f.state = "MOVING"
    BY <1>6, <1>c, <2>1 DEF Resisting, Watched, Clear
  <2>3. f.duty # 0
    BY <1>6, RestNoticed DEF StallTimeout
  <2>4. f = e /\ e.fault = "NONE"
    BY <1>c, <2>2, <2>3 DEF Commanded
  <2>5. a.fault = "NONE" /\ a.state = "MOVING" /\ a.homeContact /\ Active(a)
    BY <1>6, <1>c, <2>2, <2>4 DEF Active
  <2>6. a.still = 0
    BY <2>5 DEF Climbing
  <2>7. e.still = Candidate(a, e.plant)
    BY <1>c, <2>4 DEF Supervises
  <2>8. e.still <= 1
    BY <2>6, <2>7 DEF Candidate
  <2>9. Noticed(e) \in {0, 1}
    <3>1. e.still \in Nat
      BY <1>c DEF Sound, Typed
    <3>2. QED
      BY <2>8, <3>1 DEF Noticed
  <2>10. Noticed(e) > StallTimeout
    BY <1>6, <2>4
  <2>11. QED
    BY <2>9, <2>10 DEF StallTimeout
<1>7. QED
  BY <1>4, <1>5, <1>6

----------------------------------------------------------------------------
(***************************************************************************)
(* The invariant of a working axis.                                        *)
(***************************************************************************)
LadderInv ==
  ~OnBench /\ broken = "NONE" /\ HasRoom =>
    /\ Rooms(axis) /\ StopHolds(axis) /\ axis.fault # "NO_MOTION"
    /\ ~axis.sampled => rest <= PostCycles - 2
    /\ axis.fault = "NONE" =>
         /\ Ended(axis) /\ axis.still > 0 => rest = 0 \/ (rest = 1 /\ ~axis.even)
         /\ Active(axis) => Climbing(axis)

\* An axis at rest is sampled, and loses its candidate with the next look.
LEMMA RestCycle ==
  ASSUME NEW a, Working(a), Ended(a), NEW b, b = CycleOf(a, NoCommand)
  PROVE  /\ b.sampled
         /\ b.fault = "NONE" /\ b.still > 0 => a.fault = "NONE" /\ a.still > 0 /\ a.even /\ ~b.even
<1>0. Understood(NoCommand)
  BY DEF Understood, NoCommand
<1>b. \E c, e, f : Stages(c, e, f, a, NoCommand)
  BY <1>0, CyclePasses, Zenon
<1> PICK e, f : Stages(b, e, f, a, NoCommand)
  <2>1. PICK c, e, f : Stages(c, e, f, a, NoCommand)
    BY <1>b, Zenon
  <2>2. c = b
    BY <2>1, Zenon DEF Stages
  <2>3. QED
    BY <2>1, <2>2, Zenon
<1>c. /\ e = Sensed(a) /\ f = MotionCommand(e, NoCommand)
      /\ Sound(e) /\ Watched(e) /\ Supervises(e, a)
      /\ e.fault = "NONE" => a.fault = "NONE" /\ e.state = a.state
  BY DEF Stages
<1>1. f = e
  BY <1>c DEF MotionCommand, NoCommand
<1>a. b = ControlUpdate(e) /\ (e.state = "HOMING" /\ e.homeContact => AtMin(e.plant))
  BY <1>1 DEF Stages
<1>2. Sound(a) /\ Confined(a.plant) /\ Settled(a) /\ Watched(a)
  BY DEF Working, Settled
<1>3. e.sampled /\ e.even = ~a.even
  BY <1>2, <1>c, SensedWatches
<1>4. ~Active(a) /\ ~Active(e)
  BY <1>c DEF Ended, Active, Watched, Clear
<1>5. b.sampled
  <2>1. b = MotionUpdate(e) \/ b = MotionUpdate(Checked(e))
    BY <1>4, <1>a DEF ControlUpdate, Active
  <2>2. MotionUpdate(e).sampled = e.sampled
    BY <1>c, MotionUpdateObeys DEF Obeys, Kept
  <2>3. Sound(Checked(e)) /\ Checked(e).sampled = e.sampled
    BY <1>c, CheckedObeys DEF Obeys, Kept
  <2>4. MotionUpdate(Checked(e)).sampled = Checked(e).sampled
    BY <2>3, MotionUpdateObeys DEF Obeys, Kept
  <2>5. QED
    BY <1>3, <2>1, <2>2, <2>3, <2>4
<1>6. ASSUME b.fault = "NONE", b.still > 0
      PROVE  a.fault = "NONE" /\ a.still > 0 /\ a.even /\ ~b.even
  <2>1. /\ e.fault = "NONE"
        /\ b.still = IF e.state # "HOMING" /\ ~e.homeContact THEN e.still
                     ELSE IF e.state # "HOMING" \/ AtMin(e.plant) THEN Noticed(e) ELSE e.still
    BY <1>6, <1>a, <1>c, ControlUpdateJudges
  <2>2. Noticed(e) = 0
    BY <1>4 DEF Noticed, Resisting, Active
  <2>3. b.still = e.still
    BY <1>6, <2>1, <2>2
  <2>4. e.still = Candidate(a, e.plant) /\ a.fault = "NONE"
    BY <1>c, <2>1 DEF Supervises
  <2>5. ~Opposed(a, e.plant)
    BY <1>4 DEF Opposed, Resisting, Active
  <2>6. a.still > 0 /\ a.even
    BY <1>6, <2>3, <2>4, <2>5 DEF Candidate
  <2>7. b.even = ~a.even
    BY <1>0, <1>2, CycleSettles
  <2>8. QED
    BY <2>4, <2>6, <2>7
<1>7. QED
  BY <1>5, <1>6

LEMMA LadderCycle ==
  ASSUME AxisInv, StuckInv, TravelInv, LadderInv, ~OnBench, broken = "NONE", HasRoom,
         NEW next, Understood(next), Advance(next), scenario' = scenario, broken' = broken,
         next = NoCommand \/ rest = PostCycles \/ Active(axis)
  PROVE  LadderInv'
<1> PICK a : a = axis
  OBVIOUS
<1> PICK b : b = axis'
  OBVIOUS
<1>1. b = CycleOf(a, next)
  BY DEF Advance, Cycled, CycleOf
<1>2. /\ Rooms(a) /\ StopHolds(a) /\ a.fault # "NO_MOTION"
      /\ ~a.sampled => rest <= PostCycles - 2
      /\ a.fault = "NONE" =>
           /\ Ended(a) /\ a.still > 0 => rest = 0 \/ (rest = 1 /\ ~a.even)
           /\ Active(a) => Climbing(a)
  BY DEF LadderInv
<1>3. Working(a)
  BY <1>2, AxisWorks
<1>4. Sound(a) /\ Confined(a.plant) /\ Settled(a) /\ Watched(a)
  BY <1>3 DEF Working, Settled
<1>5. Sound(b) /\ Settled(b)
  BY <1>1, <1>4, CycleFollows, CycleSettles
<1>6. a.still \in Nat /\ b.still \in Nat /\ PostCycles \in Nat /\ PostCycles > 2 /\ rest \in Int
  <2>1. a.still \in Nat /\ b.still \in Nat
    BY <1>4, <1>5 DEF Sound, Typed
  <2>2. PostCycles \in Nat /\ PostCycles > 2
    BY AxisAssumption
  <2>3. rest \in 0 .. PostCycles
    BY DEF AxisInv, Paced
  <2>4. QED
    BY <2>1, <2>2, <2>3
<1>7. Rooms(b)
  BY <1>1, <1>3, CycleMeasures
<1>8. StopHolds(b)
  BY <1>1, <1>3, WorkStops, Zenon DEF StopHolds
<1>9. b.fault # "NO_MOTION"
  BY <1>1, <1>2, <1>3, NoStallCycle
<1>10. rest' = IF Ended(b) /\ Ended(a) /\ next = NoCommand THEN rest + 1 ELSE 0
  BY DEF Advance
<1>11. Ended(a) /\ next = NoCommand =>
         /\ b.sampled
         /\ b.fault = "NONE" /\ b.still > 0 => a.fault = "NONE" /\ a.still > 0 /\ a.even /\ ~b.even
  BY <1>1, <1>3, RestCycle
<1>12. ~b.sampled => rest' <= PostCycles - 2
  BY <1>6, <1>10, <1>11
<1>13. b.fault = "NONE" /\ Ended(b) /\ b.still > 0 => rest' = 0 \/ (rest' = 1 /\ ~b.even)
  BY <1>2, <1>6, <1>10, <1>11
<1>14. ASSUME b.fault = "NONE", Active(b)
       PROVE  Climbing(b)
  <2>1. CASE MotionCommand(Sensed(a), next) = Sensed(a)
    <3>1. Unasked(a, next)
      BY <2>1 DEF Unasked
    <3>2. Active(a) /\ a.fault = "NONE"
      BY <1>1, <1>3, <1>14, <3>1, CycleGoesOn
    <3>3. QED
      BY <1>1, <1>2, <1>3, <1>14, <3>1, <3>2, ClimbsAlong
  <2>2. CASE MotionCommand(Sensed(a), next) # Sensed(a)
    <3>1. next # NoCommand
      BY <2>2 DEF MotionCommand, NoCommand
    <3>2. ASSUME a.state = "IDLE"
          PROVE  a.sampled /\ a.still = 0
      <4>1. rest = PostCycles
        BY <3>1, <3>2 DEF Active
      <4>2. a.fault = "NONE" /\ Ended(a)
        BY <1>4, <3>2 DEF Watched, Clear, Ended
      <4>3. QED
        BY <1>2, <1>6, <4>1, <4>2
    <3>3. QED
      BY <1>1, <1>3, <1>14, <2>2, <3>2, ClimbsFromRest
  <2>3. QED
    BY <2>1, <2>2
<1>15. Rooms(axis)'
  BY <1>7 DEF Rooms, Low, High
<1>16. QED
  BY <1>8, <1>9, <1>12, <1>13, <1>14, <1>15 DEF LadderInv

LEMMA InitLadder == Init => LadderInv
<1> SUFFICES ASSUME Init, HasRoom PROVE LadderInv
  BY DEF LadderInv
<1> DEFINE s == Scenarios[scenario]
           plant == [position |-> s.start * Unit, velocity |-> 0, min |-> s.min * Unit,
                     max |-> s.max * Unit]
           register == TrueCount(plant) % Word
           raw == [plant |-> plant, register |-> register, offset |-> 0, duty |-> 0,
                   state |-> "IDLE", fault |-> "NONE", position |-> 0, previous |-> 0,
                   velocity |-> 0, sampled |-> FALSE, target |-> 0, stable |-> 0, integral |-> 0,
                   measured |-> 0, seeded |-> FALSE, seek |-> 0, homed |-> FALSE,
                   homeContact |-> FALSE, still |-> 0, even |-> TRUE]
           offset == (s.shown - register) % Word
<1>1. axis = [raw EXCEPT !.offset = offset]
  BY DEF Init, Start, SetReference
<1>2. plant.velocity = 0
  OBVIOUS
<1>3. TrueCount(plant) = s.start /\ s.start \in Int /\ s.shown \in Int
  <2>1. scenario \in DOMAIN Scenarios
    BY DEF Init
  <2>2. s.start \in Int /\ s.shown \in Int
    BY <2>1, ScenarioFacts
  <2>3. s.start * Unit \in Int
    BY <2>2, SMT DEF Unit
  <2>4. Round(s.start * Unit, Unit) \in s.start .. s.start
    <3> PICK n \in Int : n = s.start
      BY <2>2
    <3>1. n * Unit <= n * Unit /\ n * Unit \in Int
      BY SMT DEF Unit
    <3>2. Round(n * Unit, Unit) \in n .. n
      BY <3>1, RoundBounds
    <3>3. QED
      BY <3>2
  <2>5. QED
    BY <2>2, <2>4 DEF TrueCount
<1>4. register = s.start % Word
  BY <1>3
<1> HIDE DEF plant, register, offset
<1>5. /\ axis.plant = plant /\ axis.fault = "NONE" /\ axis.still = 0
      /\ axis.state = "IDLE" /\ axis.offset = offset
  BY <1>1
<1>6. Rooms(axis)
  <2> PICK c \in Int : c = s.shown - s.start
    BY <1>3
  <2>1. offset = (s.shown - (s.start % Word)) % Word
    BY <1>4 DEF offset
  <2>2. offset = c % Word
    BY <1>3, <2>1, RemainderInSum, AxisAssumption
  <2>3. Low \in Int /\ High \in Int
    BY ScenarioFacts DEF Init
  <2>4. -(Word \div 2) < Low + c /\ High + c < Word \div 2
    <3> PICK half : half = Word \div 2
      OBVIOUS
    <3>1. half \in Int
      BY AxisAssumption
    <3>2. -half < s.shown - (s.start - Low) /\ s.shown + (High - s.start) < half
      BY DEF HasRoom, Low, High
    <3>3. QED
      BY <1>3, <2>3, <3>1, <3>2
  <2>5. QED
    BY <1>5, <2>2, <2>4 DEF Rooms
<1>7. StopHolds(axis)
  BY <1>2, <1>5 DEF StopHolds
<1>8. rest = PostCycles - 2
  BY DEF Init
<1>9. rest <= PostCycles - 2
  BY <1>8, AxisAssumption
<1>10. QED
  BY <1>5, <1>6, <1>7, <1>9 DEF LadderInv, Active

LEMMA NextLadder ==
  ASSUME AxisInv, StuckInv, TravelInv, LadderInv, [Next]_vars
  PROVE  LadderInv'
<1>1. CASE UNCHANGED vars
  BY <1>1 DEF vars, LadderInv, OnBench, HasRoom, Rooms, Low, High
<1>2. CASE Next /\ ~OnBench /\ (Wait \/ Issue \/ Stop)
  <2>1. scenario' = scenario /\ broken' = broken
    BY <1>2, StepAdvances
  <2>2. \E next : /\ Understood(next) /\ Advance(next)
                  /\ next = NoCommand \/ rest = PostCycles \/ Active(axis)
    <3>1. CASE Wait
      BY <3>1 DEF Wait, Understood, NoCommand
    <3>2. CASE Issue
      BY <3>2, StepAdvances DEF Issue
    <3>3. CASE Stop
      BY <3>3, StepAdvances DEF Stop, Active
    <3>4. QED
      BY <1>2, <3>1, <3>2, <3>3
  <2>3. CASE broken = "NONE" /\ HasRoom
    BY <1>2, <2>1, <2>2, <2>3, LadderCycle
  <2>4. CASE ~(broken = "NONE" /\ HasRoom)
    BY <2>1, <2>4 DEF LadderInv, HasRoom
  <2>5. QED
    BY <2>3, <2>4
<1>3. CASE \E kind \in {"STALLED", "FROZEN"} : Break(kind)
  BY <1>3 DEF Break, LadderInv
<1>4. CASE OnBench /\ (Bench \/ Place)
  BY <1>4 DEF Bench, Place, LadderInv, OnBench
<1>5. QED
  BY <1>1, <1>2, <1>3, <1>4 DEF Next

----------------------------------------------------------------------------
(***************************************************************************)
(* The theorems.                                                           *)
(***************************************************************************)
LEMMA InvIsTyped == AxisInv => TypeOK
<1> SUFFICES ASSUME AxisInv PROVE TypeOK
  OBVIOUS
<1>1. /\ axis.plant.position \in axis.plant.min .. axis.plant.max
      /\ axis.plant.velocity \in -MaxVelocity .. MaxVelocity
  BY DEF AxisInv, OnTravel, Confined, PlantRecord
<1>2. /\ axis.register \in 0 .. Word - 1 /\ axis.offset \in 0 .. Word - 1
      /\ axis.state \in AxisStates /\ axis.stable \in 0 .. DwellCycles
      /\ axis.integral \in -MaxIntegral .. MaxIntegral
  BY DEF AxisInv, Sound, Typed
<1>3. command # "NONE" => axis.duty \in -MaxDuty .. MaxDuty
  BY DEF AxisInv, InCharge
<1>4. /\ broken \in {"NONE", "STALLED", "FROZEN"} /\ since \in 0 .. Patience
      /\ rest \in 0 .. PostCycles
  BY DEF AxisInv, Paced
<1>5. metrics.age \in 0 .. AgeLimit + PostCycles
  <2>1. AgeLimit \in Nat /\ PostCycles \in Nat /\ PostCycles > 2
    BY AgeLimitType, AxisAssumption
  <2>2. metrics.age \in Nat /\ metrics.age <= AgeLimit + rest
    BY DEF AxisInv, Paced
  <2> HIDE DEF AgeLimit
  <2>3. QED
    BY <1>4, <2>1, <2>2
<1>6. QED
  BY <1>1, <1>2, <1>3, <1>4, <1>5 DEF TypeOK

\* A homed axis that works reports its distance from the switch.
LEMMA InvKnowsReference == AxisInv => ReferenceIsTrue
<1> SUFFICES ASSUME AxisInv, axis.homed, broken = "NONE"
             PROVE  GetCount(axis) = TrueCount(axis.plant) - Round(axis.plant.min, Unit)
  BY DEF ReferenceIsTrue
<1>1. Low \in Int /\ High \in Int /\ High - Low < Word \div 2 /\ Word \div 2 \in Int
  BY ScenarioFacts, AxisAssumption DEF AxisInv, OnTravel
<1> DEFINE count == TrueCount(axis.plant)
<1>2. count \in Low .. High /\ Round(axis.plant.min, Unit) = Low
  BY <1>1, CountOnTravel DEF AxisInv, OnTravel
<1>3. GetCount(axis) = Signed(((count % Word) + ((0 - (Low % Word)) % Word)) % Word)
  BY <1>2 DEF AxisInv, Measured, GetCount
<1> HIDE DEF count
<1>4. count \in Int /\ Low <= count /\ count - Low < Word \div 2
  BY <1>1, <1>2
<1>5. GetCount(axis) = count - Low
  BY <1>1, <1>3, <1>4, DistanceIsTrue
<1>6. QED
  BY <1>2, <1>5 DEF count

\* For every register width and every scenario whose travel is less than half of
\* it, the axis stays on its travel, and speed, duty, integral, dwell and the
\* driver's clock stay within their limits.
THEOREM AxisIsTyped == Spec => []TypeOK
BY Invariant, InvIsTyped, PTL

\* For every register width, travel and start, whatever wraps and whenever homing
\* sets a new reference: a working axis' velocity estimate is its true
\* displacement over the cycle, and its count after homing the true distance from
\* the switch.
THEOREM EstimateStaysTrue == Spec => EstimateIsTrue
<1>1. AxisInv /\ [Next]_vars => [EstimatorIsTrue]_axis
  BY NextKeeps
<1>2. Spec => [][ReferenceIsTrue' /\ EstimatorIsTrue]_axis
  BY <1>1, Invariant, InvKnowsReference, PTL DEF Spec
<1>3. QED
  BY <1>2 DEF EstimateIsTrue

\* In every scenario, whenever mechanics or encoder fail: a seek, and a move whose
\* error asks for the qualifying duty, is over after 102 cycles.  These are 50 in
\* which the integral may still work against an error of 50 counts, 2 of Safety's
\* period and the 50 of the stall timeout.  (A seek has no integral and is over
\* after 53.)
THEOREM StallsAreCaught ==
  ASSUME Patience >= 103
  PROVE  Spec => []StuckIsCaught
<1>1. AxisInv /\ StuckInv /\ [Next]_vars => AxisInv' /\ StuckInv'
  BY NextKeeps, NextStuck
<1>2. AxisInv /\ StuckInv => StuckIsCaught
  BY StuckEnds
<1>3. QED
  BY <1>1, <1>2, InitInv, InitStuck, PTL DEF Spec

LEMMA TravelHolds == Spec => [](AxisInv /\ StuckInv /\ TravelInv)
<1>1. AxisInv /\ StuckInv /\ TravelInv /\ [Next]_vars => AxisInv' /\ StuckInv' /\ TravelInv'
  BY NextKeeps, NextStuck, NextTravels
<1>2. QED
  BY <1>1, InitInv, InitStuck, InitTravels, PTL DEF Spec

\* Whatever the travel of at most 5600 counts, the speed at which a seek begins and
\* the commands around it: a working axis is never told that homing timed out.
THEOREM SeeksAreInTime == Spec => []SeekIsInTime
<1>1. TravelInv => SeekIsInTime
  BY DEF TravelInv, SeekIsInTime
<1>2. QED
  BY <1>1, TravelHolds, PTL

\* Working or failing, in every scenario: homing never gets to report the positive
\* switch as an error of its own, for the seek's check latches POSITIVE_LIMIT first.
THEOREM PositiveSwitchIsSafetys == Spec => []SwitchIsSafetys
<1>1. TravelInv => SwitchIsSafetys
  BY DEF TravelInv, SwitchIsSafetys
<1>2. QED
  BY <1>1, TravelHolds, PTL

\* Working or failing, in every scenario: as long as the home switch is guarded, a
\* move's PID output, integral and derivative included, never drives back into it.
THEOREM DeparturesPushOff == Spec => []DeparturePushesOff
<1>1. StuckInv /\ TravelInv => DeparturePushesOff
  BY DEF StuckInv, Settled, Watched, Clear, TravelInv, Guarded, Departing, DeparturePushesOff
<1>2. QED
  BY <1>1, TravelHolds, PTL

LEMMA LadderHolds == Spec => [](AxisInv /\ StuckInv /\ TravelInv /\ LadderInv)
<1>1. AxisInv /\ StuckInv /\ TravelInv /\ LadderInv /\ [Next]_vars
        => AxisInv' /\ StuckInv' /\ TravelInv' /\ LadderInv'
  BY NextKeeps, NextStuck, NextTravels, NextLadder
<1>2. QED
  BY <1>1, InitInv, InitStuck, InitTravels, InitLadder, PTL DEF Spec

LEMMA BenchIsStill == AxisInv /\ StuckInv /\ OnBench => axis.fault = "NONE"
<1>1. QED
  BY DEF StuckInv, Settled, Watched, Clear

\* Whatever a plan asks of a working axis on a travel the register can count, however it
\* starts, brakes, turns round or creeps: Safety never latches NO_MOTION.
THEOREM NoStallIsFalse == Spec => []NoFalseStall
<1>1. AxisInv /\ StuckInv /\ LadderInv => NoFalseStall
  BY BenchIsStill DEF LadderInv, NoFalseStall
<1>2. QED
  BY <1>1, LadderHolds, PTL

\* What Safety supervises of the axis is right in every scenario, whatever is asked
\* of it and whenever it fails: the five statements above together.
THEOREM SupervisionStaysRight ==
  ASSUME Patience >= 103
  PROVE  Spec => []SupervisionIsRight
<1>1. StuckIsCaught /\ NoFalseStall /\ SeekIsInTime /\ SwitchIsSafetys /\ DeparturePushesOff
        => SupervisionIsRight
  BY DEF SupervisionIsRight
<1>2. QED
  BY <1>1, StallsAreCaught, NoStallIsFalse, SeeksAreInTime, PositiveSwitchIsSafetys,
     DeparturesPushOff, PTL
=============================================================================
