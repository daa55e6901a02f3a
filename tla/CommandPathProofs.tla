------------------------- MODULE CommandPathProofs -------------------------
(***************************************************************************)
(* Theorems about the command path, for every size of the queues, batch,   *)
(* burst and cycle: no frame is left without a wake-up, every frame is     *)
(* accounted for, and a queued command waits a bounded number of cycles.   *)
(***************************************************************************)
EXTENDS CommandPath, SequenceTheorems, TLAPS

\* Communications sleeps its one tick only with its own notification pending.
SleepsOnNotice == comms.at = "sleep" => notices > 0

\* A command's cycles and its place in the queue add up: every cycle that it
\* waited through has taken CommandsPerCycle commands from in front of it.
Progress ==
  /\ motion.at = "blocked" => motion.left = 0
  /\ \A i \in DOMAIN bus.queue :
       bus.queue[i].waited * CommandsPerCycle + i <= BusCapacity + motion.left

LEMMA AcceptedFits ==
  ASSUME TypeOK, NEW n \in Nat
  PROVE  /\ Room \in Nat /\ Accepted(n) \in 0 .. n
         /\ Len(rx) + Accepted(n) <= RxCapacity
         /\ Room > 0 /\ n > 0 => Accepted(n) > 0
         /\ Room = 0 => Accepted(n) = 0
<1>1. Len(rx) \in Nat /\ RxCapacity \in Nat /\ Len(rx) <= RxCapacity
  BY LenProperties, PathAssumption DEF TypeOK, RxOK
<1>2. QED
  BY <1>1 DEF Accepted, Room

\* What one burst does to the receive queue and its counters.
LEMMA OfferFacts ==
  ASSUME TypeOK, NEW n \in Nat, NEW kinds \in [1 .. n -> Kinds], Offer(kinds)
  PROVE  /\ arrived' = arrived + n /\ arrived' \in 0 .. MaxFrames
         /\ rx' \in Seq(Frames) /\ Len(rx') = Len(rx) + Accepted(n)
         /\ rxDrops' = rxDrops + n - Accepted(n)
<1> DEFINE new == [i \in 1 .. Accepted(n) |-> [id |-> arrived + i, kind |-> kinds[i]]]
<1>1. Len(kinds) = n /\ kinds \in Seq(Kinds)
  BY SeqDef, LenProperties
<1>2. arrived' = arrived + n /\ arrived + n <= MaxFrames
      /\ rx' = rx \o new /\ rxDrops' = rxDrops + n - Accepted(n)
  BY <1>1 DEF Offer
<1>3. arrived \in Nat /\ MaxFrames \in Nat /\ Accepted(n) \in 0 .. n
  BY AcceptedFits, PathAssumption DEF TypeOK, RxOK
<1>4. new \in [1 .. Accepted(n) -> Frames]
  BY <1>2, <1>3 DEF Frames
<1>5. new \in Seq(Frames) /\ Len(new) = Accepted(n)
  <2>1. new \in Seq(Frames)
    BY <1>3, <1>4, SeqDef
  <2>2. DOMAIN new = 1 .. Accepted(n) /\ DOMAIN new = 1 .. Len(new) /\ Len(new) \in Nat
    BY <2>1, LenProperties
  <2>3. QED
    BY <1>3, <2>1, <2>2
<1> HIDE DEF new
<1>6. rx \o new \in Seq(Frames) /\ Len(rx \o new) = Len(rx) + Len(new)
  <2>1. rx \in Seq(Frames)
    BY DEF TypeOK, RxOK
  <2>2. QED
    BY <1>5, <2>1, ConcatProperties
<1>7. QED
  BY <1>2, <1>3, <1>5, <1>6

\* What a critical section of the bus does to it.
LEMMA SendFacts ==
  ASSUME TypeOK, NEW e \in Entries, NEW b, b = BusSend(bus, e)
  PROVE  /\ b \in BusRecords /\ Len(b.queue) <= BusCapacity
         /\ b.received = bus.received
         /\ \/ /\ b.queue = Append(bus.queue, e) /\ Len(b.queue) = Len(bus.queue) + 1
               /\ b.sent = bus.sent + 1 /\ b.rejected = bus.rejected
            \/ /\ b.queue = bus.queue
               /\ b.sent = bus.sent /\ b.rejected = bus.rejected + 1
<1>1. /\ bus \in BusRecords /\ bus.queue \in Seq(Entries) /\ bus.highWater \in 0 .. BusCapacity
      /\ bus.sent \in Nat /\ bus.rejected \in Nat /\ bus.received \in Nat
      /\ Len(bus.queue) <= BusCapacity
  BY DEF TypeOK, BusOK, BusRecords
<1>2. Len(bus.queue) \in Nat /\ BusCapacity \in Nat
  BY <1>1, LenProperties, PathAssumption
<1>3. CASE Len(bus.queue) < BusCapacity
  <2> DEFINE q == Append(bus.queue, e)
             h == Greater(bus.highWater, Len(bus.queue) + 1)
  <2>1. b = [bus EXCEPT !.queue = q, !.sent = bus.sent + 1, !.highWater = h]
    BY <1>3 DEF BusSend
  <2>2. q \in Seq(Entries) /\ Len(q) = Len(bus.queue) + 1
    BY <1>1, AppendProperties
  <2>3. h \in 0 .. BusCapacity
    BY <1>1, <1>2, <1>3 DEF Greater
  <2> HIDE DEF q, h
  <2>4. /\ b \in BusRecords /\ b.queue = q /\ b.sent = bus.sent + 1
        /\ b.rejected = bus.rejected /\ b.received = bus.received
    <3>1. b = [queue |-> q, sent |-> bus.sent + 1, received |-> bus.received,
               rejected |-> bus.rejected, highWater |-> h]
      BY <1>1, <2>1 DEF BusRecords
    <3>2. bus.sent + 1 \in Nat
      BY <1>1
    <3>3. QED
      BY <1>1, <2>2, <2>3, <3>1, <3>2 DEF BusRecords
  <2>5. Len(b.queue) <= BusCapacity /\ Len(b.queue) = Len(bus.queue) + 1
    BY <1>2, <1>3, <2>2, <2>4
  <2>6. QED
    BY <2>4, <2>5 DEF q
<1>4. CASE ~(Len(bus.queue) < BusCapacity)
  <2>1. b = [bus EXCEPT !.rejected = bus.rejected + 1]
    BY <1>4 DEF BusSend
  <2>2. QED
    BY <1>1, <2>1 DEF BusRecords
<1>5. QED
  BY <1>3, <1>4

LEMMA OlderFacts ==
  ASSUME NEW q \in Seq(Entries)
  PROVE  /\ Older(q) \in Seq(Entries) /\ Len(Older(q)) = Len(q)
         /\ \A i \in 1 .. Len(q) : Older(q)[i].waited = q[i].waited + 1
<1>1. Len(q) \in Nat /\ DOMAIN q = 1 .. Len(q) /\ \A i \in 1 .. Len(q) : q[i] \in Entries
  BY LenProperties, ElementOfSeq
<1>2. Older(q) \in [1 .. Len(q) -> Entries]
  BY <1>1 DEF Older, Entries
<1>3. Older(q) \in Seq(Entries)
  BY <1>1, <1>2, SeqDef
<1>4. Len(Older(q)) = Len(q)
  <2>1. DOMAIN Older(q) = 1 .. Len(Older(q)) /\ Len(Older(q)) \in Nat
    BY <1>3, LenProperties
  <2>2. QED
    BY <1>1, <1>2, <2>1
<1>5. QED
  BY <1>1, <1>3, <1>4 DEF Older

----------------------------------------------------------------------------
(***************************************************************************)
(* Type correctness, one action after the other.                           *)
(***************************************************************************)
LEMMA InitType == Init => TypeOK
<1> SUFFICES ASSUME Init PROVE TypeOK
  OBVIOUS
<1>1. /\ Batch \in Nat /\ CommandsPerCycle \in Nat /\ RxCapacity \in Nat /\ BusCapacity \in Nat
      /\ MaxFrames \in Nat
  BY PathAssumption
<1>2. <<>> \in Seq(Frames) /\ <<>> \in Seq(Entries) /\ Len(<<>>) = 0
  BY EmptySeq
<1>3. RxOK /\ NoticesOK /\ HistoryOK
  <2>1. rx \in Seq(Frames) /\ Len(rx) = 0 /\ answered \in Seq(Frames)
    BY <1>2 DEF Init
  <2>2. /\ arrived = 0 /\ rxDrops = 0 /\ notices = 0 /\ errors = 0
        /\ harness = FALSE /\ acked = {}
    BY DEF Init
  <2>3. NoticesOK /\ HistoryOK
    BY <2>1, <2>2 DEF NoticesOK, HistoryOK
  <2>4. arrived \in 0 .. MaxFrames /\ Len(rx) <= RxCapacity
    BY <1>1, <2>1, <2>2
  <2>5. RxOK
    BY <2>1, <2>2, <2>4 DEF RxOK
  <2>6. QED
    BY <2>3, <2>5
<1>4. CommsOK /\ MotionOK
  BY <1>1 DEF Init, CommsOK, MotionOK
<1>5. BusOK
  BY <1>1, <1>2 DEF Init, EmptyBus, BusRecords, BusOK
<1>6. QED
  BY <1>3, <1>4, <1>5 DEF TypeOK

\* A burst is well typed, whoever offers it.
LEMMA OfferType ==
  ASSUME TypeOK, NEW n \in Nat, NEW kinds \in [1 .. n -> Kinds], Offer(kinds),
         errors' = errors, harness' \in BOOLEAN
  PROVE  RxOK'
<1>1. /\ rxDrops \in Nat /\ errors \in Nat
  BY DEF TypeOK, RxOK
<1>2. /\ arrived' \in 0 .. MaxFrames
      /\ rx' \in Seq(Frames) /\ Len(rx') = Len(rx) + Accepted(n)
      /\ rxDrops' = rxDrops + n - Accepted(n)
  BY OfferFacts
<1>3. Accepted(n) \in 0 .. n /\ Len(rx) + Accepted(n) <= RxCapacity
  BY AcceptedFits
<1>4. rxDrops' \in Nat
  BY <1>1, <1>2, <1>3
<1>5. QED
  BY <1>1, <1>2, <1>3, <1>4 DEF RxOK

LEMMA ArrivalType == TypeOK /\ (Interrupt \/ Submit \/ InputReady) => TypeOK'
<1> SUFFICES ASSUME TypeOK, Interrupt \/ Submit \/ InputReady PROVE TypeOK'
  OBVIOUS
<1>1. UNCHANGED <<comms, bus, motion, acked, answered, errors>>
  BY DEF Interrupt, Submit, InputReady
<1>2. CommsOK' /\ BusOK' /\ MotionOK' /\ HistoryOK'
  BY <1>1 DEF TypeOK, CommsOK, BusOK, MotionOK, HistoryOK
<1>3. NoticesOK'
  BY DEF Interrupt, Submit, InputReady, Give, TypeOK, NoticesOK
<1>4. RxOK'
  <2> harness \in BOOLEAN
    BY DEF TypeOK, RxOK
  <2>1. CASE Interrupt
    <3>1. PICK n \in 1 .. BurstMax : \E kinds \in [1 .. n -> Kinds] : Offer(kinds)
      BY <2>1 DEF Interrupt
    <3>2. n \in Nat /\ harness' = harness
      BY <2>1 DEF Interrupt
    <3>3. QED
      BY <1>1, <3>1, <3>2, OfferType
  <2>2. CASE Submit
    <3>1. PICK kind \in Kinds : Offer(<<kind>>)
      BY <2>2 DEF Submit
    <3>2. <<kind>> \in [1 .. 1 -> Kinds] /\ harness' = TRUE
      BY <2>2 DEF Submit
    <3>3. QED
      BY <1>1, <3>1, <3>2, OfferType
  <2>3. CASE InputReady
    BY <2>3 DEF InputReady, TypeOK, RxOK
  <2>4. QED
    BY <2>1, <2>2, <2>3
<1>5. QED
  BY <1>2, <1>3, <1>4 DEF TypeOK

LEMMA CommsType == TypeOK /\ (CommsTask \/ TimeOut) => TypeOK'
<1> SUFFICES ASSUME TypeOK, CommsTask \/ TimeOut PROVE TypeOK'
  OBVIOUS
<1>1. UNCHANGED <<arrived, rxDrops, motion, harness, answered>>
  BY DEF CommsTask, TimeOut, Wake, Read, BatchDone, Refuse, Send, Ack, Check, SelfSignal,
         Rested, CommsIdle
<1>2. MotionOK'
  BY <1>1 DEF TypeOK, MotionOK
<1>3. NoticesOK'
  BY DEF CommsTask, TimeOut, Wake, Read, BatchDone, Refuse, Send, Ack, Check, SelfSignal,
         Rested, Give, TypeOK, NoticesOK
<1>4. RxOK'
  <2>1. rx' = rx \/ (rx # <<>> /\ rx' = Tail(rx))
    BY DEF CommsTask, TimeOut, Wake, Read, BatchDone, Refuse, Send, Ack, Check, SelfSignal,
           Rested
  <2>2. errors' = errors \/ errors' = errors + 1
    BY DEF CommsTask, TimeOut, Wake, Read, BatchDone, Refuse, Send, Ack, Check, SelfSignal,
           Rested
  <2>3. rx \in Seq(Frames) /\ Len(rx) <= RxCapacity
    BY DEF TypeOK, RxOK
  <2>4. rx' \in Seq(Frames) /\ Len(rx') <= RxCapacity
    <3>1. rx # <<>> => Tail(rx) \in Seq(Frames) /\ Len(Tail(rx)) = Len(rx) - 1
      BY <2>3, HeadTailProperties
    <3>2. Len(rx) \in Nat /\ RxCapacity \in Nat
      BY <2>3, LenProperties, PathAssumption
    <3>3. QED
      BY <2>1, <2>3, <3>1, <3>2
  <2>5. QED
    BY <1>1, <2>2, <2>4 DEF TypeOK, RxOK
<1>5. CommsOK'
  <2>1. Batch \in 0 .. Batch
    BY PathAssumption
  <2>2. CASE Read
    <3>1. Head(rx) \in Frames
      BY <2>2, HeadTailProperties DEF Read, TypeOK, RxOK
    <3>2. comms.left - 1 \in 0 .. Batch
      BY PathAssumption, <2>2 DEF Read, TypeOK, CommsOK
    <3>3. QED
      BY <2>2, <3>1, <3>2 DEF Read, CommsOK
  <2>3. CASE Wake \/ TimeOut
    BY <2>1, <2>3 DEF Wake, TimeOut, TypeOK, CommsOK
  <2>4. CASE BatchDone \/ Check \/ SelfSignal \/ Rested
    BY <2>4 DEF BatchDone, Check, SelfSignal, Rested, TypeOK, CommsOK
  <2>5. CASE Refuse \/ Send \/ Ack
    BY <2>5 DEF Refuse, Send, Ack, CommsAt, TypeOK, CommsOK
  <2>6. QED
    BY <2>2, <2>3, <2>4, <2>5 DEF CommsTask
<1>6. BusOK'
  <2>1. CASE bus' = bus
    BY <2>1 DEF TypeOK, BusOK
  <2>2. CASE Send
    <3> DEFINE e == [frame |-> comms.frame, waited |-> 0]
    <3>1. comms.frame \in Frames
      BY <2>2 DEF Send, CommsAt, TypeOK, CommsOK
    <3>2. e \in Entries
      BY <3>1 DEF Entries
    <3>3. bus' = BusSend(bus, e)
      BY <2>2 DEF Send
    <3> HIDE DEF e
    <3>4. QED
      BY <3>2, <3>3, SendFacts DEF BusOK
  <2>3. QED
    BY <2>1, <2>2 DEF CommsTask, TimeOut, Wake, Read, BatchDone, Refuse, Ack, Check,
                      SelfSignal, Rested
<1>7. HistoryOK'
  <2>1. CASE Ack
    <3>1. comms.frame.id \in 1 .. MaxFrames
      BY <2>1 DEF Ack, CommsAt, TypeOK, CommsOK, Frames
    <3>2. QED
      BY <1>1, <2>1, <3>1 DEF Ack, TypeOK, HistoryOK
  <2>2. CASE acked' = acked
    BY <1>1, <2>2 DEF TypeOK, HistoryOK
  <2>3. QED
    BY <2>1, <2>2 DEF CommsTask, TimeOut, Wake, Read, BatchDone, Refuse, Send, Check,
                      SelfSignal, Rested
<1>8. QED
  BY <1>2, <1>3, <1>4, <1>5, <1>6, <1>7 DEF TypeOK

LEMMA MotionType == TypeOK /\ (Release \/ Cycle) => TypeOK'
<1> SUFFICES ASSUME TypeOK, Release \/ Cycle PROVE TypeOK'
  OBVIOUS
<1>1. UNCHANGED <<arrived, rx, rxDrops, notices, comms, errors, harness, acked>>
  BY DEF Release, Cycle, Receive, Answer, Block, MotionOnly
<1>2. RxOK' /\ NoticesOK' /\ CommsOK'
  BY <1>1 DEF TypeOK, RxOK, NoticesOK, CommsOK
<1>3. CommandsPerCycle \in Nat \ {0} /\ BusCapacity \in Nat
  BY PathAssumption
<1>4. /\ bus \in BusRecords /\ bus.queue \in Seq(Entries)
      /\ Len(bus.queue) \in Nat /\ Len(bus.queue) <= BusCapacity /\ bus.received \in Nat
  <2>1. bus \in BusRecords /\ bus.queue \in Seq(Entries) /\ Len(bus.queue) <= BusCapacity
        /\ bus.received \in Nat
    BY DEF TypeOK, BusOK, BusRecords
  <2>2. QED
    BY <2>1, LenProperties
<1>5. bus.queue # <<>> => /\ Head(bus.queue) \in Entries /\ Tail(bus.queue) \in Seq(Entries)
                         /\ Len(Tail(bus.queue)) = Len(bus.queue) - 1
  BY <1>4, HeadTailProperties
<1>6. BusOK'
  <2>1. CASE Release
    <3> DEFINE q == Older(bus.queue)
    <3>1. q \in Seq(Entries) /\ Len(q) <= BusCapacity
      BY <1>4, OlderFacts
    <3>2. bus' = [bus EXCEPT !.queue = q]
      BY <2>1 DEF Release
    <3> HIDE DEF q
    <3>3. QED
      BY <1>4, <3>1, <3>2 DEF BusOK, BusRecords
  <2>2. CASE Receive
    <3> DEFINE q == Tail(bus.queue)
    <3>1. q \in Seq(Entries) /\ Len(q) <= BusCapacity
      BY <1>3, <1>4, <1>5, <2>2 DEF Receive
    <3>2. bus' = [bus EXCEPT !.queue = q, !.received = bus.received + 1]
      BY <2>2 DEF Receive, BusReceive
    <3>3. bus.received + 1 \in Nat
      BY <1>4
    <3> HIDE DEF q
    <3>4. bus' = [queue |-> q, sent |-> bus.sent, received |-> bus.received + 1,
                  rejected |-> bus.rejected, highWater |-> bus.highWater]
      BY <1>4, <3>2 DEF BusRecords
    <3>5. QED
      BY <1>4, <3>1, <3>3, <3>4 DEF BusOK, BusRecords
  <2>3. CASE Answer \/ Block
    BY <2>3 DEF Answer, Block, TypeOK, BusOK
  <2>4. QED
    BY <2>1, <2>2, <2>3 DEF Cycle
<1>7. MotionOK'
  <2>1. CASE Receive
    <3>1. Head(bus.queue).frame \in Frames /\ motion.left - 1 \in 0 .. CommandsPerCycle
      BY <1>3, <1>5, <2>1 DEF Receive, Entries, TypeOK, MotionOK
    <3>2. QED
      BY <2>1, <3>1 DEF Receive, MotionOK
  <2>2. CASE Release \/ Answer \/ Block
    <3>1. CommandsPerCycle \in 0 .. CommandsPerCycle /\ 0 \in 0 .. CommandsPerCycle
      BY <1>3
    <3>2. QED
      BY <2>2, <3>1 DEF Release, Answer, Block, TypeOK, MotionOK
  <2>3. QED
    BY <2>1, <2>2 DEF Cycle
<1>8. HistoryOK'
  <2>1. CASE Answer
    <3>1. motion.frame \in Frames /\ answered \in Seq(Frames)
      BY <2>1 DEF Answer, TypeOK, MotionOK, HistoryOK
    <3>2. Append(answered, motion.frame) \in Seq(Frames)
      BY <3>1, AppendProperties
    <3>3. QED
      BY <1>1, <2>1, <3>2 DEF Answer, TypeOK, HistoryOK
  <2>2. CASE answered' = answered
    BY <1>1, <2>2 DEF TypeOK, HistoryOK
  <2>3. QED
    BY <2>1, <2>2 DEF Release, Cycle, Receive, Block
<1>9. QED
  BY <1>2, <1>6, <1>7, <1>8 DEF TypeOK

LEMMA TypeStep == TypeOK /\ [Next]_vars => TypeOK'
<1>1. TypeOK /\ UNCHANGED vars => TypeOK'
  BY DEF vars, TypeOK, RxOK, NoticesOK, CommsOK, BusOK, MotionOK, HistoryOK
<1>2. QED
  BY <1>1, ArrivalType, CommsType, MotionType DEF Next

\* Every behaviour of the path is well typed: neither queue of input_host.c,
\* uart.c or command_bus.c ever holds more than its storage.
THEOREM PathTypeCorrect == Spec => []TypeOK
<1>1. QED
  BY InitType, TypeStep, PTL DEF Spec

----------------------------------------------------------------------------
(***************************************************************************)
(* The wake-up.                                                            *)
(***************************************************************************)
WakeInv == NoSleepOnInput /\ SleepsOnNotice

LEMMA ArrivalWakes ==
  ASSUME TypeOK, WakeInv, Interrupt \/ Submit \/ InputReady PROVE WakeInv'
<1>1. comms' = comms /\ notices \in Nat /\ harness \in BOOLEAN
  BY DEF Interrupt, Submit, InputReady, TypeOK, NoticesOK, RxOK
<1>2. CASE Interrupt
  <2>1. PICK n \in 1 .. BurstMax : \E kinds \in [1 .. n -> Kinds] : Offer(kinds)
    BY <1>2 DEF Interrupt
  <2>2. PICK kinds \in [1 .. n -> Kinds] : Offer(kinds)
    BY <2>1
  <2>3. n \in Nat /\ n > 0 /\ harness' = harness
    BY <1>2 DEF Interrupt
  <2>4. CASE Room > 0
    BY <1>1, <1>2, <2>4 DEF Interrupt, Give, WakeInv, NoSleepOnInput, SleepsOnNotice
  <2>5. CASE ~(Room > 0)
    <3>1. Room = 0 /\ Accepted(n) = 0
      BY <2>3, <2>5, AcceptedFits
    <3>2. rx # <<>>
      <4>1. Len(rx) > 0
        BY <3>1, PathAssumption DEF Room, TypeOK, RxOK
      <4>2. QED
        BY <4>1, EmptySeq
    <3>3. notices' = notices
      BY <1>2, <2>5 DEF Interrupt
    <3>4. QED
      BY <1>1, <2>3, <3>2, <3>3 DEF WakeInv, NoSleepOnInput, SleepsOnNotice
  <2>6. QED
    BY <2>4, <2>5
<1>3. CASE Submit
  BY <1>1, <1>3 DEF Submit, WakeInv, NoSleepOnInput, SleepsOnNotice
<1>4. CASE InputReady
  BY <1>1, <1>4 DEF InputReady, Give, WakeInv, NoSleepOnInput, SleepsOnNotice
<1>5. QED
  BY <1>2, <1>3, <1>4

LEMMA WakeStep == TypeOK /\ WakeInv /\ [Next]_vars => WakeInv'
<1> SUFFICES ASSUME TypeOK, WakeInv, [Next]_vars PROVE WakeInv'
  OBVIOUS
<1> notices \in Nat
  BY DEF TypeOK, NoticesOK
<1> USE DEF WakeInv, NoSleepOnInput, SleepsOnNotice
<1>1. CASE Interrupt \/ Submit \/ InputReady
  BY <1>1, ArrivalWakes
<1>2. CASE Wake \/ Read \/ BatchDone \/ Refuse \/ Send \/ Ack \/ TimeOut
  <2>1. comms \in [at: {"wait", "read", "parse", "ack", "check", "signal", "sleep"},
                   frame: Frames \cup {NoFrame}, left: 0 .. Batch]
    BY DEF TypeOK, CommsOK
  <2>2. comms'.at \in {"read", "parse", "ack", "check"}
    <3>1. CASE Wake \/ TimeOut
      BY <2>1, <3>1 DEF Wake, TimeOut
    <3>2. CASE Read \/ BatchDone
      BY <2>1, <3>2 DEF Read, BatchDone
    <3>3. CASE Refuse \/ Ack
      BY <2>1, <3>3 DEF Refuse, Ack
    <3>4. CASE Send
      BY <2>1, <3>4 DEF Send
    <3>5. QED
      BY <1>2, <3>1, <3>2, <3>3, <3>4
  <2>3. QED
    BY <2>2
\* The check and the wait: an empty queue needs no wake-up.
<1>3. CASE Check
  BY <1>3 DEF Check, CommsIdle, Pending, TypeOK, CommsOK
\* The signal outlives the sleep: nothing clears it before Wake.
<1>4. CASE SelfSignal
  BY <1>4 DEF SelfSignal, Give, TypeOK, CommsOK
<1>5. CASE Rested
  BY <1>5 DEF Rested, CommsAt, TypeOK, CommsOK
<1>6. CASE Release \/ Cycle
  BY <1>6 DEF Release, Cycle, Receive, Answer, Block, MotionOnly
<1>7. CASE UNCHANGED vars
  BY <1>7 DEF vars
<1>8. QED
  BY <1>1, <1>2, <1>3, <1>4, <1>5, <1>6, <1>7 DEF Next, CommsTask

\* comms_task.c never waits for input that is already queued without a wake-up
\* due, for every batch and every burst, and whether or not the wait times out.
THEOREM NoFrameLeftAsleep == Spec => []NoSleepOnInput
<1>1. Init => WakeInv
  BY DEF Init, WakeInv, NoSleepOnInput, SleepsOnNotice
<1>2. WakeInv => NoSleepOnInput
  BY DEF WakeInv
<1>3. QED
  BY <1>1, <1>2, InitType, TypeStep, WakeStep, PTL DEF Spec

----------------------------------------------------------------------------
(***************************************************************************)
(* The counters.                                                           *)
(***************************************************************************)
\* The frame in the hands of the parser, the command in the hands of Motion.
Parsing  == IF comms.at = "parse" THEN 1 ELSE 0
InAnswer == IF motion.at = "answer" THEN 1 ELSE 0

\* The three balances of CountersAgree.
SentAgree     == bus.sent = bus.received + Len(bus.queue)
ArrivedAgree  ==
  arrived = rxDrops + Len(rx) + Parsing + errors + bus.sent + bus.rejected
AnsweredAgree == bus.received = Len(answered) + InAnswer

LEMMA CountedFacts ==
  ASSUME TypeOK
  PROVE  /\ arrived \in Nat /\ rxDrops \in Nat /\ errors \in Nat
         /\ Len(rx) \in Nat /\ Len(bus.queue) \in Nat /\ Len(answered) \in Nat
         /\ bus.sent \in Nat /\ bus.received \in Nat /\ bus.rejected \in Nat
         /\ Parsing \in Nat /\ InAnswer \in Nat
<1>1. arrived \in Nat /\ rxDrops \in Nat /\ errors \in Nat
      /\ rx \in Seq(Frames) /\ answered \in Seq(Frames)
  BY PathAssumption DEF TypeOK, RxOK, HistoryOK
<1>2. /\ bus.queue \in Seq(Entries)
      /\ bus.sent \in Nat /\ bus.received \in Nat /\ bus.rejected \in Nat
  BY DEF TypeOK, BusOK, BusRecords
<1>3. Len(rx) \in Nat /\ Len(bus.queue) \in Nat /\ Len(answered) \in Nat
  BY <1>1, <1>2, LenProperties
<1>4. QED
  BY <1>1, <1>2, <1>3 DEF Parsing, InAnswer

LEMMA CountersStep ==
  TypeOK /\ SentAgree /\ ArrivedAgree /\ AnsweredAgree /\ [Next]_vars
    => SentAgree' /\ ArrivedAgree' /\ AnsweredAgree'
<1> SUFFICES ASSUME TypeOK, SentAgree, ArrivedAgree, AnsweredAgree, [Next]_vars
             PROVE  SentAgree' /\ ArrivedAgree' /\ AnsweredAgree'
  OBVIOUS
<1>1. /\ arrived \in Nat /\ rxDrops \in Nat /\ errors \in Nat
      /\ Len(rx) \in Nat /\ Len(bus.queue) \in Nat /\ Len(answered) \in Nat
      /\ bus.sent \in Nat /\ bus.received \in Nat /\ bus.rejected \in Nat
      /\ Parsing \in Nat /\ InAnswer \in Nat
  BY CountedFacts
<1>2. comms \in [at: {"wait", "read", "parse", "ack", "check", "signal", "sleep"},
                 frame: Frames \cup {NoFrame}, left: 0 .. Batch]
      /\ motion \in [at: {"blocked", "receive", "answer"}, frame: Frames \cup {NoFrame},
                     left: 0 .. CommandsPerCycle]
      /\ bus \in BusRecords /\ bus.queue \in Seq(Entries)
      /\ rx \in Seq(Frames) /\ answered \in Seq(Frames)
  BY DEF TypeOK, RxOK, CommsOK, MotionOK, HistoryOK, BusOK, BusRecords
<1> DEFINE Same == bus' = bus /\ motion' = motion /\ answered' = answered
<1>3. CASE Interrupt \/ Submit
  <2>1. PICK n \in Nat : \E kinds \in [1 .. n -> Kinds] : Offer(kinds)
    <3>1. CASE Interrupt
      BY <3>1 DEF Interrupt
    <3>2. CASE Submit
      <4>1. PICK kind \in Kinds : Offer(<<kind>>)
        BY <3>2 DEF Submit
      <4>2. <<kind>> \in [1 .. 1 -> Kinds] /\ 1 \in Nat
        OBVIOUS
      <4>3. QED
        BY <4>1, <4>2
    <3>3. QED
      BY <1>3, <3>1, <3>2
  <2>2. Same /\ comms' = comms /\ errors' = errors
    BY <1>3 DEF Interrupt, Submit
  <2>3. PICK m \in 0 .. n : /\ arrived' = arrived + n /\ Len(rx') = Len(rx) + m
                            /\ rxDrops' = rxDrops + n - m
    BY <2>1, OfferFacts, AcceptedFits
  <2>4. Parsing' = Parsing /\ InAnswer' = InAnswer
    BY <2>2 DEF Parsing, InAnswer
  <2>5. SentAgree'
    BY <1>1, <2>2, <2>3, <2>4 DEF SentAgree
  <2>6. ArrivedAgree'
    BY <1>1, <2>2, <2>3, <2>4 DEF ArrivedAgree
  <2>7. AnsweredAgree'
    BY <1>1, <2>2, <2>3, <2>4 DEF AnsweredAgree
  <2>8. QED
    BY <2>5, <2>6, <2>7
<1>4. CASE Read
  <2>1. Len(rx') = Len(rx) - 1
    BY <1>2, <1>4, HeadTailProperties DEF Read
  <2>2. comms.at = "read" /\ comms'.at = "parse" /\ Same
        /\ UNCHANGED <<arrived, rxDrops, errors>>
    BY <1>4 DEF Read, CommsAt, CommsIdle
  <2>3. Parsing = 0 /\ Parsing' = 1 /\ InAnswer' = InAnswer
    BY <2>2 DEF Parsing, InAnswer
  <2>4. SentAgree'
    BY <1>1, <2>1, <2>2, <2>3 DEF SentAgree
  <2>5. ArrivedAgree'
    BY <1>1, <2>1, <2>2, <2>3 DEF ArrivedAgree
  <2>6. AnsweredAgree'
    BY <1>1, <2>1, <2>2, <2>3 DEF AnsweredAgree
  <2>7. QED
    BY <2>4, <2>5, <2>6
<1>5. CASE Refuse
  <2>1. comms.at = "parse" /\ comms'.at = "read" /\ Same
        /\ errors' = errors + 1 /\ UNCHANGED <<arrived, rxDrops, rx>>
    BY <1>2, <1>5 DEF Refuse, CommsAt, CommsIdle
  <2>2. Parsing = 1 /\ Parsing' = 0 /\ InAnswer' = InAnswer
    BY <2>1 DEF Parsing, InAnswer
  <2>3. SentAgree'
    BY <1>1, <2>1, <2>2 DEF SentAgree
  <2>4. ArrivedAgree'
    BY <1>1, <2>1, <2>2 DEF ArrivedAgree
  <2>5. AnsweredAgree'
    BY <1>1, <2>1, <2>2 DEF AnsweredAgree
  <2>6. QED
    BY <2>3, <2>4, <2>5
<1>6. CASE Send
  <2> DEFINE e == [frame |-> comms.frame, waited |-> 0]
  <2>1. e \in Entries /\ bus' = BusSend(bus, e)
    BY <1>6 DEF Send, CommsAt, TypeOK, CommsOK, Entries
  <2>2. comms.at = "parse" /\ comms'.at # "parse"
        /\ UNCHANGED <<arrived, rxDrops, rx, errors, motion, answered>>
    BY <1>2, <1>6 DEF Send, CommsAt, CommsIdle
  <2> HIDE DEF e
  <2>3. bus'.received = bus.received
        /\ \/ /\ Len(bus'.queue) = Len(bus.queue) + 1
              /\ bus'.sent = bus.sent + 1 /\ bus'.rejected = bus.rejected
           \/ /\ Len(bus'.queue) = Len(bus.queue)
              /\ bus'.sent = bus.sent /\ bus'.rejected = bus.rejected + 1
    BY <2>1, SendFacts
  <2>4. Parsing = 1 /\ Parsing' = 0 /\ InAnswer' = InAnswer
    BY <2>2 DEF Parsing, InAnswer
  <2>5. SentAgree'
    BY <1>1, <2>2, <2>3, <2>4 DEF SentAgree
  <2>6. ArrivedAgree'
    BY <1>1, <2>2, <2>3, <2>4 DEF ArrivedAgree
  <2>7. AnsweredAgree'
    BY <1>1, <2>2, <2>3, <2>4 DEF AnsweredAgree
  <2>8. QED
    BY <2>5, <2>6, <2>7
<1>7. CASE Release
  <2>1. /\ bus'.queue = Older(bus.queue) /\ bus'.sent = bus.sent
        /\ bus'.received = bus.received /\ bus'.rejected = bus.rejected
        /\ motion.at = "blocked" /\ motion'.at = "receive" /\ answered' = answered
        /\ UNCHANGED <<arrived, rx, rxDrops, comms, errors>>
    BY <1>2, <1>7 DEF Release, MotionOnly, BusRecords
  <2>2. Len(bus'.queue) = Len(bus.queue)
    BY <1>2, <2>1, OlderFacts
  <2>3. Parsing' = Parsing /\ InAnswer = 0 /\ InAnswer' = 0
    BY <2>1 DEF Parsing, InAnswer
  <2>4. SentAgree'
    BY <1>1, <2>1, <2>2, <2>3 DEF SentAgree
  <2>5. ArrivedAgree'
    BY <1>1, <2>1, <2>2, <2>3 DEF ArrivedAgree
  <2>6. AnsweredAgree'
    BY <1>1, <2>1, <2>2, <2>3 DEF AnsweredAgree
  <2>7. QED
    BY <2>4, <2>5, <2>6
<1>8. CASE Receive
  <2>1. /\ bus'.queue = Tail(bus.queue) /\ bus.queue # <<>> /\ bus'.sent = bus.sent
        /\ bus'.received = bus.received + 1 /\ bus'.rejected = bus.rejected
        /\ motion.at = "receive" /\ motion'.at = "answer" /\ answered' = answered
        /\ UNCHANGED <<arrived, rx, rxDrops, comms, errors>>
    BY <1>2, <1>8 DEF Receive, BusReceive, MotionOnly, BusRecords
  <2>2. Len(bus'.queue) = Len(bus.queue) - 1
    BY <1>2, <2>1, HeadTailProperties
  <2>3. Parsing' = Parsing /\ InAnswer = 0 /\ InAnswer' = 1
    BY <2>1 DEF Parsing, InAnswer
  <2>4. SentAgree'
    BY <1>1, <2>1, <2>2, <2>3 DEF SentAgree
  <2>5. ArrivedAgree'
    BY <1>1, <2>1, <2>2, <2>3 DEF ArrivedAgree
  <2>6. AnsweredAgree'
    BY <1>1, <2>1, <2>2, <2>3 DEF AnsweredAgree
  <2>7. QED
    BY <2>4, <2>5, <2>6
<1>9. CASE Answer
  <2>1. motion.at = "answer" /\ motion'.at = "receive" /\ bus' = bus
        /\ UNCHANGED <<arrived, rx, rxDrops, comms, errors>>
    BY <1>2, <1>9 DEF Answer, MotionOnly
  <2>2. Len(answered') = Len(answered) + 1
    <3>1. motion.frame \in Frames /\ answered' = Append(answered, motion.frame)
      BY <1>9 DEF Answer, TypeOK, MotionOK
    <3>2. QED
      BY <1>2, <3>1, AppendProperties
  <2>3. Parsing' = Parsing /\ InAnswer = 1 /\ InAnswer' = 0
    BY <2>1 DEF Parsing, InAnswer
  <2>4. SentAgree'
    BY <1>1, <2>1, <2>2, <2>3 DEF SentAgree
  <2>5. ArrivedAgree'
    BY <1>1, <2>1, <2>2, <2>3 DEF ArrivedAgree
  <2>6. AnsweredAgree'
    BY <1>1, <2>1, <2>2, <2>3 DEF AnsweredAgree
  <2>7. QED
    BY <2>4, <2>5, <2>6
<1>10. CASE Block
  <2>1. UNCHANGED <<arrived, rx, rxDrops, comms, errors, bus, answered>>
        /\ motion.at = "receive" /\ motion'.at = "blocked"
    BY <1>2, <1>10 DEF Block, MotionOnly
  <2>2. Parsing' = Parsing /\ InAnswer = 0 /\ InAnswer' = 0
    BY <2>1 DEF Parsing, InAnswer
  <2>3. SentAgree'
    BY <1>1, <2>1, <2>2 DEF SentAgree
  <2>4. ArrivedAgree'
    BY <1>1, <2>1, <2>2 DEF ArrivedAgree
  <2>5. AnsweredAgree'
    BY <1>1, <2>1, <2>2 DEF AnsweredAgree
  <2>6. QED
    BY <2>3, <2>4, <2>5
<1>11. CASE Wake \/ TimeOut \/ BatchDone \/ Ack \/ Check \/ SelfSignal \/ Rested
  <2>1. Same /\ UNCHANGED <<arrived, rxDrops, rx, errors>>
    BY <1>11 DEF Wake, TimeOut, BatchDone, Ack, Check, SelfSignal, Rested, CommsIdle
  <2>2. comms.at # "parse" /\ comms'.at # "parse"
    BY <1>2, <1>11 DEF Wake, TimeOut, BatchDone, Ack, Check, SelfSignal, Rested, CommsAt
  <2>3. Parsing' = Parsing /\ InAnswer' = InAnswer
    BY <2>1, <2>2 DEF Parsing, InAnswer
  <2>4. SentAgree'
    BY <1>1, <2>1, <2>2, <2>3 DEF SentAgree
  <2>5. ArrivedAgree'
    BY <1>1, <2>1, <2>2, <2>3 DEF ArrivedAgree
  <2>6. AnsweredAgree'
    BY <1>1, <2>1, <2>2, <2>3 DEF AnsweredAgree
  <2>7. QED
    BY <2>4, <2>5, <2>6
<1>12. CASE InputReady \/ UNCHANGED vars
  <2>1. UNCHANGED <<arrived, rx, rxDrops, comms, errors, bus, motion, answered>>
    BY <1>12 DEF InputReady, vars
  <2>2. Parsing' = Parsing /\ InAnswer' = InAnswer
    BY <2>1 DEF Parsing, InAnswer
  <2>3. SentAgree'
    BY <1>1, <2>1, <2>2 DEF SentAgree
  <2>4. ArrivedAgree'
    BY <1>1, <2>1, <2>2 DEF ArrivedAgree
  <2>5. AnsweredAgree'
    BY <1>1, <2>1, <2>2 DEF AnsweredAgree
  <2>6. QED
    BY <2>3, <2>4, <2>5
<1>13. QED
  BY <1>3, <1>4, <1>5, <1>6, <1>7, <1>8, <1>9, <1>10, <1>11, <1>12
     DEF Next, CommsTask, Cycle

\* The counters of command_bus.c, input_host.c and protocol_errors agree at every
\* moment: a frame that arrived is queued, held, answered or counted, never both.
THEOREM FramesAreAccountedFor == Spec => []CountersAgree
<1>1. Init => CountersAgree
  BY EmptySeq DEF Init, EmptyBus, CountersAgree
<1>2. TypeOK /\ CountersAgree /\ [Next]_vars => CountersAgree'
  BY CountersStep DEF CountersAgree, SentAgree, ArrivedAgree, AnsweredAgree, Parsing, InAnswer
<1>3. QED
  BY <1>1, <1>2, InitType, TypeStep, PTL DEF Spec

----------------------------------------------------------------------------
(***************************************************************************)
(* The bounded wait.                                                       *)
(***************************************************************************)
LEMMA MoreCycles ==
  \A w, c \in Nat : (w + 1) * c = w * c + c /\ w * c \in Nat
OBVIOUS

LEMMA ProgressStep == TypeOK /\ Progress /\ [Next]_vars => Progress'
<1> SUFFICES ASSUME TypeOK, Progress, [Next]_vars PROVE Progress'
  OBVIOUS
<1>1. CommandsPerCycle \in Nat \ {0} /\ BusCapacity \in Nat \ {0}
  BY PathAssumption
<1>2. bus.queue \in Seq(Entries) /\ bus \in BusRecords /\ motion.left \in Nat
  BY DEF TypeOK, BusOK, BusRecords, MotionOK
<1>3. /\ Len(bus.queue) \in Nat /\ DOMAIN bus.queue = 1 .. Len(bus.queue)
      /\ \A i \in 1 .. Len(bus.queue) : bus.queue[i].waited \in Nat
  <2>1. \A i \in 1 .. Len(bus.queue) : bus.queue[i] \in Entries
    BY <1>2, ElementOfSeq
  <2>2. QED
    BY <1>2, <2>1, LenProperties DEF Entries
<1>4. CASE UNCHANGED <<bus, motion>>
  BY <1>4 DEF Progress
<1>5. CASE Send
  <2> DEFINE e == [frame |-> comms.frame, waited |-> 0]
  <2>1. e \in Entries /\ bus' = BusSend(bus, e) /\ motion' = motion /\ motion.left = 0
    BY <1>5 DEF Send, CommsAt, CommsIdle, TypeOK, CommsOK, Entries, Progress
  <2> HIDE DEF e
  <2>2. CASE bus'.queue = bus.queue
    BY <2>1, <2>2 DEF Progress
  <2>3. CASE bus'.queue = Append(bus.queue, e) /\ Len(bus'.queue) <= BusCapacity
    <3>1. /\ DOMAIN bus'.queue = 1 .. Len(bus.queue) + 1
          /\ Len(bus.queue) + 1 <= BusCapacity
          /\ \A i \in 1 .. Len(bus.queue) : bus'.queue[i] = bus.queue[i]
          /\ bus'.queue[Len(bus.queue) + 1] = e
      BY <1>2, <1>3, <2>1, <2>3, AppendProperties, LenProperties
    <3>2. ASSUME NEW i \in 1 .. Len(bus.queue) + 1
          PROVE  bus'.queue[i].waited * CommandsPerCycle + i <= BusCapacity + motion'.left
      <4>1. CASE i = Len(bus.queue) + 1
        <5>1. bus'.queue[i].waited = 0
          BY <3>1, <4>1 DEF e
        <5>2. QED
          BY <1>1, <1>3, <2>1, <3>1, <4>1, <5>1
      <4>2. CASE i # Len(bus.queue) + 1
        <5>1. i \in 1 .. Len(bus.queue)
          BY <1>3, <4>2
        <5>2. QED
          BY <1>3, <2>1, <3>1, <5>1 DEF Progress
      <4>3. QED
        BY <4>1, <4>2
    <3>3. QED
      BY <2>1, <3>1, <3>2 DEF Progress
  <2>4. QED
    BY <2>1, <2>2, <2>3, SendFacts
<1>6. CASE Release
  <2>1. /\ bus'.queue = Older(bus.queue)
        /\ motion.left = 0 /\ motion'.left = CommandsPerCycle /\ motion'.at = "receive"
    BY <1>2, <1>6 DEF Release, TypeOK, MotionOK, BusRecords, Progress
  <2>2. DOMAIN bus'.queue = 1 .. Len(bus.queue)
    BY <1>2, <1>3, <2>1, OlderFacts, LenProperties
  <2>3. ASSUME NEW i \in 1 .. Len(bus.queue)
        PROVE  bus'.queue[i].waited * CommandsPerCycle + i <= BusCapacity + motion'.left
    <3> DEFINE w == bus.queue[i].waited
    <3>1. bus'.queue[i].waited = w + 1 /\ w \in Nat
      BY <1>2, <1>3, <2>1, OlderFacts
    <3>2. w * CommandsPerCycle + i <= BusCapacity + motion.left
      BY <1>3 DEF Progress
    <3> HIDE DEF w
    <3>3. (w + 1) * CommandsPerCycle = w * CommandsPerCycle + CommandsPerCycle
          /\ w * CommandsPerCycle \in Nat
      <4>1. w \in Nat /\ CommandsPerCycle \in Nat
        BY <1>1, <3>1
      <4>2. QED
        BY <4>1, MoreCycles, Zenon
    <3> DEFINE p == w * CommandsPerCycle
    <3>4. (w + 1) * CommandsPerCycle = p + CommandsPerCycle /\ p \in Nat
          /\ p + i <= BusCapacity + motion.left
      BY <3>2, <3>3
    <3> HIDE DEF p
    <3>5. QED
      BY <1>1, <2>1, <3>1, <3>4
  <2>4. QED
    BY <2>1, <2>2, <2>3 DEF Progress
<1>7. CASE Receive
  <2>1. /\ bus'.queue = Tail(bus.queue) /\ bus.queue # <<>>
        /\ motion'.left = motion.left - 1 /\ motion'.at = "answer"
    BY <1>2, <1>7 DEF Receive, BusReceive, BusRecords
  <2>2. /\ DOMAIN bus'.queue = 1 .. Len(bus.queue) - 1
        /\ \A i \in 1 .. Len(bus.queue) - 1 : bus'.queue[i] = bus.queue[i + 1]
    BY <1>2, <2>1, HeadTailProperties, LenProperties
  <2>3. ASSUME NEW i \in 1 .. Len(bus.queue) - 1
        PROVE  bus'.queue[i].waited * CommandsPerCycle + i <= BusCapacity + motion'.left
    <3>1. i + 1 \in 1 .. Len(bus.queue) /\ bus'.queue[i].waited = bus.queue[i + 1].waited
      BY <1>3, <2>2
    <3> DEFINE p == bus.queue[i + 1].waited * CommandsPerCycle
    <3>2. p + (i + 1) <= BusCapacity + motion.left
      BY <1>3, <3>1 DEF Progress
    <3>3. p \in Nat /\ bus'.queue[i].waited * CommandsPerCycle = p
      <4>1. bus.queue[i + 1].waited \in Nat /\ CommandsPerCycle \in Nat
        BY <1>1, <1>3, <3>1
      <4>2. QED
        BY <3>1, <4>1, MoreCycles, Zenon
    <3> HIDE DEF p
    <3>4. p + i <= BusCapacity + (motion.left - 1)
      BY <1>1, <1>2, <1>3, <3>2, <3>3
    <3>5. QED
      BY <2>1, <3>3, <3>4
  <2>4. QED
    BY <2>1, <2>2, <2>3 DEF Progress
<1>8. CASE Answer
  BY <1>8 DEF Answer, TypeOK, MotionOK, Progress
<1>9. CASE Block
  <2>1. bus' = bus /\ motion'.left = 0
    BY <1>9 DEF Block, TypeOK, MotionOK
  <2>2. CASE motion.left = 0
    BY <2>1, <2>2 DEF Progress
  <2>3. CASE bus.queue = <<>>
    <3>1. DOMAIN bus'.queue = {}
      BY <1>3, <2>1, <2>3, EmptySeq
    <3>2. QED
      BY <2>1, <3>1 DEF Progress
  <2>4. QED
    BY <1>9, <2>2, <2>3 DEF Block
<1>10. QED
  BY <1>4, <1>5, <1>6, <1>7, <1>8, <1>9
     DEF Next, CommsTask, Cycle, Interrupt, Submit, InputReady, Wake, TimeOut, Read,
         BatchDone, Refuse, Ack, Check, SelfSignal, Rested, CommsIdle, vars

\* A command on the bus, a software ESTOP among them, is taken within the
\* cycles the commands in front of it need: for the code's 8 places and 2
\* commands a cycle, the fourth release of Motion at the latest.
THEOREM CommandsWaitBoundedly == Spec => []WaitBounded
<1>1. Init => Progress
  BY EmptySeq DEF Init, EmptyBus, Progress
<1>2. TypeOK /\ Progress => WaitBounded
  <2> SUFFICES ASSUME TypeOK, Progress, NEW i \in DOMAIN bus.queue
               PROVE  bus.queue[i].waited * CommandsPerCycle
                        <= BusCapacity + CommandsPerCycle - 1
    BY DEF WaitBounded
  <2>1. bus.queue \in Seq(Entries) /\ motion.left \in 0 .. CommandsPerCycle
    BY DEF TypeOK, BusOK, BusRecords, MotionOK
  <2>2. i \in 1 .. Len(bus.queue) /\ Len(bus.queue) \in Nat /\ bus.queue[i] \in Entries
    BY <2>1, LenProperties, ElementOfSeq
  <2>3. CommandsPerCycle \in Nat /\ BusCapacity \in Nat /\ bus.queue[i].waited \in Nat
    BY <2>2, PathAssumption DEF Entries
  <2>4. bus.queue[i].waited * CommandsPerCycle \in Nat
    BY <2>3, MoreCycles, Zenon
  <2>5. bus.queue[i].waited * CommandsPerCycle + i <= BusCapacity + motion.left
    BY DEF Progress
  <2>6. QED
    BY <2>1, <2>2, <2>3, <2>4, <2>5
<1>3. QED
  BY <1>1, <1>2, InitType, TypeStep, ProgressStep, PTL DEF Spec

----------------------------------------------------------------------------
(***************************************************************************)
(* The command path implements CommandPipe, for every size of its queues:  *)
(* tasks, notifications and critical sections only move frames along one   *)
(* sequence, at whose end they come in and at whose head they are          *)
(* answered, and what leaves it in between is counted.  What the path      *)
(* reports of itself is true: ACK QUEUED is given for exactly the commands *)
(* Motion gets, each once the bus has it, and the high-water mark is a     *)
(* level that the bus reached.                                             *)
(***************************************************************************)
\* The frames on their way and the count of the lost ones, as the refinement
\* reads them off the path.
Way == ((InMotion \o Bus) \o InComms) \o rx
Lost == rxDrops + errors + bus.rejected

----------------------------------------------------------------------------
(***************************************************************************)
(* Sequences.                                                              *)
(***************************************************************************)
LEMMA SingleSeq ==
  ASSUME NEW S, NEW x \in S
  PROVE  /\ <<x>> \in Seq(S) /\ Len(<<x>>) = 1 /\ <<x>>[1] = x
         /\ <<>> \in Seq(S) /\ Len(<<>>) = 0
  OBVIOUS

LEMMA PrefixOfConcat ==
  ASSUME NEW S, NEW s \in Seq(S), NEW t \in Seq(S)
  PROVE  SubSeq(s \o t, 1, Len(s)) = s
<1>1. /\ Len(s) \in Nat /\ Len(t) \in Nat
      /\ s \o t \in Seq(S) /\ Len(s \o t) = Len(s) + Len(t)
      /\ \A i \in 1 .. Len(s) : (s \o t)[i] = s[i]
  BY LenProperties, ConcatProperties
<1>2. \A i \in 1 .. Len(s) : (s \o t)[i] \in S
  BY <1>1, ElementOfSeq
<1>3. /\ SubSeq(s \o t, 1, Len(s)) \in Seq(S)
      /\ Len(SubSeq(s \o t, 1, Len(s))) = Len(s)
      /\ \A i \in 1 .. Len(s) : SubSeq(s \o t, 1, Len(s))[i] = (s \o t)[i]
  <2>1. \A i \in 1 .. Len(s) : i = 1 + i - 1
    BY <1>1
  <2>2. Len(s) = IF 1 <= Len(s) THEN Len(s) - 1 + 1 ELSE 0
    BY <1>1
  <2>3. Len(s) - 1 + 1 = Len(s) /\ Len(s) \in Int /\ 1 \in Int
    BY <1>1
  <2>4. /\ SubSeq(s \o t, 1, Len(s)) \in Seq(S)
        /\ Len(SubSeq(s \o t, 1, Len(s))) = IF 1 <= Len(s) THEN Len(s) - 1 + 1 ELSE 0
        /\ \A i \in 1 .. Len(s) - 1 + 1 : SubSeq(s \o t, 1, Len(s))[i] = (s \o t)[1 + i - 1]
    BY <1>2, <2>3, SubSeqProperties
  <2>5. QED
    BY <2>1, <2>2, <2>3, <2>4
<1>4. QED
  BY <1>1, <1>3, SeqEqual

LEMMA SuffixOfConcat ==
  ASSUME NEW S, NEW s \in Seq(S), NEW t \in Seq(S)
  PROVE  SubSeq(s \o t, Len(s) + 1, Len(s) + Len(t)) = t
<1> DEFINE m == Len(s) + 1
           n == Len(s) + Len(t)
           u == SubSeq(s \o t, m, n)
<1>1. /\ Len(s) \in Nat /\ Len(t) \in Nat
      /\ \A i \in 1 .. n : (s \o t)[i] = IF i <= Len(s) THEN s[i] ELSE t[i - Len(s)]
  BY LenProperties, ConcatProperties
<1>2. m \in Int /\ n \in Int /\ n - m + 1 = Len(t)
      /\ (IF m <= n THEN n - m + 1 ELSE 0) = Len(t)
  BY <1>1
<1>3. \A i \in m .. n : (s \o t)[i] \in S
  <2>1. \A i \in m .. n : i - Len(s) \in 1 .. Len(t) /\ i \in 1 .. n /\ ~(i <= Len(s))
    BY <1>1
  <2>2. \A j \in 1 .. Len(t) : t[j] \in S
    BY ElementOfSeq
  <2>3. QED
    BY <1>1, <2>1, <2>2
<1>4. u \in Seq(S) /\ Len(u) = Len(t) /\ \A i \in 1 .. Len(t) : u[i] = (s \o t)[m + i - 1]
  BY <1>2, <1>3, SubSeqProperties
<1>5. \A i \in 1 .. Len(t) : (s \o t)[m + i - 1] = t[i]
  <2>1. \A i \in 1 .. Len(t) :
          m + i - 1 \in 1 .. n /\ ~(m + i - 1 <= Len(s)) /\ m + i - 1 - Len(s) = i
    BY <1>1
  <2>2. QED
    BY <1>1, <2>1
<1>6. \A i \in 1 .. Len(u) : u[i] = t[i]
  BY <1>4, <1>5
<1> HIDE DEF u
<1>7. u = t
  BY <1>4, <1>6, SeqEqual
<1>8. QED
  BY <1>7 DEF u

\* What is left of a sequence when one of its elements is taken out.
WithoutOne(w, left) ==
  \E i \in DOMAIN w : left = SubSeq(w, 1, i - 1) \o SubSeq(w, i + 1, Len(w))

\* A frame taken out of the middle is the removal of one index.
LEMMA MiddleTakenOut ==
  ASSUME NEW S, NEW s \in Seq(S), NEW x \in S, NEW t \in Seq(S), NEW w, w = (s \o <<x>>) \o t
  PROVE  WithoutOne(w, s \o t)
<1> DEFINE r == s \o <<x>>
           p == r \o t
<1>1. Len(s) \in Nat /\ Len(t) \in Nat
  BY LenProperties
<1>2. r \in Seq(S) /\ Len(r) = Len(s) + 1
  BY SingleSeq, ConcatProperties
<1>3. p \in Seq(S) /\ Len(p) = Len(r) + Len(t) /\ DOMAIN p = 1 .. Len(p)
  <2> HIDE DEF r
  <2>1. QED
    BY <1>2, ConcatProperties, LenProperties
<1>4. <<x>> \o t \in Seq(S) /\ p = s \o (<<x>> \o t)
  BY SingleSeq, ConcatProperties, ConcatAssociative
<1>5. SubSeq(p, 1, Len(s)) = s
  <2> DEFINE rest == <<x>> \o t
  <2>1. rest \in Seq(S) /\ p = s \o rest
    BY <1>4
  <2> HIDE DEF rest, p
  <2>2. QED
    BY <2>1, PrefixOfConcat
<1>6. SubSeq(p, Len(r) + 1, Len(r) + Len(t)) = t
  <2> HIDE DEF r
  <2>1. QED
    BY <1>2, SuffixOfConcat
<1> HIDE DEF p, r
<1>7. PICK k : k = Len(s) + 1
  OBVIOUS
<1>8. k \in DOMAIN p /\ k - 1 = Len(s) /\ k + 1 = Len(r) + 1 /\ Len(p) = Len(r) + Len(t)
  BY <1>1, <1>2, <1>3, <1>7
<1>9. \E i \in DOMAIN p : s \o t = SubSeq(p, 1, i - 1) \o SubSeq(p, i + 1, Len(p))
  <2>1. s \o t = SubSeq(p, 1, k - 1) \o SubSeq(p, k + 1, Len(p))
    BY <1>5, <1>6, <1>8
  <2>2. QED
    BY <1>8, <2>1
<1>10. QED
  BY <1>9 DEF p, r, WithoutOne

LEMMA SingleConcat ==
  ASSUME NEW S, NEW x \in S, NEW t \in Seq(S), NEW u, u = <<x>> \o t
  PROVE  /\ u \in Seq(S) /\ Len(u) = 1 + Len(t) /\ u[1] = x
         /\ \A i \in 2 .. 1 + Len(t) : u[i] = t[i - 1]
<1>1. PICK h \in Seq(S) : h = <<x>> /\ Len(h) = 1 /\ h[1] = x
  BY SingleSeq
<1>2. Len(t) \in Nat
  BY LenProperties
<1>3. /\ h \o t \in Seq(S) /\ Len(h \o t) = Len(h) + Len(t)
      /\ \A i \in 1 .. Len(h) + Len(t) :
           (h \o t)[i] = IF i <= Len(h) THEN h[i] ELSE t[i - Len(h)]
  BY ConcatProperties
<1>4. u = h \o t
  BY <1>1
<1>5. QED
  BY <1>1, <1>2, <1>3, <1>4

LEMMA HeadAndTail ==
  ASSUME NEW S, NEW s \in Seq(S), s # <<>>
  PROVE  s = <<Head(s)>> \o Tail(s)
<1>1. /\ Head(s) \in S /\ Tail(s) \in Seq(S) /\ Len(Tail(s)) = Len(s) - 1
      /\ \A i \in 1 .. Len(Tail(s)) : Tail(s)[i] = s[i + 1]
  BY HeadTailProperties
<1>2. Len(s) \in Nat /\ Len(s) # 0 /\ Head(s) = s[1]
  BY LenProperties, EmptySeq
<1>3. PICK u : u = <<Head(s)>> \o Tail(s)
  OBVIOUS
<1>4. /\ u \in Seq(S) /\ Len(u) = 1 + Len(Tail(s)) /\ u[1] = Head(s)
      /\ \A i \in 2 .. 1 + Len(Tail(s)) : u[i] = Tail(s)[i - 1]
  BY <1>1, <1>3, SingleConcat
<1>5. Len(u) = Len(s)
  BY <1>1, <1>2, <1>4
<1>6. \A i \in 1 .. Len(s) : u[i] = s[i]
  <2> SUFFICES ASSUME NEW i \in 1 .. Len(s) PROVE u[i] = s[i]
    OBVIOUS
  <2>1. CASE i = 1
    BY <1>2, <1>4, <2>1
  <2>2. CASE i # 1
    <3>1. i - 1 \in 1 .. Len(Tail(s)) /\ i - 1 + 1 = i /\ i \in 2 .. 1 + Len(Tail(s))
      BY <1>1, <1>2, <2>2
    <3>2. QED
      BY <1>1, <1>4, <3>1
  <2>3. QED
    BY <2>1, <2>2
<1>7. u = s
  BY <1>4, <1>5, <1>6, SeqEqual
<1>8. QED
  BY <1>3, <1>7

LEMMA HeadOfConcat ==
  ASSUME NEW S, NEW x \in S, NEW t \in Seq(S), NEW p, p = <<x>> \o t
  PROVE  p # <<>> /\ Head(p) = x /\ Tail(p) = t
<1>1. Len(t) \in Nat
  BY LenProperties
<1>2. /\ p \in Seq(S) /\ Len(p) = 1 + Len(t) /\ p[1] = x
      /\ \A i \in 2 .. 1 + Len(t) : p[i] = t[i - 1]
  BY SingleConcat
<1>3. p # <<>>
  BY <1>1, <1>2, EmptySeq
<1>4. Tail(p) \in Seq(S) /\ Len(Tail(p)) = Len(p) - 1
      /\ \A i \in 1 .. Len(Tail(p)) : Tail(p)[i] = p[i + 1]
  BY <1>2, <1>3, HeadTailProperties
<1>5. Len(Tail(p)) = Len(t)
  BY <1>1, <1>2, <1>4
<1>6. \A i \in 1 .. Len(t) : Tail(p)[i] = t[i]
  <2>1. \A i \in 1 .. Len(t) : i + 1 \in 2 .. 1 + Len(t) /\ i + 1 - 1 = i
    BY <1>1
  <2>2. QED
    BY <1>2, <1>4, <1>5, <2>1
<1>7. Tail(p) = t
  BY <1>4, <1>5, <1>6, SeqEqual
<1>8. Head(p) = x
  BY <1>2, <1>3
<1>9. QED
  BY <1>3, <1>7, <1>8

----------------------------------------------------------------------------
(***************************************************************************)
(* The parts of the way.                                                   *)
(***************************************************************************)
\* The frames of a queue of commands.
Carried(q) == [i \in DOMAIN q |-> q[i].frame]

LEMMA CarriedFacts ==
  ASSUME NEW q \in Seq(Entries)
  PROVE  /\ Carried(q) \in Seq(Frames) /\ Len(Carried(q)) = Len(q)
         /\ \A i \in 1 .. Len(q) : Carried(q)[i] = q[i].frame
<1>1. Len(q) \in Nat /\ DOMAIN q = 1 .. Len(q) /\ \A i \in 1 .. Len(q) : q[i] \in Entries
  BY LenProperties, ElementOfSeq
<1>2. Carried(q) \in [1 .. Len(q) -> Frames]
  BY <1>1 DEF Carried, Entries
<1>3. Carried(q) \in Seq(Frames)
  BY <1>1, <1>2, SeqDef
<1>4. Len(Carried(q)) = Len(q)
  <2>1. DOMAIN Carried(q) = 1 .. Len(Carried(q)) /\ Len(Carried(q)) \in Nat
    BY <1>3, LenProperties
  <2>2. QED
    BY <1>1, <1>2, <2>1
<1>5. QED
  BY <1>1, <1>3, <1>4 DEF Carried

LEMMA CarriedAppend ==
  ASSUME NEW q \in Seq(Entries), NEW e \in Entries
  PROVE  Carried(Append(q, e)) = Append(Carried(q), e.frame)
<1>1. PICK r : r = Append(q, e)
  OBVIOUS
<1>2. /\ r \in Seq(Entries) /\ Len(r) = Len(q) + 1 /\ Len(q) \in Nat
      /\ \A i \in 1 .. Len(q) : r[i] = q[i]
      /\ r[Len(q) + 1] = e
  BY <1>1, AppendProperties, LenProperties
<1>3. e.frame \in Frames
  BY DEF Entries
<1>4. PICK c : c = Carried(q)
  OBVIOUS
<1>5. c \in Seq(Frames) /\ Len(c) = Len(q) /\ \A i \in 1 .. Len(q) : c[i] = q[i].frame
  BY <1>4, CarriedFacts
<1>6. PICK f : f = e.frame
  OBVIOUS
<1>7. /\ Append(c, f) \in Seq(Frames) /\ Len(Append(c, f)) = Len(c) + 1
      /\ \A i \in 1 .. Len(c) : Append(c, f)[i] = c[i]
      /\ Append(c, f)[Len(c) + 1] = f
  BY <1>3, <1>5, <1>6, AppendProperties
<1>8. PICK d : d = Carried(r)
  OBVIOUS
<1>9. d \in Seq(Frames) /\ Len(d) = Len(r) /\ \A i \in 1 .. Len(r) : d[i] = r[i].frame
  BY <1>2, <1>8, CarriedFacts
<1>10. \A i \in 1 .. Len(d) : d[i] = Append(c, f)[i]
  <2> SUFFICES ASSUME NEW i \in 1 .. Len(d) PROVE d[i] = Append(c, f)[i]
    OBVIOUS
  <2>1. CASE i = Len(q) + 1
    BY <1>2, <1>5, <1>6, <1>7, <1>9, <2>1
  <2>2. CASE i # Len(q) + 1
    <3>1. i \in 1 .. Len(q) /\ i \in 1 .. Len(r)
      BY <1>2, <1>9, <2>2
    <3>2. QED
      BY <1>2, <1>5, <1>7, <1>9, <3>1
  <2>3. QED
    BY <2>1, <2>2
<1>11. d = Append(c, f)
  <2>1. Len(d) = Len(Append(c, f))
    BY <1>2, <1>5, <1>7, <1>9
  <2>2. QED
    BY <1>7, <1>9, <1>10, <2>1, SeqEqual
<1>12. QED
  BY <1>1, <1>4, <1>6, <1>8, <1>11

LEMMA CarriedTail ==
  ASSUME NEW q \in Seq(Entries), q # <<>>
  PROVE  /\ Carried(q) # <<>> /\ Head(Carried(q)) = Head(q).frame
         /\ Carried(Tail(q)) = Tail(Carried(q))
<1>1. /\ Tail(q) \in Seq(Entries) /\ Len(Tail(q)) = Len(q) - 1 /\ Head(q) = q[1]
      /\ \A i \in 1 .. Len(Tail(q)) : Tail(q)[i] = q[i + 1]
  BY HeadTailProperties
<1>2. Len(q) \in Nat /\ Len(q) # 0
  BY LenProperties, EmptySeq
<1>3. PICK c : c = Carried(q)
  OBVIOUS
<1>4. c \in Seq(Frames) /\ Len(c) = Len(q) /\ \A i \in 1 .. Len(q) : c[i] = q[i].frame
  BY <1>3, CarriedFacts
<1>5. c # <<>>
  BY <1>2, <1>4, EmptySeq
<1>6. /\ Tail(c) \in Seq(Frames) /\ Len(Tail(c)) = Len(c) - 1 /\ Head(c) = c[1]
      /\ \A i \in 1 .. Len(Tail(c)) : Tail(c)[i] = c[i + 1]
  BY <1>4, <1>5, HeadTailProperties
<1>7. PICK d : d = Carried(Tail(q))
  OBVIOUS
<1>8. d \in Seq(Frames) /\ Len(d) = Len(Tail(q))
      /\ \A i \in 1 .. Len(Tail(q)) : d[i] = Tail(q)[i].frame
  BY <1>1, <1>7, CarriedFacts
<1>9. \A i \in 1 .. Len(d) : d[i] = Tail(c)[i]
  <2>1. \A i \in 1 .. Len(d) : i \in 1 .. Len(Tail(q)) /\ i \in 1 .. Len(Tail(c))
                               /\ i + 1 \in 1 .. Len(q)
    BY <1>1, <1>2, <1>4, <1>6, <1>8
  <2>2. QED
    BY <1>1, <1>4, <1>6, <1>8, <2>1
<1>10. d = Tail(c)
  <2>1. Len(d) = Len(Tail(c))
    BY <1>1, <1>4, <1>6, <1>8
  <2>2. QED
    BY <1>6, <1>8, <1>9, <2>1, SeqEqual
<1>11. Head(c) = Head(q).frame
  <2>1. 1 \in 1 .. Len(q)
    BY <1>2
  <2>2. QED
    BY <1>1, <1>4, <1>6, <2>1
<1>12. QED
  BY <1>3, <1>5, <1>7, <1>10, <1>11

LEMMA CarriedOlder ==
  ASSUME NEW q \in Seq(Entries)
  PROVE  Carried(Older(q)) = Carried(q)
<1>1. DOMAIN Older(q) = DOMAIN q /\ \A i \in DOMAIN q : Older(q)[i].frame = q[i].frame
  BY DEF Older
<1>2. QED
  BY <1>1 DEF Carried

LEMMA PartsAreSeqs ==
  ASSUME TypeOK
  PROVE  /\ InMotion \in Seq(Frames) /\ Bus \in Seq(Frames) /\ InComms \in Seq(Frames)
         /\ rx \in Seq(Frames)
         /\ InMotion \o Bus \in Seq(Frames) /\ (InMotion \o Bus) \o InComms \in Seq(Frames)
         /\ Way \in Seq(Frames)
         /\ bus.queue \in Seq(Entries) /\ Bus = Carried(bus.queue)
<1>1. bus.queue \in Seq(Entries) /\ rx \in Seq(Frames)
  BY DEF TypeOK, BusOK, BusRecords, RxOK
<1>2. Bus = Carried(bus.queue) /\ Bus \in Seq(Frames)
  BY <1>1, CarriedFacts DEF Bus, Carried
<1>3. InMotion \in Seq(Frames)
  BY SingleSeq, EmptySeq DEF InMotion, TypeOK, MotionOK
<1>4. InComms \in Seq(Frames)
  BY SingleSeq, EmptySeq DEF InComms, TypeOK, CommsOK
<1>5. InMotion \o Bus \in Seq(Frames)
  BY <1>2, <1>3, ConcatProperties
<1>6. (InMotion \o Bus) \o InComms \in Seq(Frames)
  BY <1>4, <1>5, ConcatProperties
<1>7. ((InMotion \o Bus) \o InComms) \o rx \in Seq(Frames)
  BY <1>1, <1>6, ConcatProperties
<1>8. QED
  BY <1>1, <1>2, <1>3, <1>4, <1>5, <1>6, <1>7 DEF Way

----------------------------------------------------------------------------
(***************************************************************************)
(* The steps.                                                              *)
(***************************************************************************)
\* What the promise does not notice.
Unnoticed == Way' = Way /\ answered' = answered /\ Lost' = Lost

LEMMA LostIsNat == TypeOK => Lost \in Nat
  BY DEF TypeOK, RxOK, BusOK, BusRecords, Lost

\* A burst joins the end of the way.
LEMMA OfferArrives ==
  ASSUME TypeOK, NEW n \in Nat, NEW kinds \in [1 .. n -> Kinds], Offer(kinds),
         UNCHANGED <<comms, errors, bus, motion, answered>>
  PROVE  Promise!Arrive
<1>1. PICK new : new = [i \in 1 .. Accepted(n) |-> [id |-> arrived + i, kind |-> kinds[i]]]
  OBVIOUS
<1>2. Len(kinds) = n
  BY SeqDef, LenProperties
<1>3. rx' = rx \o new /\ rxDrops' = rxDrops + n - Accepted(n) /\ arrived + n <= MaxFrames
  BY <1>1, <1>2 DEF Offer
<1>4. arrived \in Nat /\ MaxFrames \in Nat /\ Accepted(n) \in 0 .. n
  BY AcceptedFits, PathAssumption DEF TypeOK, RxOK
<1>5. new \in Seq(Frames) /\ Len(new) \in Nat
  <2>1. new \in [1 .. Accepted(n) -> Frames]
    BY <1>1, <1>3, <1>4 DEF Frames
  <2>2. new \in Seq(Frames)
    BY <1>4, <2>1, SeqDef
  <2>3. QED
    BY <2>2, LenProperties
<1>6. InMotion' = InMotion /\ Bus' = Bus /\ InComms' = InComms
  BY DEF InMotion, Bus, InComms
<1>7. Way' = Way \o new
  <2> DEFINE front == (InMotion \o Bus) \o InComms
  <2>1. front \in Seq(Frames) /\ rx \in Seq(Frames)
    BY PartsAreSeqs
  <2>2. Way' = front \o (rx \o new)
    BY <1>3, <1>6 DEF Way
  <2>3. Way = front \o rx
    BY DEF Way
  <2> HIDE DEF front
  <2>4. QED
    BY <1>5, <2>1, <2>2, <2>3, ConcatAssociative
<1>8. Way \in Seq(Frames) /\ Len(Way) \in Nat
  BY PartsAreSeqs, LenProperties
<1>9. Len(Way') = Len(Way) + Len(new) /\ SubSeq(Way', 1, Len(Way)) = Way
  BY <1>5, <1>7, <1>8, ConcatProperties, PrefixOfConcat
<1>10. \E k \in 0 .. Len(Way') - Len(Way) :
         Len(Way') = Len(Way) + k /\ SubSeq(Way', 1, Len(Way)) = Way
  <2>1. Len(new) \in 0 .. Len(Way') - Len(Way)
    BY <1>5, <1>8, <1>9
  <2>2. QED
    BY <1>9, <2>1
<1>11. Lost' \in Nat /\ Lost' >= Lost
  <2>1. errors' = errors /\ bus'.rejected = bus.rejected
    OBVIOUS
  <2>2. rxDrops \in Nat /\ errors \in Nat /\ bus.rejected \in Nat
    BY DEF TypeOK, RxOK, BusOK, BusRecords
  <2>3. Lost' = Lost + n - Accepted(n)
    BY <1>3, <1>4, <2>1, <2>2 DEF Lost
  <2>4. QED
    BY <1>4, <2>3, LostIsNat
<1>12. QED
  BY <1>10, <1>11 DEF Promise!Arrive, Way, Lost

LEMMA ArrivalKeepsPromise ==
  ASSUME TypeOK, Interrupt \/ Submit \/ InputReady
  PROVE  Promise!Arrive \/ Unnoticed
<1>1. CASE Interrupt
  <2>1. PICK n \in 1 .. BurstMax : \E kinds \in [1 .. n -> Kinds] : Offer(kinds)
    BY <1>1 DEF Interrupt
  <2>2. PICK kinds \in [1 .. n -> Kinds] : Offer(kinds)
    BY <2>1
  <2>3. n \in Nat /\ UNCHANGED <<comms, errors, bus, motion, answered>>
    BY <1>1 DEF Interrupt
  <2>4. QED
    BY <2>2, <2>3, OfferArrives
<1>2. CASE Submit
  <2>1. PICK kind \in Kinds : Offer(<<kind>>)
    BY <1>2 DEF Submit
  <2>2. <<kind>> \in [1 .. 1 -> Kinds] /\ UNCHANGED <<comms, errors, bus, motion, answered>>
    BY <1>2 DEF Submit
  <2>3. QED
    BY <2>1, <2>2, OfferArrives
<1>3. CASE InputReady
  BY <1>3 DEF InputReady, Unnoticed, Way, InMotion, Bus, InComms, Lost
<1>4. QED
  BY <1>1, <1>2, <1>3

\* What Communications holds leaves the way: refused by the parser or the bus.
LEMMA HeldIsLost ==
  ASSUME TypeOK, comms.at = "parse", InComms' = <<>>, rx' = rx,
         InMotion' = InMotion, Bus' = Bus, answered' = answered, Lost' = Lost + 1
  PROVE  Promise!Lose
<1> DEFINE front == InMotion \o Bus
<1>1. front \in Seq(Frames) /\ rx \in Seq(Frames)
  BY PartsAreSeqs
<1>2. InComms = <<comms.frame>> /\ comms.frame \in Frames
  BY DEF InComms, TypeOK, CommsOK
<1>3. Way = (front \o <<comms.frame>>) \o rx /\ Way' = (front \o <<>>) \o rx
  BY <1>2 DEF Way
<1> HIDE DEF front
<1>4. Way' = front \o rx
  BY <1>1, <1>3, ConcatEmptySeq
<1>5. PICK way : way = Way
  OBVIOUS
<1>6. PICK f \in Frames : f = comms.frame
  BY <1>2
<1>7. way = (front \o <<f>>) \o rx
  BY <1>3, <1>5, <1>6
<1>8. WithoutOne(way, front \o rx)
  BY <1>1, <1>6, <1>7, MiddleTakenOut
<1>9. WithoutOne(Way, Way')
  BY <1>4, <1>5, <1>8
<1>10. QED
  BY <1>9 DEF WithoutOne, Promise!Lose, Way, Lost

\* Communications hands its command to the bus.
LEMMA SendKeepsPromise ==
  ASSUME TypeOK, Send
  PROVE  Promise!Lose \/ Unnoticed
<1> DEFINE e == [frame |-> comms.frame, waited |-> 0]
<1>1. /\ comms.at = "parse" /\ comms.frame \in Frames
      /\ bus' = BusSend(bus, e)
      /\ comms' = IF Queued(bus, bus') THEN [comms EXCEPT !.at = "ack"]
                                       ELSE [comms EXCEPT !.at = "read", !.frame = NoFrame]
      /\ UNCHANGED <<rx, rxDrops, errors, motion, answered>>
  BY DEF Send, CommsAt, CommsIdle, TypeOK, CommsOK
<1>2. e \in Entries /\ e.frame = comms.frame
  BY <1>1 DEF Entries
<1>3. InComms' = <<>> /\ InMotion' = InMotion
  <2>1. comms' = [comms EXCEPT !.at = "ack"]
        \/ comms' = [comms EXCEPT !.at = "read", !.frame = NoFrame]
    BY <1>1
  <2>2. comms'.at # "parse"
    BY <2>1 DEF TypeOK, CommsOK
  <2>3. QED
    BY <1>1, <2>2 DEF InComms, InMotion
<1> HIDE DEF e
<1>4. /\ bus' \in BusRecords
      /\ \/ bus'.queue = Append(bus.queue, e) /\ bus'.rejected = bus.rejected
         \/ bus'.queue = bus.queue /\ bus'.rejected = bus.rejected + 1
  BY <1>1, <1>2, SendFacts
<1>5. rxDrops \in Nat /\ errors \in Nat /\ bus.rejected \in Nat
  BY DEF TypeOK, RxOK, BusOK, BusRecords
<1>6. CASE bus'.queue = bus.queue /\ bus'.rejected = bus.rejected + 1
  <2>1. Bus' = Bus
    BY <1>6 DEF Bus
  <2>2. Lost' = Lost + 1
    BY <1>1, <1>5, <1>6 DEF Lost
  <2>3. QED
    BY <1>1, <1>3, <2>1, <2>2, HeldIsLost
<1>7. CASE bus'.queue = Append(bus.queue, e) /\ bus'.rejected = bus.rejected
  <2>1. /\ InMotion \in Seq(Frames) /\ Bus \in Seq(Frames) /\ rx \in Seq(Frames)
        /\ bus.queue \in Seq(Entries) /\ Bus = Carried(bus.queue)
    BY PartsAreSeqs
  <2>2. Bus' = Carried(bus'.queue)
    BY DEF Bus, Carried
  <2>3. Bus' = Append(Bus, comms.frame)
    BY <1>2, <1>7, <2>1, <2>2, CarriedAppend
  <2>4. Bus' = Bus \o <<comms.frame>>
    BY <1>1, <2>1, <2>3, AppendIsConcat
  <2>5. PICK held : held = <<comms.frame>> /\ held \in Seq(Frames)
    BY <1>1, SingleSeq
  <2>6. Way = ((InMotion \o Bus) \o held) \o rx
    BY <1>1, <2>5 DEF Way, InComms
  <2>7. Way' = ((InMotion \o (Bus \o held)) \o <<>>) \o rx
    BY <1>1, <1>3, <2>4, <2>5 DEF Way
  <2>8. /\ InMotion \o (Bus \o held) = (InMotion \o Bus) \o held
        /\ InMotion \o Bus \in Seq(Frames)
    BY <2>1, <2>5, ConcatAssociative, ConcatProperties
  <2>9. (InMotion \o Bus) \o held \in Seq(Frames)
    BY <2>5, <2>8, ConcatProperties
  <2>10. ((InMotion \o Bus) \o held) \o <<>> = (InMotion \o Bus) \o held
    BY <2>9, ConcatEmptySeq
  <2>11. Way' = Way
    BY <2>6, <2>7, <2>8, <2>10
  <2>12. Lost' = Lost
    BY <1>1, <1>7 DEF Lost
  <2>13. QED
    BY <1>1, <2>11, <2>12 DEF Unnoticed
<1>8. QED
  BY <1>4, <1>6, <1>7

\* Communications takes a frame from the receive queue.
LEMMA ReadUnnoticed ==
  ASSUME TypeOK, Read
  PROVE  Unnoticed
<1>1. /\ comms.at = "read" /\ rx # <<>> /\ rx' = Tail(rx)
      /\ comms'.at = "parse" /\ comms'.frame = Head(rx)
      /\ UNCHANGED <<rxDrops, errors, bus, motion, answered>>
  BY DEF Read, CommsAt, CommsIdle
<1>2. /\ InMotion' = InMotion /\ Bus' = Bus /\ InComms = <<>> /\ InComms' = <<Head(rx)>>
  BY <1>1 DEF InMotion, Bus, InComms
<1>3. PICK front : front = InMotion \o Bus
  OBVIOUS
<1>4. front \in Seq(Frames) /\ rx \in Seq(Frames)
  BY <1>3, PartsAreSeqs
<1>5. Head(rx) \in Frames /\ Tail(rx) \in Seq(Frames)
  BY <1>1, <1>4, HeadTailProperties
<1>6. PICK held : held = <<Head(rx)>> /\ held \in Seq(Frames)
  BY <1>5, SingleSeq
<1>7. Way = (front \o <<>>) \o rx /\ Way' = (front \o held) \o Tail(rx)
  BY <1>1, <1>2, <1>3, <1>6 DEF Way
<1>8. rx = held \o Tail(rx)
  BY <1>1, <1>4, <1>6, HeadAndTail
<1>9. (front \o held) \o Tail(rx) = front \o rx
  BY <1>4, <1>5, <1>6, <1>8, ConcatAssociative
<1>10. front \o <<>> = front
  BY <1>4, ConcatEmptySeq
<1>11. QED
  BY <1>1, <1>7, <1>9, <1>10 DEF Unnoticed, Lost

LEMMA CommsKeepsPromise ==
  ASSUME TypeOK, CommsTask \/ TimeOut
  PROVE  Promise!Lose \/ Unnoticed
<1>1. CASE Read
  BY <1>1, ReadUnnoticed
<1>2. CASE Send
  BY <1>2, SendKeepsPromise
<1>3. CASE Refuse
  <2>1. comms.at = "parse" /\ comms'.at = "read" /\ errors' = errors + 1
        /\ UNCHANGED <<rx, rxDrops, bus, motion, answered>>
    BY <1>3 DEF Refuse, CommsAt, CommsIdle, TypeOK, CommsOK
  <2>2. InComms' = <<>> /\ InMotion' = InMotion /\ Bus' = Bus
    BY <2>1 DEF InComms, InMotion, Bus
  <2>3. rxDrops \in Nat /\ errors \in Nat /\ bus.rejected \in Nat
    BY DEF TypeOK, RxOK, BusOK, BusRecords
  <2>4. Lost' = Lost + 1
    BY <2>1, <2>3 DEF Lost
  <2>5. QED
    BY <2>1, <2>2, <2>4, HeldIsLost
<1>4. CASE Wake \/ TimeOut \/ BatchDone \/ Ack \/ Check \/ SelfSignal \/ Rested
  <2>1. comms.at # "parse" /\ comms'.at # "parse"
        /\ UNCHANGED <<rx, rxDrops, errors, bus, motion, answered>>
    BY <1>4 DEF Wake, TimeOut, BatchDone, Ack, Check, SelfSignal, Rested, CommsAt, CommsIdle,
                TypeOK, CommsOK
  <2>2. QED
    BY <2>1 DEF Unnoticed, Way, Lost, InComms, InMotion, Bus
<1>5. QED
  BY <1>1, <1>2, <1>3, <1>4 DEF CommsTask

\* Motion takes the oldest command off the bus.
LEMMA ReceiveUnnoticed ==
  ASSUME TypeOK, Receive
  PROVE  Unnoticed
<1>1. /\ motion.at = "receive" /\ bus.queue # <<>>
      /\ motion'.at = "answer" /\ motion'.frame = Head(bus.queue).frame
      /\ UNCHANGED <<rx, rxDrops, errors, comms, answered>>
  BY DEF Receive, MotionOnly
<1>2. bus'.queue = Tail(bus.queue) /\ bus'.rejected = bus.rejected
  <2>1. bus' = [bus EXCEPT !.queue = Tail(bus.queue), !.received = bus.received + 1]
    BY DEF Receive, BusReceive
  <2>2. bus \in BusRecords
    BY DEF TypeOK, BusOK
  <2>3. QED
    BY <2>1, <2>2 DEF BusRecords
<1>3. bus.queue \in Seq(Entries) /\ Bus = Carried(bus.queue) /\ Bus \in Seq(Frames)
  BY PartsAreSeqs
<1>4. Bus' = Carried(bus'.queue)
  BY DEF Bus, Carried
<1>5. Bus # <<>> /\ Head(Bus) = Head(bus.queue).frame /\ Bus' = Tail(Bus)
  BY <1>1, <1>2, <1>3, <1>4, CarriedTail
<1>6. Head(Bus) \in Frames /\ Tail(Bus) \in Seq(Frames)
  BY <1>3, <1>5, HeadTailProperties
<1>7. InMotion = <<>> /\ InMotion' = <<Head(Bus)>> /\ InComms' = InComms
  BY <1>1, <1>5 DEF InMotion, InComms
<1>8. InMotion \o Bus = Bus
  BY <1>3, <1>7, ConcatEmptySeq
<1>9. InMotion' \o Bus' = Bus
  BY <1>3, <1>5, <1>7, HeadAndTail
<1>10. QED
  BY <1>1, <1>2, <1>7, <1>8, <1>9 DEF Unnoticed, Way, Lost

LEMMA AnswerKeepsPromise ==
  ASSUME TypeOK, Answer
  PROVE  Promise!Answer
<1>1. /\ motion.at = "answer" /\ motion'.at = "receive" /\ motion.frame \in Frames
      /\ answered' = Append(answered, motion.frame)
      /\ UNCHANGED <<rx, rxDrops, errors, comms, bus>>
  BY DEF Answer, MotionOnly, TypeOK, MotionOK
<1>2. /\ InMotion = <<motion.frame>> /\ InMotion' = <<>> /\ Bus' = Bus /\ InComms' = InComms
  BY <1>1 DEF InMotion, InComms, Bus
<1>3. Bus \in Seq(Frames) /\ InComms \in Seq(Frames) /\ rx \in Seq(Frames)
  BY PartsAreSeqs
<1>4. PICK held : held = <<motion.frame>> /\ held \in Seq(Frames)
  BY <1>1, SingleSeq
<1>5. Way = ((held \o Bus) \o InComms) \o rx /\ Way' = ((<<>> \o Bus) \o InComms) \o rx
  BY <1>1, <1>2, <1>4 DEF Way
<1>6. PICK rest : rest = (Bus \o InComms) \o rx
  OBVIOUS
<1>7. Bus \o InComms \in Seq(Frames) /\ rest \in Seq(Frames)
  BY <1>3, <1>6, ConcatProperties
<1>8. Way' = rest
  BY <1>3, <1>5, <1>6, ConcatEmptySeq
<1>9. Way = held \o rest
  <2>1. (held \o Bus) \o InComms = held \o (Bus \o InComms)
    BY <1>3, <1>4, ConcatAssociative
  <2>2. (held \o (Bus \o InComms)) \o rx = held \o ((Bus \o InComms) \o rx)
    BY <1>3, <1>4, <1>7, ConcatAssociative
  <2>3. QED
    BY <1>5, <1>6, <2>1, <2>2
<1>10. Way # <<>> /\ Head(Way) = motion.frame /\ Tail(Way) = rest
  BY <1>1, <1>4, <1>7, <1>9, HeadOfConcat
<1>11. Lost' = Lost
  BY <1>1 DEF Lost
<1>12. /\ Way # <<>> /\ Way' = Tail(Way) /\ answered' = Append(answered, Head(Way))
       /\ Lost' = Lost
  BY <1>1, <1>8, <1>10, <1>11
<1>13. QED
  BY <1>12 DEF Promise!Answer, Way, Lost

LEMMA MotionKeepsPromise ==
  ASSUME TypeOK, Release \/ Cycle
  PROVE  Promise!Answer \/ Unnoticed
<1>1. CASE Release
  <2>1. /\ motion.at = "blocked" /\ motion'.at = "receive"
        /\ UNCHANGED <<rx, rxDrops, errors, comms, answered>>
    BY <1>1 DEF Release, MotionOnly, TypeOK, MotionOK
  <2>2. bus'.queue = Older(bus.queue) /\ bus'.rejected = bus.rejected
    <3>1. bus' = [bus EXCEPT !.queue = Older(bus.queue)] /\ bus \in BusRecords
      BY <1>1 DEF Release, TypeOK, BusOK
    <3>2. QED
      BY <3>1 DEF BusRecords
  <2>3. bus.queue \in Seq(Entries) /\ Bus = Carried(bus.queue) /\ Bus' = Carried(bus'.queue)
    BY PartsAreSeqs DEF Bus, Carried
  <2>4. Bus' = Bus
    BY <2>2, <2>3, CarriedOlder
  <2>5. QED
    BY <2>1, <2>2, <2>4 DEF Unnoticed, Way, Lost, InComms, InMotion
<1>2. CASE Receive
  BY <1>2, ReceiveUnnoticed
<1>3. CASE Answer
  BY <1>3, AnswerKeepsPromise
<1>4. CASE Block
  <2>1. /\ motion.at # "answer" /\ motion'.at # "answer"
        /\ UNCHANGED <<rx, rxDrops, errors, comms, bus, answered>>
    BY <1>4 DEF Block, MotionOnly, TypeOK, MotionOK
  <2>2. QED
    BY <2>1 DEF Unnoticed, Way, Lost, InComms, InMotion, Bus
<1>5. QED
  BY <1>1, <1>2, <1>3, <1>4 DEF Cycle

\* Every step of the path is a step of the promise or unseen by it.
LEMMA StepKeepsPromise ==
  ASSUME TypeOK, [Next]_vars
  PROVE  [Promise!Next]_<<((InMotion \o Bus) \o InComms) \o rx, answered,
                          rxDrops + errors + bus.rejected>>
<1>1. CASE Unnoticed
  BY <1>1 DEF Unnoticed, Way, Lost
<1>2. CASE UNCHANGED vars
  BY <1>2 DEF vars, InMotion, Bus, InComms
<1>3. CASE Next
  BY <1>1, <1>3, ArrivalKeepsPromise, CommsKeepsPromise, MotionKeepsPromise
     DEF Next, Promise!Next
<1>4. QED
  BY <1>2, <1>3

\* The path implements the pipe: whatever the interrupts, the sizes of the
\* queues and the order in which the tasks run, a frame that Motion answers has
\* overtaken none and is answered once, and every other is counted.
THEOREM PipePromiseKept == Spec => ImplementsPipe
<1>1. Init => Promise!Init
  <2> SUFFICES ASSUME Init PROVE Promise!Init
    OBVIOUS
  <2>1. InMotion = <<>> /\ InComms = <<>> /\ rx = <<>> /\ bus.queue = <<>>
    BY DEF Init, InMotion, InComms, EmptyBus
  <2>2. Bus = <<>>
    BY <2>1 DEF Bus
  <2>3. ((InMotion \o Bus) \o InComms) \o rx = <<>>
    BY <2>1, <2>2
  <2>4. QED
    BY <2>3 DEF Init, EmptyBus, Promise!Init
<1>2. TypeOK /\ [Next]_vars
      => [Promise!Next]_<<((InMotion \o Bus) \o InComms) \o rx, answered,
                          rxDrops + errors + bus.rejected>>
  BY StepKeepsPromise
<1>3. Spec => []TypeOK
  BY PathTypeCorrect
<1>4. QED
  BY <1>1, <1>2, <1>3, PTL DEF Spec, ImplementsPipe, Promise!Spec

----------------------------------------------------------------------------
\* The numbers of a sequence of frames.
Ids(s) == {s[i].id : i \in DOMAIN s}

\* The commands that the bus accepted: queued, in Motion's hands, or answered.
Admitted == Ids(Bus) \cup Ids(answered) \cup Ids(InMotion)

\* The command that the bus has and that is not reported yet.
Late == IF comms.at = "ack" THEN {comms.frame.id} ELSE {}

Reported == Late \subseteq Admitted /\ acked = Admitted \ Late

\* Frames are numbered as they come and keep their order: what the bus has
\* accepted came before what Communications holds, and that before the queue.
Numbered ==
  /\ \A a \in Admitted : a <= arrived
  /\ \A i \in DOMAIN rx : rx[i].id <= arrived
  /\ \A i, j \in DOMAIN rx : i < j => rx[i].id < rx[j].id
  /\ \A a \in Admitted : \A i \in DOMAIN rx : a < rx[i].id
  /\ comms.at = "parse" =>
       /\ comms.frame.id <= arrived
       /\ \A a \in Admitted : a < comms.frame.id
       /\ \A i \in DOMAIN rx : comms.frame.id < rx[i].id

MarkHolds == bus.highWater >= Len(bus.queue)

AckInv == TypeOK /\ Reported /\ Numbered /\ MarkHolds

----------------------------------------------------------------------------
(***************************************************************************)
(* Numbers of sequences.                                                   *)
(***************************************************************************)
LEMMA IdsFacts ==
  ASSUME NEW s \in Seq(Frames)
  PROVE  /\ DOMAIN s = 1 .. Len(s) /\ Len(s) \in Nat
         /\ \A i \in DOMAIN s : s[i] \in Frames /\ s[i].id \in Nat
         /\ Ids(s) \subseteq Nat
<1>1. DOMAIN s = 1 .. Len(s) /\ Len(s) \in Nat
  BY LenProperties
<1>2. \A i \in DOMAIN s : s[i] \in Frames
  BY <1>1, ElementOfSeq
<1>3. \A i \in DOMAIN s : s[i].id \in Nat
  BY <1>2, PathAssumption DEF Frames
<1>4. QED
  BY <1>1, <1>2, <1>3 DEF Ids

LEMMA IdsOfNone == Ids(<<>>) = {}
  BY DEF Ids

LEMMA IdsOfOne ==
  ASSUME NEW f \in Frames
  PROVE  Ids(<<f>>) = {f.id}
<1>1. PICK s : s = <<f>>
  OBVIOUS
<1>2. DOMAIN s = {1} /\ s[1] = f
  BY <1>1
<1>3. Ids(s) = {f.id}
  BY <1>2 DEF Ids
<1>4. QED
  BY <1>1, <1>3

LEMMA IdsOfAppend ==
  ASSUME NEW s \in Seq(Frames), NEW f \in Frames
  PROVE  Ids(Append(s, f)) = Ids(s) \cup {f.id}
<1>1. PICK t : t = Append(s, f)
  OBVIOUS
<1>2. /\ t \in Seq(Frames) /\ Len(t) = Len(s) + 1
      /\ \A i \in 1 .. Len(s) : t[i] = s[i]
      /\ t[Len(s) + 1] = f
  BY <1>1, AppendProperties
<1>3. Len(s) \in Nat /\ DOMAIN s = 1 .. Len(s) /\ DOMAIN t = 1 .. Len(s) + 1
  BY <1>2, LenProperties
<1>4. DOMAIN t = DOMAIN s \cup {Len(s) + 1}
  BY <1>3
<1>5. Ids(t) = Ids(s) \cup {f.id}
  BY <1>2, <1>3, <1>4 DEF Ids
<1>6. QED
  BY <1>1, <1>5

LEMMA IdsOfTail ==
  ASSUME NEW s \in Seq(Frames), s # <<>>
  PROVE  Ids(s) = Ids(Tail(s)) \cup {Head(s).id}
<1>1. PICK t : t = Tail(s)
  OBVIOUS
<1>2. /\ t \in Seq(Frames) /\ Len(t) = Len(s) - 1 /\ Head(s) = s[1]
      /\ \A i \in 1 .. Len(t) : t[i] = s[i + 1]
  BY <1>1, HeadTailProperties
<1>3. Len(s) \in Nat /\ Len(s) # 0 /\ DOMAIN s = 1 .. Len(s) /\ DOMAIN t = 1 .. Len(s) - 1
  BY <1>2, LenProperties, EmptySeq
<1>4. \A i \in DOMAIN s : i # 1 => (i - 1 \in DOMAIN t /\ t[i - 1] = s[i])
  <2> TAKE i \in DOMAIN s
  <2> HAVE i # 1
  <2>1. i - 1 \in 1 .. Len(t) /\ i - 1 + 1 = i /\ i - 1 \in DOMAIN t
    BY <1>2, <1>3
  <2>2. QED
    BY <1>2, <2>1
<1>5. 1 \in DOMAIN s /\ \A i \in DOMAIN t : i + 1 \in DOMAIN s /\ t[i] = s[i + 1]
  BY <1>2, <1>3
<1>6. Ids(s) \subseteq Ids(t) \cup {Head(s).id}
  BY <1>2, <1>4 DEF Ids
<1>7. Ids(t) \cup {Head(s).id} \subseteq Ids(s)
  BY <1>2, <1>5 DEF Ids
<1>8. QED
  BY <1>1, <1>6, <1>7

\* The set that AcksAreTrue names is Admitted.
LEMMA ReportsAreReported ==
  ASSUME TypeOK
  PROVE  AcksAreTrue <=> Reported
<1>1. {bus.queue[i].frame.id : i \in DOMAIN bus.queue} = Ids(Bus)
  BY DEF Bus, Ids
<1>2. (IF motion.at = "answer" THEN {motion.frame.id} ELSE {}) = Ids(InMotion)
  <2>1. CASE motion.at = "answer"
    <3>1. motion.frame \in Frames
      BY <2>1 DEF TypeOK, MotionOK
    <3>2. Ids(<<motion.frame>>) = {motion.frame.id}
      BY <3>1, IdsOfOne
    <3>3. QED
      BY <2>1, <3>2 DEF InMotion
  <2>2. CASE motion.at # "answer"
    BY <2>2, IdsOfNone DEF InMotion
  <2>3. QED
    BY <2>1, <2>2
<1>3. {answered[i].id : i \in DOMAIN answered} = Ids(answered)
  BY DEF Ids
<1>4. QED
  BY <1>1, <1>2, <1>3 DEF AcksAreTrue, Reported, Admitted, Late

LEMMA AdmittedNat == TypeOK => Admitted \subseteq Nat
<1> SUFFICES ASSUME TypeOK PROVE Admitted \subseteq Nat
  OBVIOUS
<1>1. Bus \in Seq(Frames) /\ InMotion \in Seq(Frames) /\ answered \in Seq(Frames)
  BY PartsAreSeqs DEF TypeOK, HistoryOK
<1>2. QED
  BY <1>1, IdsFacts DEF Admitted

----------------------------------------------------------------------------
(***************************************************************************)
(* The steps.                                                              *)
(***************************************************************************)
LEMMA InitReports == Init => AckInv
<1> SUFFICES ASSUME Init PROVE AckInv
  OBVIOUS
<1>1. TypeOK
  BY InitType
<1>2. /\ arrived = 0 /\ rx = <<>> /\ comms.at = "wait" /\ motion.at = "blocked"
      /\ bus.queue = <<>> /\ bus.highWater = 0 /\ acked = {} /\ answered = <<>>
  BY DEF Init, EmptyBus
<1>3. Bus = <<>> /\ InMotion = <<>>
  BY <1>2 DEF Bus, InMotion
<1>4. Admitted = {}
  BY <1>2, <1>3, IdsOfNone DEF Admitted
<1>5. Reported
  BY <1>2, <1>4 DEF Reported, Late
<1>6. Numbered
  BY <1>2, <1>4 DEF Numbered
<1>7. MarkHolds
  BY <1>2 DEF MarkHolds
<1>8. QED
  BY <1>1, <1>5, <1>6, <1>7 DEF AckInv

\* A burst takes the next numbers and stands behind what is queued.
LEMMA OfferNumbers ==
  ASSUME AckInv, NEW n \in Nat, NEW kinds \in [1 .. n -> Kinds], Offer(kinds),
         UNCHANGED <<comms, bus, motion, acked, answered>>
  PROVE  Reported' /\ Numbered' /\ MarkHolds'
<1>1. TypeOK /\ Reported /\ Numbered /\ MarkHolds
  BY DEF AckInv
<1>2. Admitted' = Admitted /\ Late' = Late
  <2>1. Bus' = Bus /\ InMotion' = InMotion
    BY DEF Bus, InMotion
  <2>2. QED
    BY <2>1 DEF Admitted, Late, Ids
<1>3. Reported' /\ MarkHolds'
  BY <1>1, <1>2 DEF Reported, MarkHolds
<1>4. PICK new : new = [i \in 1 .. Accepted(n) |-> [id |-> arrived + i, kind |-> kinds[i]]]
  OBVIOUS
<1>5. Len(kinds) = n
  BY SeqDef, LenProperties
<1>6. rx' = rx \o new /\ arrived' = arrived + n /\ arrived + n <= MaxFrames
  BY <1>4, <1>5 DEF Offer
<1>7. arrived \in Nat /\ MaxFrames \in Nat /\ Accepted(n) \in 0 .. n /\ rx \in Seq(Frames)
  BY <1>1, AcceptedFits, PathAssumption DEF TypeOK, RxOK
<1>8. /\ new \in Seq(Frames) /\ Len(new) = Accepted(n)
      /\ \A i \in 1 .. Len(new) : new[i].id = arrived + i
  <2>1. new \in [1 .. Accepted(n) -> Frames]
    BY <1>4, <1>6, <1>7 DEF Frames
  <2>2. new \in Seq(Frames)
    BY <1>7, <2>1, SeqDef
  <2>3. Len(new) = Accepted(n)
    BY <1>7, <2>1, <2>2, LenProperties
  <2>4. \A i \in 1 .. Len(new) : new[i].id = arrived + i
    BY <1>4, <2>3
  <2>5. QED
    BY <2>2, <2>3, <2>4
<1>9. /\ rx' \in Seq(Frames) /\ Len(rx') = Len(rx) + Len(new)
      /\ \A i \in 1 .. Len(rx) + Len(new) :
           rx'[i] = IF i <= Len(rx) THEN rx[i] ELSE new[i - Len(rx)]
  BY <1>6, <1>7, <1>8, ConcatProperties
<1>10. Len(rx) \in Nat /\ DOMAIN rx = 1 .. Len(rx) /\ DOMAIN rx' = 1 .. Len(rx) + Len(new)
  BY <1>7, <1>9, LenProperties
<1>11. \A i \in DOMAIN rx' : \/ i \in DOMAIN rx /\ rx'[i].id = rx[i].id /\ i <= Len(rx)
                             \/ i > Len(rx) /\ rx'[i].id = arrived + (i - Len(rx))
  <2> SUFFICES ASSUME NEW i \in DOMAIN rx', ~(i <= Len(rx))
               PROVE  rx'[i].id = arrived + (i - Len(rx))
    BY <1>9, <1>10
  <2>1. i - Len(rx) \in 1 .. Len(new) /\ rx'[i] = new[i - Len(rx)]
    BY <1>8, <1>9, <1>10, <1>7
  <2>2. QED
    BY <1>8, <2>1
<1>12. \A i \in DOMAIN rx : rx[i].id \in Nat /\ rx[i].id <= arrived
  BY <1>1, <1>7, IdsFacts DEF Numbered
<1>13. \A i \in DOMAIN rx' : i \in Nat /\ i <= Len(rx) + Accepted(n)
  BY <1>8, <1>10, <1>7
<1>14. \A i \in DOMAIN rx' : rx'[i].id <= arrived'
  BY <1>6, <1>7, <1>10, <1>11, <1>12, <1>13
<1>15. \A i, j \in DOMAIN rx' : i < j => rx'[i].id < rx'[j].id
  <2> SUFFICES ASSUME NEW i \in DOMAIN rx', NEW j \in DOMAIN rx', i < j
               PROVE  rx'[i].id < rx'[j].id
    OBVIOUS
  <2>1. CASE j \in DOMAIN rx /\ rx'[j].id = rx[j].id /\ j <= Len(rx)
    <3>1. i \in DOMAIN rx /\ rx'[i].id = rx[i].id
      BY <1>10, <1>11, <1>13, <2>1
    <3>2. QED
      BY <1>1, <2>1, <3>1 DEF Numbered
  <2>2. CASE j > Len(rx) /\ rx'[j].id = arrived + (j - Len(rx))
    <3>1. CASE i \in DOMAIN rx /\ rx'[i].id = rx[i].id
      BY <1>7, <1>10, <1>12, <1>13, <2>2, <3>1
    <3>2. CASE i > Len(rx) /\ rx'[i].id = arrived + (i - Len(rx))
      BY <1>7, <1>10, <1>13, <2>2, <3>2
    <3>3. QED
      BY <1>11, <3>1, <3>2
  <2>3. QED
    BY <1>11, <2>1, <2>2
\* What is smaller than every number in use is smaller than the new ones.
<1>16. ASSUME NEW a \in Nat, a <= arrived, \A i \in DOMAIN rx : a < rx[i].id
       PROVE  a <= arrived' /\ \A i \in DOMAIN rx' : a < rx'[i].id
  BY <1>6, <1>7, <1>10, <1>11, <1>13, <1>16
<1>17. \A a \in Admitted : a <= arrived' /\ \A i \in DOMAIN rx' : a < rx'[i].id
  <2> SUFFICES ASSUME NEW a \in Admitted
               PROVE  a <= arrived' /\ \A i \in DOMAIN rx' : a < rx'[i].id
    OBVIOUS
  <2>1. a \in Nat /\ a <= arrived /\ \A i \in DOMAIN rx : a < rx[i].id
    BY <1>1, AdmittedNat DEF Numbered
  <2>2. QED
    BY <1>16, <2>1
<1>18. comms.at = "parse" =>
         /\ comms.frame.id <= arrived'
         /\ \A a \in Admitted : a < comms.frame.id
         /\ \A i \in DOMAIN rx' : comms.frame.id < rx'[i].id
  <2> SUFFICES ASSUME comms.at = "parse"
               PROVE  /\ comms.frame.id <= arrived'
                      /\ \A a \in Admitted : a < comms.frame.id
                      /\ \A i \in DOMAIN rx' : comms.frame.id < rx'[i].id
    OBVIOUS
  <2>1. comms.frame.id \in Nat
    BY <1>1, PathAssumption DEF TypeOK, CommsOK, Frames
  <2>2. comms.frame.id <= arrived /\ \A i \in DOMAIN rx : comms.frame.id < rx[i].id
    BY <1>1 DEF Numbered
  <2>3. \A a \in Admitted : a < comms.frame.id
    BY <1>1 DEF Numbered
  <2>4. QED
    BY <1>16, <2>1, <2>2, <2>3
<1>19. Numbered'
  BY <1>2, <1>14, <1>15, <1>17, <1>18 DEF Numbered
<1>20. QED
  BY <1>3, <1>19

LEMMA ArrivalReports ==
  ASSUME AckInv, Interrupt \/ Submit \/ InputReady
  PROVE  Reported' /\ Numbered' /\ MarkHolds'
<1>1. UNCHANGED <<comms, bus, motion, acked, answered>>
  BY DEF Interrupt, Submit, InputReady
<1>2. CASE Interrupt
  <2>1. PICK n \in 1 .. BurstMax : \E kinds \in [1 .. n -> Kinds] : Offer(kinds)
    BY <1>2 DEF Interrupt
  <2>2. PICK kinds \in [1 .. n -> Kinds] : Offer(kinds)
    BY <2>1
  <2>3. n \in Nat
    OBVIOUS
  <2>4. QED
    BY <1>1, <2>2, <2>3, OfferNumbers
<1>3. CASE Submit
  <2>1. PICK kind \in Kinds : Offer(<<kind>>)
    BY <1>3 DEF Submit
  <2>2. <<kind>> \in [1 .. 1 -> Kinds]
    OBVIOUS
  <2>3. QED
    BY <1>1, <2>1, <2>2, OfferNumbers
<1>4. CASE InputReady
  <2>1. UNCHANGED <<arrived, rx>>
    BY <1>4 DEF InputReady
  <2>2. Bus' = Bus /\ InMotion' = InMotion
    BY <1>1 DEF Bus, InMotion
  <2>3. Admitted' = Admitted /\ Late' = Late
    BY <1>1, <2>2 DEF Admitted, Late, Ids
  <2>4. QED
    BY <1>1, <2>1, <2>3 DEF AckInv, Reported, Numbered, MarkHolds
<1>5. QED
  BY <1>2, <1>3, <1>4

\* A step of Communications that neither reads nor sends nor reports.
LEMMA QuietReports ==
  ASSUME AckInv, comms.at # "ack", comms'.at \notin {"parse", "ack"},
         UNCHANGED <<arrived, rx, bus, motion, acked, answered>>
  PROVE  Reported' /\ Numbered' /\ MarkHolds'
<1>1. Bus' = Bus /\ InMotion' = InMotion
  BY DEF Bus, InMotion
<1>2. Admitted' = Admitted /\ Late' = Late
  BY <1>1 DEF Admitted, Late, Ids
<1>3. QED
  BY <1>2 DEF AckInv, Reported, Numbered, MarkHolds

LEMMA ReadReports ==
  ASSUME AckInv, Read
  PROVE  Reported' /\ Numbered' /\ MarkHolds'
<1>1. /\ comms.at = "read" /\ rx # <<>> /\ rx' = Tail(rx)
      /\ comms'.at = "parse" /\ comms'.frame = Head(rx)
      /\ UNCHANGED <<arrived, bus, motion, acked, answered>>
  BY DEF Read, CommsAt, CommsIdle
<1>2. Bus' = Bus /\ InMotion' = InMotion
  BY <1>1 DEF Bus, InMotion
<1>3. Admitted' = Admitted /\ Late' = {} /\ Late = {}
  BY <1>1, <1>2 DEF Admitted, Late, Ids
<1>4. rx \in Seq(Frames) /\ Numbered
  BY DEF AckInv, TypeOK, RxOK
<1>5. /\ Tail(rx) \in Seq(Frames) /\ Len(Tail(rx)) = Len(rx) - 1 /\ Head(rx) = rx[1]
      /\ \A i \in 1 .. Len(Tail(rx)) : Tail(rx)[i] = rx[i + 1]
  BY <1>1, <1>4, HeadTailProperties
<1>6. Len(rx) \in Nat /\ Len(rx) # 0 /\ DOMAIN rx = 1 .. Len(rx)
      /\ DOMAIN rx' = 1 .. Len(rx) - 1
  BY <1>1, <1>4, <1>5, LenProperties, EmptySeq
<1>7. 1 \in DOMAIN rx /\ comms'.frame.id = rx[1].id
  BY <1>1, <1>5, <1>6
<1>8. \A i \in DOMAIN rx' : i \in Nat /\ i + 1 \in DOMAIN rx /\ 1 < i + 1 /\ rx'[i] = rx[i + 1]
  BY <1>1, <1>5, <1>6
<1>9. \A i, j \in DOMAIN rx' : i < j => i + 1 < j + 1
  BY <1>8
<1>10. Numbered'
  <2>1. \A i \in DOMAIN rx' : rx'[i].id <= arrived /\ comms'.frame.id < rx'[i].id
    BY <1>4, <1>7, <1>8 DEF Numbered
  <2>2. \A i, j \in DOMAIN rx' : i < j => rx'[i].id < rx'[j].id
    BY <1>4, <1>8, <1>9 DEF Numbered
  <2>3. \A a \in Admitted : a < comms'.frame.id /\ \A i \in DOMAIN rx' : a < rx'[i].id
    BY <1>4, <1>7, <1>8 DEF Numbered
  <2>4. comms'.frame.id <= arrived /\ \A a \in Admitted : a <= arrived
    BY <1>4, <1>7 DEF Numbered
  <2>5. QED
    BY <1>1, <1>3, <2>1, <2>2, <2>3, <2>4 DEF Numbered
<1>11. Reported' /\ MarkHolds'
  BY <1>1, <1>3 DEF AckInv, Reported, MarkHolds
<1>12. QED
  BY <1>10, <1>11

\* The mark moves with the queue, and only to where the queue is.
LEMMA SendMarks ==
  ASSUME TypeOK, MarkHolds, NEW e \in Entries, NEW b, b = BusSend(bus, e)
  PROVE  /\ b.highWater >= Len(b.queue)
         /\ b.highWater # bus.highWater => b.highWater = Len(b.queue)
<1>1. /\ bus \in BusRecords /\ bus.queue \in Seq(Entries) /\ bus.highWater \in 0 .. BusCapacity
      /\ BusCapacity \in Nat /\ Len(bus.queue) \in Nat
  BY LenProperties, PathAssumption DEF TypeOK, BusOK, BusRecords
<1>2. CASE Len(bus.queue) < BusCapacity
  <2> DEFINE q == Append(bus.queue, e)
             h == Greater(bus.highWater, Len(bus.queue) + 1)
  <2>1. b = [bus EXCEPT !.queue = q, !.sent = bus.sent + 1, !.highWater = h]
    BY <1>2 DEF BusSend
  <2>2. Len(q) = Len(bus.queue) + 1
    BY <1>1, AppendProperties
  <2>3. h >= Len(q) /\ (h # bus.highWater => h = Len(q))
    BY <1>1, <2>2 DEF Greater
  <2> HIDE DEF q, h
  <2>4. b.queue = q /\ b.highWater = h
    BY <1>1, <2>1 DEF BusRecords
  <2>5. QED
    BY <2>3, <2>4
<1>3. CASE ~(Len(bus.queue) < BusCapacity)
  <2>1. b = [bus EXCEPT !.rejected = bus.rejected + 1]
    BY <1>3 DEF BusSend
  <2>2. b.queue = bus.queue /\ b.highWater = bus.highWater
    BY <1>1, <2>1 DEF BusRecords
  <2>3. QED
    BY <2>2 DEF MarkHolds
<1>4. QED
  BY <1>2, <1>3

LEMMA SendReports ==
  ASSUME AckInv, Send
  PROVE  Reported' /\ Numbered' /\ MarkHolds' /\ HighWaterIsReached
<1> DEFINE e == [frame |-> comms.frame, waited |-> 0]
<1>1. /\ comms.at = "parse" /\ comms.frame \in Frames
      /\ bus' = BusSend(bus, e)
      /\ comms' = IF Queued(bus, bus') THEN [comms EXCEPT !.at = "ack"]
                                       ELSE [comms EXCEPT !.at = "read", !.frame = NoFrame]
      /\ UNCHANGED <<arrived, rx, motion, acked, answered>>
  BY DEF Send, CommsAt, CommsIdle, AckInv, TypeOK, CommsOK
<1>2. e \in Entries /\ e.frame = comms.frame
  BY <1>1 DEF Entries
<1>3. TypeOK /\ Reported /\ Numbered /\ MarkHolds
  BY DEF AckInv
<1> HIDE DEF e
<1>4. \/ bus'.queue = Append(bus.queue, e) /\ bus'.sent = bus.sent + 1
      \/ bus'.queue = bus.queue /\ bus'.sent = bus.sent
  BY <1>1, <1>2, <1>3, SendFacts
<1>5. MarkHolds' /\ HighWaterIsReached
  BY <1>1, <1>2, <1>3, SendMarks DEF MarkHolds, HighWaterIsReached
<1>6. bus.sent \in Nat /\ Late = {} /\ InMotion' = InMotion
  BY <1>1, <1>3 DEF TypeOK, BusOK, BusRecords, Late, InMotion
<1>7. CASE bus'.queue = bus.queue /\ bus'.sent = bus.sent
  <2>1. comms' = [comms EXCEPT !.at = "read", !.frame = NoFrame]
    BY <1>1, <1>6, <1>7 DEF Queued
  <2>2. comms'.at = "read"
    BY <1>3, <2>1 DEF TypeOK, CommsOK
  <2>3. Bus' = Bus
    BY <1>7 DEF Bus
  <2>4. Admitted' = Admitted /\ Late' = {}
    BY <1>1, <1>6, <2>2, <2>3 DEF Admitted, Late, Ids
  <2>5. QED
    BY <1>1, <1>3, <1>5, <1>6, <2>2, <2>4 DEF Reported, Numbered
<1>8. CASE bus'.queue = Append(bus.queue, e) /\ bus'.sent = bus.sent + 1
  <2>1. comms' = [comms EXCEPT !.at = "ack"]
    BY <1>1, <1>6, <1>8 DEF Queued
  <2>2. comms'.at = "ack" /\ comms'.frame = comms.frame
    BY <1>3, <2>1 DEF TypeOK, CommsOK
  <2>3. bus.queue \in Seq(Entries) /\ Bus = Carried(bus.queue) /\ Bus' = Carried(bus'.queue)
        /\ Bus \in Seq(Frames)
    BY <1>3, PartsAreSeqs DEF Bus, Carried
  <2>4. Bus' = Append(Bus, comms.frame)
    BY <1>2, <1>8, <2>3, CarriedAppend
  <2>5. Ids(Append(Bus, comms.frame)) = Ids(Bus) \cup {comms.frame.id}
    BY <1>1, <2>3, IdsOfAppend
  <2>6. PICK sent : sent = comms.frame.id
    OBVIOUS
  <2>7. Admitted' = Admitted \cup {sent} /\ Late' = {sent}
    BY <1>1, <1>6, <2>2, <2>4, <2>5, <2>6 DEF Admitted, Late, Ids
  <2>8. sent \in Nat /\ sent <= arrived /\ (\A a \in Admitted : a < sent)
        /\ \A i \in DOMAIN rx : sent < rx[i].id
    BY <1>1, <1>3, <2>6, PathAssumption DEF Numbered, Frames
  <2>9. sent \notin Admitted
    BY <2>8
  <2>10. Reported'
    <3>1. acked = Admitted
      BY <1>3, <1>6 DEF Reported
    <3>2. QED
      BY <1>1, <2>7, <2>9, <3>1 DEF Reported
  <2>11. Numbered'
    BY <1>1, <1>3, <2>2, <2>7, <2>8 DEF Numbered
  <2>12. QED
    BY <1>5, <2>10, <2>11
<1>9. QED
  BY <1>4, <1>7, <1>8

LEMMA AckReports ==
  ASSUME AckInv, Ack
  PROVE  Reported' /\ Numbered' /\ MarkHolds'
<1>1. /\ comms.at = "ack" /\ comms'.at = "read"
      /\ acked' = acked \cup {comms.frame.id}
      /\ UNCHANGED <<arrived, rx, bus, motion, answered>>
  BY DEF Ack, CommsAt, CommsIdle, AckInv, TypeOK, CommsOK
<1>2. Bus' = Bus /\ InMotion' = InMotion
  BY <1>1 DEF Bus, InMotion
<1>3. Admitted' = Admitted /\ Late' = {} /\ Late = {comms.frame.id}
  BY <1>1, <1>2 DEF Admitted, Late, Ids
<1>4. QED
  BY <1>1, <1>3 DEF AckInv, Reported, Numbered, MarkHolds

LEMMA CommsReports ==
  ASSUME AckInv, CommsTask \/ TimeOut
  PROVE  Reported' /\ Numbered' /\ MarkHolds'
<1>1. CASE Read
  BY <1>1, ReadReports
<1>2. CASE Send
  BY <1>2, SendReports
<1>3. CASE Ack
  BY <1>3, AckReports
<1>4. CASE Wake \/ TimeOut \/ BatchDone \/ Refuse \/ Check \/ SelfSignal \/ Rested
  <2>1. comms.at # "ack" /\ comms'.at \notin {"parse", "ack"}
        /\ UNCHANGED <<arrived, rx, bus, motion, acked, answered>>
    BY <1>4 DEF Wake, TimeOut, BatchDone, Refuse, Check, SelfSignal, Rested, CommsAt,
                CommsIdle, AckInv, TypeOK, CommsOK
  <2>2. QED
    BY <2>1, QuietReports
<1>5. QED
  BY <1>1, <1>2, <1>3, <1>4 DEF CommsTask

\* Motion moves commands within Admitted.
LEMMA MotionMovesAdmitted ==
  ASSUME TypeOK, Release \/ Cycle
  PROVE  /\ Admitted' = Admitted
         /\ bus'.highWater = bus.highWater
         /\ Len(bus'.queue) <= Len(bus.queue)
<1>1. /\ bus \in BusRecords /\ bus.queue \in Seq(Entries) /\ Len(bus.queue) \in Nat
      /\ Bus \in Seq(Frames) /\ answered \in Seq(Frames)
  BY PartsAreSeqs, LenProperties DEF TypeOK, BusOK, HistoryOK
<1>2. CASE Release
  <2>1. /\ motion.at = "blocked" /\ motion'.at = "receive" /\ answered' = answered
        /\ bus' = [bus EXCEPT !.queue = Older(bus.queue)]
    BY <1>2 DEF Release, MotionOnly, TypeOK, MotionOK
  <2>2. bus'.queue = Older(bus.queue) /\ bus'.highWater = bus.highWater
    BY <1>1, <2>1 DEF BusRecords
  <2>3. Len(bus'.queue) = Len(bus.queue)
    BY <1>1, <2>2, OlderFacts
  <2>4. Bus = Carried(bus.queue) /\ Bus' = Carried(bus'.queue)
    BY DEF Bus, Carried
  <2>5. Bus' = Bus
    BY <1>1, <2>2, <2>4, CarriedOlder
  <2>6. InMotion' = InMotion
    BY <2>1 DEF InMotion
  <2>7. QED
    BY <1>1, <2>1, <2>2, <2>3, <2>5, <2>6 DEF Admitted, Ids
<1>3. CASE Receive
  <2>1. /\ motion.at = "receive" /\ bus.queue # <<>>
        /\ motion'.at = "answer" /\ motion'.frame = Head(bus.queue).frame
        /\ answered' = answered
        /\ bus' = [bus EXCEPT !.queue = Tail(bus.queue), !.received = bus.received + 1]
    BY <1>3 DEF Receive, BusReceive, MotionOnly
  <2>2. bus'.queue = Tail(bus.queue) /\ bus'.highWater = bus.highWater
    BY <1>1, <2>1 DEF BusRecords
  <2>3. Len(Tail(bus.queue)) = Len(bus.queue) - 1
    BY <1>1, <2>1, HeadTailProperties
  <2>4. Bus = Carried(bus.queue) /\ Bus' = Carried(bus'.queue)
    BY DEF Bus, Carried
  <2>5. Bus # <<>> /\ Head(Bus) = Head(bus.queue).frame /\ Bus' = Tail(Bus)
    BY <1>1, <2>1, <2>2, <2>4, CarriedTail
  <2>6. Head(Bus) \in Frames
    BY <1>1, <2>5, HeadTailProperties
  <2>7. InMotion = <<>> /\ InMotion' = <<Head(Bus)>>
    BY <2>1, <2>5 DEF InMotion
  <2>8. Ids(Bus) = Ids(Tail(Bus)) \cup {Head(Bus).id} /\ Ids(<<Head(Bus)>>) = {Head(Bus).id}
    BY <1>1, <2>5, <2>6, IdsOfTail, IdsOfOne
  <2>9. Admitted = Ids(Bus) \cup Ids(answered)
    BY <2>7, IdsOfNone DEF Admitted
  <2>10. Admitted' = Ids(Tail(Bus)) \cup Ids(answered) \cup Ids(<<Head(Bus)>>)
    BY <2>1, <2>5, <2>7 DEF Admitted, Ids
  <2>11. Admitted' = Admitted
    BY <2>8, <2>9, <2>10
  <2>12. Len(bus'.queue) <= Len(bus.queue)
    BY <1>1, <2>2, <2>3
  <2>13. QED
    BY <2>2, <2>11, <2>12
<1>4. CASE Answer
  <2>1. /\ motion.at = "answer" /\ motion'.at = "receive" /\ motion.frame \in Frames
        /\ answered' = Append(answered, motion.frame) /\ bus' = bus
    BY <1>4 DEF Answer, MotionOnly, TypeOK, MotionOK
  <2>2. InMotion = <<motion.frame>> /\ InMotion' = <<>> /\ Bus' = Bus
    BY <2>1 DEF InMotion, Bus
  <2>3. PICK f \in Frames : f = motion.frame
    BY <2>1
  <2>4. Ids(Append(answered, f)) = Ids(answered) \cup {f.id} /\ Ids(<<f>>) = {f.id}
    BY <1>1, IdsOfAppend, IdsOfOne
  <2>5. Admitted = Ids(Bus) \cup Ids(answered) \cup Ids(<<f>>)
    BY <2>2, <2>3 DEF Admitted
  <2>6. Admitted' = Ids(Bus) \cup Ids(Append(answered, f)) \cup Ids(<<>>)
    BY <2>1, <2>2, <2>3 DEF Admitted, Ids
  <2>7. Admitted' = Admitted
    BY <2>4, <2>5, <2>6, IdsOfNone
  <2>8. QED
    BY <1>1, <2>1, <2>7
<1>5. CASE Block
  <2>1. motion.at # "answer" /\ motion'.at # "answer" /\ UNCHANGED <<bus, answered>>
    BY <1>5 DEF Block, MotionOnly, TypeOK, MotionOK
  <2>2. InMotion' = InMotion /\ Bus' = Bus
    BY <2>1 DEF InMotion, Bus
  <2>3. QED
    BY <1>1, <2>1, <2>2 DEF Admitted, Ids
<1>6. QED
  BY <1>2, <1>3, <1>4, <1>5 DEF Cycle

LEMMA MotionReports ==
  ASSUME AckInv, Release \/ Cycle
  PROVE  Reported' /\ Numbered' /\ MarkHolds' /\ bus'.highWater = bus.highWater
<1>1. TypeOK /\ Reported /\ Numbered /\ MarkHolds
  BY DEF AckInv
<1>2. UNCHANGED <<arrived, rx, comms, acked>>
  BY DEF Release, Cycle, Receive, Answer, Block, MotionOnly
<1>3. /\ Admitted' = Admitted /\ bus'.highWater = bus.highWater
      /\ Len(bus'.queue) <= Len(bus.queue)
  BY <1>1, MotionMovesAdmitted
<1>4. TypeOK'
  BY <1>1, MotionType
<1>5. Len(bus.queue) \in Nat /\ Len(bus'.queue) \in Nat /\ bus.highWater \in Nat
  <2>1. bus.queue \in Seq(Entries) /\ bus'.queue \in Seq(Entries)
    BY <1>1, <1>4 DEF TypeOK, BusOK, BusRecords
  <2>2. bus.highWater \in Nat
    BY <1>1, PathAssumption DEF TypeOK, BusOK, BusRecords
  <2>3. QED
    BY <2>1, <2>2, LenProperties
<1>6. MarkHolds'
  BY <1>1, <1>3, <1>5 DEF MarkHolds
<1>7. Late' = Late
  BY <1>2 DEF Late
<1>8. QED
  BY <1>1, <1>2, <1>3, <1>6, <1>7 DEF Reported, Numbered

LEMMA StepReports ==
  ASSUME AckInv, [Next]_vars
  PROVE  AckInv' /\ [HighWaterIsReached]_vars
<1>1. TypeOK'
  BY TypeStep DEF AckInv
<1>2. CASE UNCHANGED vars
  <2>1. Bus' = Bus /\ InMotion' = InMotion
    BY <1>2 DEF vars, Bus, InMotion
  <2>2. Admitted' = Admitted /\ Late' = Late
    BY <1>2, <2>1 DEF vars, Admitted, Late, Ids
  <2>3. QED
    BY <1>1, <1>2, <2>2 DEF vars, AckInv, Reported, Numbered, MarkHolds
<1>3. CASE Next
  <2>1. Reported' /\ Numbered' /\ MarkHolds'
    BY <1>3, ArrivalReports, CommsReports, MotionReports DEF Next
  <2>2. HighWaterIsReached
    <3>1. CASE Send
      BY <3>1, SendReports
    <3>2. CASE bus'.highWater = bus.highWater
      BY <2>1, <3>2 DEF MarkHolds, HighWaterIsReached
    <3>3. Send \/ bus' = bus \/ Release \/ Cycle
      BY <1>3 DEF Next, Interrupt, Submit, InputReady, CommsTask, TimeOut, Wake, Read,
                  BatchDone, Refuse, Ack, Check, SelfSignal, Rested
    <3>4. QED
      BY <3>1, <3>2, <3>3, MotionReports
  <2>3. QED
    BY <1>1, <2>1, <2>2 DEF AckInv
<1>4. QED
  BY <1>2, <1>3

\* Every report is true at the moment it is given: an ACK QUEUED names a command
\* that the bus has accepted, none is left without one but the command whose
\* report is on its way, and the high-water mark is a use the bus has had.
THEOREM ReportsHold == Spec => ReportsAreTrue
<1>1. Init => AckInv
  BY InitReports
<1>2. AckInv /\ [Next]_vars => AckInv' /\ [HighWaterIsReached]_vars
  BY StepReports
<1>3. AckInv => AcksAreTrue
  BY ReportsAreReported DEF AckInv
<1>4. QED
  BY <1>1, <1>2, <1>3, PTL DEF Spec, ReportsAreTrue
=============================================================================
