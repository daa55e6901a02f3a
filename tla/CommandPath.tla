---------------------------- MODULE CommandPath ----------------------------
(***************************************************************************)
(* The way of a command from the receive interrupt to Motion: the queue of *)
(* frames (uart.c, input_host.c), Communications with its notification     *)
(* (comms_task.c), the command bus (command_bus.c) and Motion's receipt    *)
(* (motion_task.c).  What Motion then does with a command is ControlLoop.  *)
(*                                                                         *)
(* A frame is its number of arrival and what the parser makes of it.       *)
(* Priorities are strict: Communications runs only while Motion is         *)
(* blocked, the simulator's harness only while both are.  An interrupt may *)
(* come between any two steps.  Statistics that nothing on the path reads  *)
(* (input_notifications, received_by_type, last_command) are left out, and *)
(* so are the texts given to Telemetry.                                    *)
(***************************************************************************)
EXTENDS Integers, Sequences

CONSTANTS
  RxCapacity,       \* frames the receive queue holds
  BusCapacity,      \* commands the bus holds (COMMAND_QUEUE_CAPACITY)
  Batch,            \* frames Communications takes per wake-up
  CommandsPerCycle, \* commands Motion takes per cycle
  BurstMax,         \* frames one tick of the host hook may release
  MaxFrames,        \* bound: frames that arrive in a behaviour
  NoticeMax         \* bound: notifications pending when the harness adds one

ASSUME PathAssumption ==
  /\ {RxCapacity, BusCapacity, Batch, CommandsPerCycle, BurstMax} \subseteq Nat \ {0}
  /\ MaxFrames \in Nat /\ NoticeMax \in Nat

VARIABLES
  arrived,  \* frames released by the outside so far
  rx,       \* the receive queue
  rxDrops,  \* frames that found it full
  notices,  \* Communications' notification count
  comms,    \* Communications: where it is, what it holds, its budget
  errors,   \* frames the parser refused
  bus,      \* the command bus and its counters
  motion,   \* Motion: where it is, what it holds, its budget
  harness,  \* the harness has submitted a frame and not yet signalled it
  acked,    \* history: numbers of the commands reported as queued
  answered  \* history: the commands Motion has answered

vars == <<arrived, rx, rxDrops, notices, comms, errors, bus, motion, harness, acked, answered>>

Kinds  == {"command", "malformed"}
Frames == [id: 1 .. MaxFrames, kind: Kinds]
NoFrame == [id |-> 0, kind |-> "malformed"]

\* A command on the bus; waited is a history: the cycles Motion has begun
\* while the command was queued.
Entries == [frame: Frames, waited: Nat]

BusRecords == [queue: Seq(Entries), sent: Nat, received: Nat, rejected: Nat,
               highWater: 0 .. BusCapacity]

EmptyBus == [queue |-> <<>>, sent |-> 0, received |-> 0, rejected |-> 0, highWater |-> 0]

Init ==
  /\ arrived = 0 /\ rx = <<>> /\ rxDrops = 0 /\ notices = 0
  /\ comms = [at |-> "wait", frame |-> NoFrame, left |-> 0]
  /\ errors = 0 /\ bus = EmptyBus
  /\ motion = [at |-> "blocked", frame |-> NoFrame, left |-> 0]
  /\ harness = FALSE
  /\ acked = {} /\ answered = <<>>

----------------------------------------------------------------------------
(***************************************************************************)
(* Arrival.  A burst is offered to the queue frame by frame; what does not *)
(* fit is dropped and counted.                                             *)
(***************************************************************************)
\* Mutant: one frame more than the storage holds.
RoomForOneMore == RxCapacity + 1 - Len(rx)

Room == RxCapacity - Len(rx)

Accepted(n) == IF n <= Room THEN n ELSE Room

Offer(kinds) ==
  LET n == Len(kinds)
  IN  /\ arrived + n <= MaxFrames
      /\ arrived' = arrived + n
      /\ rx' = rx \o [i \in 1 .. Accepted(n) |-> [id |-> arrived + i, kind |-> kinds[i]]]
      /\ rxDrops' = rxDrops + n - Accepted(n)

Give == notices' = notices + 1

\* The UART interrupt (one frame) and the host's tick hook (one or more)
\* notify once if anything was queued.
Interrupt ==
  /\ \E n \in 1 .. BurstMax : \E kinds \in [1 .. n -> Kinds] : Offer(kinds)
  /\ IF Room > 0 THEN Give ELSE UNCHANGED notices
  /\ UNCHANGED <<comms, errors, bus, motion, harness, acked, answered>>

CommsBlocked == comms.at = "sleep" \/ (comms.at = "wait" /\ notices = 0)

HarnessRuns == motion.at = "blocked" /\ CommsBlocked

\* host_input_submit queues without a signal ...
Submit ==
  /\ HarnessRuns /\ ~harness
  /\ \E kind \in Kinds : Offer(<<kind>>)
  /\ harness' = TRUE
  /\ UNCHANGED <<notices, comms, errors, bus, motion, acked, answered>>

\* ... and runtime_input_ready signals, also when nothing was submitted.
InputReady ==
  /\ HarnessRuns /\ notices < NoticeMax
  /\ Give /\ harness' = FALSE
  /\ UNCHANGED <<arrived, rx, rxDrops, comms, errors, bus, motion, acked, answered>>

----------------------------------------------------------------------------
(***************************************************************************)
(* Communications.                                                         *)
(***************************************************************************)
CommsAt(place) == comms.at = place /\ motion.at = "blocked"

CommsIdle == UNCHANGED <<arrived, rxDrops, motion, harness, answered>>

\* ulTaskNotifyTake returns on a notification, clearing the count ...
Wake ==
  /\ CommsAt("wait") /\ notices > 0
  /\ notices' = 0
  /\ comms' = [comms EXCEPT !.at = "read", !.left = Batch]
  /\ CommsIdle /\ UNCHANGED <<rx, errors, bus, acked>>

\* ... or after 50 ms without one.
TimeOut ==
  /\ CommsAt("wait") /\ notices = 0
  /\ comms' = [comms EXCEPT !.at = "read", !.left = Batch]
  /\ CommsIdle /\ UNCHANGED <<rx, notices, errors, bus, acked>>

Read ==
  /\ CommsAt("read") /\ comms.left > 0 /\ rx # <<>>
  /\ rx' = Tail(rx)
  /\ comms' = [at |-> "parse", frame |-> Head(rx), left |-> comms.left - 1]
  /\ CommsIdle /\ UNCHANGED <<notices, errors, bus, acked>>

BatchDone ==
  /\ CommsAt("read") /\ (comms.left = 0 \/ rx = <<>>)
  /\ comms' = [comms EXCEPT !.at = "check"]
  /\ CommsIdle /\ UNCHANGED <<rx, notices, errors, bus, acked>>

Refuse ==
  /\ CommsAt("parse") /\ comms.frame.kind = "malformed"
  /\ errors' = errors + 1
  /\ comms' = [comms EXCEPT !.at = "read", !.frame = NoFrame]
  /\ CommsIdle /\ UNCHANGED <<rx, notices, bus, acked>>

Greater(a, b) == IF a > b THEN a ELSE b

\* Mutant: the high-water mark is read before the command is queued.
BusSendEarlyMark(b, frame) ==
  IF Len(b.queue) < BusCapacity
  THEN [b EXCEPT !.queue = Append(@, frame), !.sent = @ + 1,
                 !.highWater = Greater(@, Len(b.queue))]
  ELSE [b EXCEPT !.rejected = @ + 1]

\* Mutant: a command that is refused is not counted.
BusSendUncounted(b, frame) ==
  IF Len(b.queue) < BusCapacity
  THEN [b EXCEPT !.queue = Append(@, frame), !.sent = @ + 1,
                 !.highWater = Greater(@, Len(b.queue) + 1)]
  ELSE b

\* Mutant: commands are queued at the front.
BusSendFront(b, frame) ==
  IF Len(b.queue) < BusCapacity
  THEN [b EXCEPT !.queue = <<frame>> \o @, !.sent = @ + 1,
                 !.highWater = Greater(@, Len(b.queue) + 1)]
  ELSE [b EXCEPT !.rejected = @ + 1]

\* command_bus_send, one critical section.
BusSend(b, frame) ==
  IF Len(b.queue) < BusCapacity
  THEN [b EXCEPT !.queue = Append(@, frame), !.sent = @ + 1,
                 !.highWater = Greater(@, Len(b.queue) + 1)]
  ELSE [b EXCEPT !.rejected = @ + 1]

\* Mutant: the command that takes the last place is reported as refused.
QueuedWithRoomLeft(before, after) == after.sent > before.sent /\ Len(after.queue) < BusCapacity

\* What command_bus_send returns.
Queued(before, after) == after.sent > before.sent

Send ==
  /\ CommsAt("parse") /\ comms.frame.kind = "command"
  /\ bus' = BusSend(bus, [frame |-> comms.frame, waited |-> 0])
  /\ comms' = IF Queued(bus, bus') THEN [comms EXCEPT !.at = "ack"]
                                   ELSE [comms EXCEPT !.at = "read", !.frame = NoFrame]
  /\ CommsIdle /\ UNCHANGED <<rx, notices, errors, acked>>

\* diagnostics_command(DIAG_QUEUED): after the critical section of the bus.
Ack ==
  /\ CommsAt("ack")
  /\ acked' = acked \cup {comms.frame.id}
  /\ comms' = [comms EXCEPT !.at = "read", !.frame = NoFrame]
  /\ CommsIdle /\ UNCHANGED <<rx, notices, errors, bus>>

\* Mutant: Communications trusts the notifications and leaves the check out.
PendingNever == FALSE

\* uart_rx_pending.
Pending == rx # <<>>

Check ==
  /\ CommsAt("check")
  /\ comms' = [comms EXCEPT !.at = IF Pending THEN "signal" ELSE "wait"]
  /\ CommsIdle /\ UNCHANGED <<rx, notices, errors, bus, acked>>

SelfSignal ==
  /\ CommsAt("signal")
  /\ Give
  /\ comms' = [comms EXCEPT !.at = "sleep"]
  /\ CommsIdle /\ UNCHANGED <<rx, errors, bus, acked>>

\* vTaskDelay(1).
Rested ==
  /\ CommsAt("sleep")
  /\ comms' = [comms EXCEPT !.at = "wait"]
  /\ CommsIdle /\ UNCHANGED <<rx, notices, errors, bus, acked>>

CommsTask ==
  Wake \/ Read \/ BatchDone \/ Refuse \/ Send \/ Ack \/ Check \/ SelfSignal \/ Rested

----------------------------------------------------------------------------
(***************************************************************************)
(* Motion.                                                                 *)
(***************************************************************************)
MotionOnly == UNCHANGED <<arrived, rx, rxDrops, notices, comms, errors, harness, acked>>

Older(queue) ==
  [i \in DOMAIN queue |-> [frame |-> queue[i].frame, waited |-> queue[i].waited + 1]]

\* A release of Motion; every queued command has waited one cycle more.
Release ==
  /\ motion.at = "blocked"
  /\ motion' = [motion EXCEPT !.at = "receive", !.left = CommandsPerCycle]
  /\ bus' = [bus EXCEPT !.queue = Older(bus.queue)]
  /\ MotionOnly /\ UNCHANGED answered

\* Mutant: the command is read but not removed.
BusReceivePeek(b) == [b EXCEPT !.received = @ + 1]

\* command_bus_receive, one critical section.
BusReceive(b) == [b EXCEPT !.queue = Tail(@), !.received = @ + 1]

Receive ==
  /\ motion.at = "receive" /\ motion.left > 0 /\ bus.queue # <<>>
  /\ bus' = BusReceive(bus)
  /\ motion' = [at |-> "answer", frame |-> Head(bus.queue).frame, left |-> motion.left - 1]
  /\ MotionOnly /\ UNCHANGED answered

\* The command is executed and its result reported.
Answer ==
  /\ motion.at = "answer"
  /\ answered' = Append(answered, motion.frame)
  /\ motion' = [motion EXCEPT !.at = "receive", !.frame = NoFrame]
  /\ MotionOnly /\ UNCHANGED bus

\* The cycle goes on without commands and Motion blocks until the next.
Block ==
  /\ motion.at = "receive" /\ (motion.left = 0 \/ bus.queue = <<>>)
  /\ motion' = [motion EXCEPT !.at = "blocked", !.left = 0]
  /\ MotionOnly /\ UNCHANGED <<bus, answered>>

Cycle == Receive \/ Answer \/ Block

----------------------------------------------------------------------------
Next ==
  \/ Interrupt \/ Submit \/ InputReady
  \/ CommsTask \/ TimeOut
  \/ Release \/ Cycle

Spec == Init /\ [][Next]_vars

\* Motion is released for ever and ends its cycles; Communications gets the
\* processor again and again; the harness signals what it has submitted.
\* Nothing is assumed of the 50 ms timeout.
Fairness ==
  /\ WF_vars(Release) /\ WF_vars(Cycle)
  /\ SF_vars(CommsTask)
  /\ SF_vars(harness /\ InputReady)

LiveSpec == Spec /\ Fairness

----------------------------------------------------------------------------
(***************************************************************************)
(* Properties.                                                             *)
(***************************************************************************)
RxOK == /\ arrived \in 0 .. MaxFrames /\ rx \in Seq(Frames) /\ Len(rx) <= RxCapacity
        /\ rxDrops \in Nat /\ errors \in Nat /\ harness \in BOOLEAN

NoticesOK == notices \in Nat

CommsOK ==
  /\ comms \in [at: {"wait", "read", "parse", "ack", "check", "signal", "sleep"},
                frame: Frames \cup {NoFrame}, left: 0 .. Batch]
  /\ comms.at \in {"parse", "ack"} => comms.frame \in Frames

BusOK == bus \in BusRecords /\ Len(bus.queue) <= BusCapacity

MotionOK ==
  /\ motion \in [at: {"blocked", "receive", "answer"}, frame: Frames \cup {NoFrame},
                 left: 0 .. CommandsPerCycle]
  /\ motion.at = "answer" => motion.frame \in Frames

HistoryOK == acked \subseteq 1 .. MaxFrames /\ answered \in Seq(Frames)

TypeOK == RxOK /\ NoticesOK /\ CommsOK /\ BusOK /\ MotionOK /\ HistoryOK

\* Communications never waits on input with no wake-up due: a frame in the
\* queue is matched by a notification, without the help of the 50 ms timeout
\* (the comment at comms_task.c:42-43).
NoSleepOnInput == comms.at = "wait" /\ rx # <<>> => notices > 0 \/ harness

\* The counters of a snapshot, taken between any two steps, agree with each
\* other and with the queues: every frame is in one place or one counter.
CountersAgree ==
  /\ bus.sent = bus.received + Len(bus.queue)
  /\ arrived = rxDrops + Len(rx) + (IF comms.at = "parse" THEN 1 ELSE 0)
               + errors + bus.sent + bus.rejected
  /\ bus.received = Len(answered) + (IF motion.at = "answer" THEN 1 ELSE 0)

\* The high-water mark is at no moment below the use of the bus, and it is
\* raised only to a level that was reached.
HighWaterIsReached ==
  /\ bus'.highWater >= Len(bus'.queue)
  /\ bus'.highWater # bus.highWater => bus'.highWater = Len(bus'.queue)

\* A queued command, ESTOP among them, is taken within the cycles that the
\* bus in front of it needs, whatever arrives meanwhile.
WaitBounded ==
  \A i \in DOMAIN bus.queue :
    bus.queue[i].waited * CommandsPerCycle <= BusCapacity + CommandsPerCycle - 1

Bus   == [i \in DOMAIN bus.queue |-> bus.queue[i].frame]
InComms  == IF comms.at = "parse" THEN <<comms.frame>> ELSE <<>>
InMotion == IF motion.at = "answer" THEN <<motion.frame>> ELSE <<>>

\* The path keeps the promise of CommandPipe.
Promise == INSTANCE CommandPipe WITH
  pipe <- InMotion \o Bus \o InComms \o rx,
  out  <- answered,
  lost <- rxDrops + errors + bus.rejected

ImplementsPipe == Promise!Spec

InFlight == {f.id : f \in {(InMotion \o Bus \o InComms \o rx)[i] :
                           i \in DOMAIN (InMotion \o Bus \o InComms \o rx)}}

\* Every frame that arrives meets its fate: answered, refused, or counted.
FramesEnd == \A id \in 1 .. MaxFrames : (arrived >= id ~> id \notin InFlight)

\* ACK QUEUED is reported for exactly the commands that Motion gets, with no
\* promise of order (comms_task.c:37-38): at most one is late, in the hands of
\* Communications, and it may be answered before it is reported.
AcksAreTrue ==
  LET admitted == {bus.queue[i].frame.id : i \in DOMAIN bus.queue}
                  \cup {answered[i].id : i \in DOMAIN answered}
                  \cup (IF motion.at = "answer" THEN {motion.frame.id} ELSE {})
      late     == IF comms.at = "ack" THEN {comms.frame.id} ELSE {}
  IN  late \subseteq admitted /\ acked = admitted \ late

\* What the system says of its command path is true: each report, and the mark.
ReportsAreTrue == [][AcksAreTrue' /\ HighWaterIsReached]_vars
=============================================================================
