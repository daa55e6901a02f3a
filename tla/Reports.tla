------------------------------ MODULE Reports ------------------------------
(***************************************************************************)
(* Diagnostics and telemetry: firmware/rtos/diagnostics.c, the places in   *)
(* the tasks that report, tasks/telemetry_task.c, runtime_snapshot, and    *)
(* the two telemetry adapters.  Safety, Motion and Communications queue    *)
(* records without ever waiting; Telemetry, below all of them, takes them  *)
(* out and prints them between its snapshots.  Texts are reduced to kinds. *)
(***************************************************************************)
EXTENDS Integers, Sequences, FiniteSets

CONSTANTS
  Capacity,    \* DIAGNOSTIC_CAPACITY
  MaxRecords   \* bound: records made in a behaviour

ASSUME ReportsAssumption == Capacity \in Nat \ {0} /\ MaxRecords \in Nat

Producers == {"Safety", "Motion", "Comms"}

VARIABLES
  world,     \* runtime_data, as far as these properties tell it apart
  queue,     \* the diagnostic queue
  dropped,   \* dropped
  todo,      \* what each producer still reports before it waits again
  refused,   \* producers whose xQueueSend failed and is not counted yet
  tele,      \* Telemetry
  made,      \* history: records made, the number of the last one
  count,     \* history: the records Telemetry took ...
  last,      \* ... and the last of them
  shown      \* history: what the lines of the current group were made of

vars == <<world, queue, dropped, todo, refused, tele, made, count, last, shown>>
taken == <<count, last>>
reported == <<queue, dropped, refused, made>>

\* Safety's state, and whether the applied output is not zero.
Worlds == [state: {"IDLE", "FAULT", "ESTOP"}, applied: BOOLEAN]

\* The five lines of emit_snapshot.
GroupLines == <<"motion", "safety", "health", "home", "counters">>

NoSnapshot == [world |-> [state |-> "IDLE", applied |-> FALSE], drops |-> 0, lost |-> 0]

NoRecord == [kind |-> "none", id |-> 0]

Init ==
  /\ world = [state |-> "IDLE", applied |-> FALSE]
  /\ queue = <<>> /\ dropped = 0 /\ refused = {} /\ made = 0
  /\ todo = [p \in Producers |-> <<>>]
  /\ tele = [at |-> "wait", left |-> 0, lines |-> <<>>, snapshot |-> NoSnapshot, mark |-> 0]
  /\ count = 0 /\ last = NoRecord /\ shown = {}

----------------------------------------------------------------------------
(***************************************************************************)
(* The producers.                                                          *)
(***************************************************************************)
Busy(p) == todo[p] # <<>>

\* Mutant: the tasks share one priority and a tick changes between them.
NobodyAbove(p) == FALSE

\* Strict priorities: Safety, Motion, Communications, Telemetry.
Preempted(p) ==
  \/ p # "Safety" /\ Busy("Safety")
  \/ p \in {"Comms", "Telemetry"} /\ Busy("Motion")
  \/ p = "Telemetry" /\ Busy("Comms")

\* Records announced but not made yet.
Owed == Len(todo["Safety"]) + Len(todo["Motion"]) + Len(todo["Comms"]) - Cardinality(refused)

\* Reports of one pass of a task: what it will queue, one after the other.
Starts(p, records) ==
  /\ ~Busy(p) /\ ~Preempted(p) /\ made + Owed + Len(records) <= MaxRecords
  /\ todo' = [todo EXCEPT ![p] = records]
  /\ UNCHANGED <<reported, tele, taken, shown>>

\* Safety's section latches a fault, or an E-stop over one, and zeroes the output;
\* the text and the name of the fault follow outside of it.
SafetyTrips ==
  /\ Starts("Safety", <<"text", "name">>)
  /\ \E state \in {"FAULT", "ESTOP"} :
       /\ world.state = "IDLE" \/ (world.state = "FAULT" /\ state = "ESTOP")
       /\ world' = [state |-> state, applied |-> FALSE]

\* Motion's sections: RESET clears the latch, an evaluation or an error of its own
\* may set it, and without one Motion may drive.  A command is answered, and a
\* change of state has its text, before the answer if there is one.
MotionActs ==
  /\ \E records \in {<<>>, <<"received">>, <<"other">>, <<"other", "other">>} :
       Starts("Motion", records)
  /\ world' \in {w \in Worlds : w.state # "IDLE" => ~w.applied}

CommsActs ==
  /\ Starts("Comms", <<"other">>)
  /\ UNCHANGED world

\* Mutant: one record more than the storage holds.
RoomForOneMore == Len(queue) <= Capacity

Room == Len(queue) < Capacity

\* Mutant: a full queue gives up its oldest record.
PutOldestOut(p, record) ==
  /\ queue' = Append(IF Room THEN queue ELSE Tail(queue), record)
  /\ UNCHANGED refused

\* Mutant: xQueueSend waits for room.
PutWaits(p, record) == Room /\ queue' = Append(queue, record) /\ UNCHANGED refused

\* xQueueSend without a wait, its result still to be looked at.
Put(p, record) ==
  IF Room THEN queue' = Append(queue, record) /\ UNCHANGED refused
          ELSE refused' = refused \cup {p} /\ UNCHANGED queue

\* send_record, up to its result.
Send(p) ==
  /\ Busy(p) /\ p \notin refused /\ ~Preempted(p)
  /\ made' = made + 1
  /\ Put(p, [kind |-> Head(todo[p]), id |-> made + 1])
  /\ todo' = IF p \in refused' THEN todo ELSE [todo EXCEPT ![p] = Tail(@)]
  /\ UNCHANGED <<world, dropped, tele, taken, shown>>

\* send_record's section for a record that was refused.
CountDrop(p) ==
  /\ p \in refused /\ ~Preempted(p)
  /\ dropped' = dropped + 1
  /\ refused' = refused \ {p}
  /\ todo' = [todo EXCEPT ![p] = Tail(@)]
  /\ UNCHANGED <<world, queue, made, tele, taken, shown>>

----------------------------------------------------------------------------
(***************************************************************************)
(* Telemetry.                                                              *)
(***************************************************************************)
TeleAt(place) == tele.at = place /\ ~Preempted("Telemetry")

Observes == UNCHANGED <<world, dropped, todo, refused, made>>

\* Mutant: the loop ends one record early.
DrainShort == Capacity - 1

DrainLimit == Capacity

Release ==
  /\ TeleAt("wait")
  /\ tele' = [tele EXCEPT !.at = "drain", !.left = DrainLimit, !.mark = made]
  /\ shown' = {}
  /\ Observes /\ UNCHANGED <<queue, taken>>

\* runtime_snapshot, one critical section.  lost is history: the records that
\* are neither queued nor taken.
Snapshot ==
  [world |-> world, drops |-> dropped, lost |-> made - Len(queue) - count]

\* diagnostics_receive, and platform_diagnostic_emit up to its lines; the one
\* of STATUS takes a snapshot of its own.
Receive ==
  /\ TeleAt("drain") /\ tele.left > 0 /\ queue # <<>>
  /\ queue' = Tail(queue) /\ count' = count + 1 /\ last' = Head(queue)
  /\ \/ tele' = [tele EXCEPT !.left = @ - 1]
     \/ /\ Head(queue).kind = "received"
        /\ tele' = [tele EXCEPT !.left = @ - 1, !.at = "status"]
  /\ shown' = {}
  /\ Observes

StatusSnapshot ==
  /\ TeleAt("status")
  /\ tele' = [tele EXCEPT !.at = "answer", !.lines = GroupLines, !.snapshot = Snapshot]
  /\ shown' = {}
  /\ Observes /\ UNCHANGED <<queue, taken>>

\* The queue is empty or the limit reached: the cycle's own snapshot.
CycleSnapshot ==
  /\ TeleAt("drain") /\ (tele.left = 0 \/ queue = <<>>)
  /\ tele' = [tele EXCEPT !.at = "print", !.lines = GroupLines, !.snapshot = Snapshot, !.left = 0]
  /\ shown' = {}
  /\ Observes /\ UNCHANGED <<queue, taken>>

\* Mutant: each line reads the runtime again.
SourceLive == Snapshot

\* emit_snapshot: the copy that every line of a group is made of.
Source == tele.snapshot

\* A line.  After the last one Telemetry goes on draining, or waits if the
\* group was the cycle's own.
PrintLine ==
  /\ TeleAt("print") \/ TeleAt("answer")
  /\ shown' = shown \cup {Source}
  /\ tele' = [tele EXCEPT !.lines = Tail(@),
                          !.at = IF Len(tele.lines) > 1 THEN @
                                 ELSE IF @ = "answer" THEN "drain" ELSE "wait",
                          !.snapshot = IF Len(tele.lines) > 1 THEN @ ELSE NoSnapshot]
  /\ Observes /\ UNCHANGED <<queue, taken>>

Producer == SafetyTrips \/ MotionActs \/ CommsActs

Reporting == \E p \in Producers : Send(p) \/ CountDrop(p)

Telemetry == Release \/ Receive \/ StatusSnapshot \/ CycleSnapshot \/ PrintLine

Next == Producer \/ Reporting \/ Telemetry

\* A task that reports keeps the processor unless a higher one takes it.  Of
\* Telemetry nothing is assumed: it may hang in its output for ever.
Spec == Init /\ [][Next]_vars /\ WF_vars(Reporting)
----------------------------------------------------------------------------
(***************************************************************************)
(* Properties.                                                             *)
(***************************************************************************)
\* The text and the name of a fault, a STATUS or HELP received, any other record.
Kinds == {"text", "name", "received", "other"}

Records == [kind: Kinds, id: 1 .. MaxRecords]

Snapshots == [world: Worlds, drops: 0 .. MaxRecords, lost: 0 .. MaxRecords]

TypeOK ==
  /\ world \in Worlds /\ queue \in Seq(Records) /\ Len(queue) <= Capacity
  /\ dropped \in 0 .. MaxRecords /\ made \in 0 .. MaxRecords
  /\ todo \in [Producers -> Seq(Kinds)] /\ refused \subseteq Producers
  /\ tele.at \in {"wait", "drain", "status", "answer", "print"}
  /\ tele.left \in 0 .. Capacity /\ tele.mark \in 0 .. MaxRecords
  /\ tele.snapshot \in Snapshots
  /\ count \in 0 .. MaxRecords /\ last \in Records \cup {NoRecord}
  /\ shown \subseteq Snapshots

\* diagnostics.c:19-28.  The queue and the counter change in separate sections,
\* yet a snapshot, taken by Telemetry, never misses a record: what was refused
\* has been counted.
SnapshotCountsAll ==
  tele.at \in {"answer", "print"} => tele.snapshot.drops = tele.snapshot.lost

\* safety_task.c:21-24.  The name of a fault is printed right behind the text
\* that announces it, or not at all, however full the queue is.
NameFollowsText ==
  [][last' # last /\ last'.kind = "name" =>
       last.kind = "text" /\ last.id = last'.id - 1]_vars

\* telemetry_task.c:10-14.  One cycle drains every record that was queued when
\* it began, a full queue too.
DrainCoversQueue ==
  tele.at = "print" => \A i \in DOMAIN queue : queue[i].id > tele.mark

\* The queue gives up nothing silently: neither to the drop counter's lag nor to
\* the end of a cycle.
NothingIsLost == SnapshotCountsAll /\ DrainCoversQueue

\* protocol.md:85.  The lines of a group share one state of the runtime, also when
\* Motion or Safety preempts Telemetry between two of them; so no group shows a
\* latched fault beside an output of another moment.
GroupsAreCoherent ==
  \A a, b \in shown : a = b /\ (a.world.state # "IDLE" => ~a.world.applied)

\* architecture.md:92-93.  Whatever the output does, a task that reports comes
\* to the end of it.
SendsFinish == \A p \in Producers : Busy(p) ~> ~Busy(p)
=============================================================================
