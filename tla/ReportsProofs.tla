---------------------------- MODULE ReportsProofs ----------------------------
(***************************************************************************)
(* Theorems about the reports, for every capacity of the diagnostic queue  *)
(* and every number of records: the counters of a snapshot miss nothing, a *)
(* cycle drains what it found, a group of lines is of one state, and the   *)
(* name of a fault stands behind its text.                                 *)
(***************************************************************************)
EXTENDS Reports, SequenceTheorems, FiniteSetTheorems, TLAPS

Lines == {"motion", "safety", "health", "home", "counters"}

Places == {"wait", "drain", "status", "answer", "print"}

Shape ==
  /\ world \in Worlds /\ queue \in Seq(Records) /\ Len(queue) <= Capacity
  /\ dropped \in Nat /\ made \in Nat /\ count \in Nat
  /\ todo \in [Producers -> Seq(Kinds)] /\ refused \subseteq Producers
  /\ tele \in [at: Places, left: 0 .. Capacity, lines: Seq(Lines), snapshot: Snapshots,
               mark: 0 .. MaxRecords]
  /\ last \in Records \cup {NoRecord}
  /\ shown \subseteq Snapshots

\* Every record made is in the queue, taken, counted as dropped, or in the hands
\* of a producer that is about to count it; and what is announced stays in bound.
Accounts ==
  /\ \A p \in refused : Busy(p)
  /\ made = Len(queue) + count + dropped + Cardinality(refused)
  /\ made + Owed <= MaxRecords

\* A snapshot in use was taken with no drop outstanding, and has a line to print.
Counted == tele.at \in {"answer", "print"} =>
             tele.snapshot.drops = tele.snapshot.lost /\ tele.lines # <<>>

\* A record that was queued when the cycle began is within reach of its drain.
Covers ==
  /\ tele.mark <= made
  /\ tele.at # "wait" => \A i \in DOMAIN queue : queue[i].id <= tele.mark => i <= tele.left
  /\ tele.at = "print" => tele.left = 0

\* A latched fault has the output at zero, in every copy too, and the lines of
\* the group that is being printed are of its one snapshot.
Safe(w) == w.state # "IDLE" => ~w.applied

Coherent ==
  /\ Safe(world) /\ Safe(tele.snapshot.world)
  /\ \A a, b \in shown : a = b /\ Safe(a.world)
  /\ tele.at \in {"answer", "print"} => shown \subseteq {tele.snapshot}

\* The record that r, a name, belongs to.
Announces(r, s) == r.kind = "text" /\ r.id = s.id - 1

\* A name in the queue has its text in front of it; at the front, the text was
\* the last record taken.  While Safety still owes the name nobody else touches
\* the queue, so that either the text is the newest record or there is no room.
Paired ==
  /\ \A i \in DOMAIN queue : queue[i].kind = "name" =>
       IF i = 1 THEN Announces(last, queue[1]) ELSE Announces(queue[i - 1], queue[i])
  /\ \A p \in Producers \ {"Safety"} : todo[p] \in Seq(Kinds \ {"name"})
  /\ todo["Safety"] \in {<<>>, <<"text", "name">>, <<"name">>}
  /\ "Safety" \in refused => ~Room
  /\ todo["Safety"] = <<"name">> /\ Room =>
       queue # <<>> /\ queue[Len(queue)].kind = "text" /\ queue[Len(queue)].id = made

ReportsInv == Shape /\ Accounts /\ Counted /\ Covers /\ Coherent /\ Paired

----------------------------------------------------------------------------
(***************************************************************************)
(* Counting the three producers.                                           *)
(***************************************************************************)
\* One if p is in R.
One(p, R) == IF p \in R THEN 1 ELSE 0

LEMMA CountOfProducers ==
  ASSUME NEW R, R \subseteq Producers
  PROVE  /\ Cardinality(R) = One("Safety", R) + One("Motion", R) + One("Comms", R)
         /\ Cardinality(R) \in Nat
<1> DEFINE a == R \cap {"Safety"}
           b == R \cap {"Safety", "Motion"}
<1>1. IsFiniteSet(a) /\ Cardinality(a) = One("Safety", R)
  <2>1. IsFiniteSet({}) /\ Cardinality({}) = 0
    BY FS_EmptySet
  <2>2. CASE "Safety" \in R
    <3>1. a = {} \cup {"Safety"} /\ "Safety" \notin {}
      BY <2>2
    <3>2. IsFiniteSet({} \cup {"Safety"}) /\ Cardinality({} \cup {"Safety"}) = 0 + 1
      BY <2>1, <3>1, FS_AddElement
    <3>3. QED
      BY <2>2, <3>1, <3>2 DEF One
  <2>3. CASE "Safety" \notin R
    <3>1. a = {}
      BY <2>3
    <3>2. QED
      BY <2>1, <2>3, <3>1 DEF One
  <2>4. QED
    BY <2>2, <2>3
<1>2. IsFiniteSet(b) /\ Cardinality(b) = Cardinality(a) + One("Motion", R)
  <2>1. CASE "Motion" \in R
    <3>1. b = a \cup {"Motion"} /\ "Motion" \notin a
      BY <2>1
    <3> HIDE DEF a, b
    <3>2. IsFiniteSet(b) /\ Cardinality(b) = Cardinality(a) + 1
      BY <1>1, <3>1, FS_AddElement
    <3>3. QED
      BY <2>1, <3>2 DEF One
  <2>2. CASE "Motion" \notin R
    <3>1. b = a
      BY <2>2
    <3> HIDE DEF a, b
    <3>2. QED
      BY <1>1, <2>2, <3>1 DEF One
  <2>3. QED
    BY <2>1, <2>2
<1>3. Cardinality(R) = Cardinality(b) + One("Comms", R)
  <2>1. CASE "Comms" \in R
    <3>1. R = b \cup {"Comms"} /\ "Comms" \notin b
      BY <2>1 DEF Producers
    <3> HIDE DEF b
    <3>2. Cardinality(b \cup {"Comms"}) = Cardinality(b) + 1
      BY <1>2, <3>1, FS_AddElement
    <3>3. QED
      BY <2>1, <3>1, <3>2 DEF One
  <2>2. CASE "Comms" \notin R
    <3>1. R = b
      BY <2>2 DEF Producers
    <3> HIDE DEF b
    <3>2. QED
      BY <1>1, <1>2, <2>2, <3>1 DEF One
  <2>3. QED
    BY <2>1, <2>2
<1> HIDE DEF a, b
<1>4. QED
  BY <1>1, <1>2, <1>3 DEF One

\* What a producer still has to make.
Rest(p) == Len(todo[p]) - One(p, refused)

LEMMA TodoFacts ==
  ASSUME Shape, NEW p \in Producers
  PROVE  /\ todo[p] \in Seq(Kinds) /\ Len(todo[p]) \in Nat
         /\ Busy(p) <=> Len(todo[p]) # 0
<1>1. todo[p] \in Seq(Kinds)
  BY DEF Shape
<1>2. Len(todo[p]) \in Nat /\ (todo[p] # <<>> => Len(todo[p]) # 0) /\ Len(<<>>) = 0
  BY <1>1, LenProperties, EmptySeq
<1>3. QED
  BY <1>1, <1>2 DEF Busy

\* One producer's list grows by d, the refused by k.
Moves(p, d, k) ==
  /\ Len(todo'[p]) = Len(todo[p]) + d
  /\ \A q \in Producers \ {p} : todo'[q] = todo[q]
  /\ Cardinality(refused') = Cardinality(refused) + k

\* What is owed moves with them.
LEMMA OwedMoves ==
  ASSUME Shape, NEW p \in Producers, NEW d \in Int, NEW k \in Int, Moves(p, d, k)
  PROVE  Owed' = Owed + d - k
<1>1. /\ Len(todo["Safety"]) \in Nat /\ Len(todo["Motion"]) \in Nat /\ Len(todo["Comms"]) \in Nat
      /\ Cardinality(refused) \in Nat
  <2>1. {"Safety", "Motion", "Comms"} = Producers
    BY DEF Producers
  <2>2. QED
    BY <2>1, TodoFacts, CountOfProducers DEF Shape
<1>2. PICK x \in Nat, y \in Nat, z \in Nat, r \in Nat :
        /\ x = Len(todo["Safety"]) /\ y = Len(todo["Motion"]) /\ z = Len(todo["Comms"])
        /\ r = Cardinality(refused)
  BY <1>1
<1>3. Owed = x + y + z - r
  BY <1>2 DEF Owed
<1>4. Owed' = Len(todo'["Safety"]) + Len(todo'["Motion"]) + Len(todo'["Comms"]) - (r + k)
  BY <1>2 DEF Owed, Moves
<1>5. CASE p = "Safety"
  <2>1. Len(todo'["Safety"]) = x + d /\ Len(todo'["Motion"]) = y /\ Len(todo'["Comms"]) = z
    BY <1>2, <1>5 DEF Producers, Moves
  <2>2. Owed' = x + d + y + z - (r + k)
    BY <1>4, <2>1
  <2>3. QED
    BY <1>3, <2>2
<1>6. CASE p = "Motion"
  <2>1. Len(todo'["Safety"]) = x /\ Len(todo'["Motion"]) = y + d /\ Len(todo'["Comms"]) = z
    BY <1>2, <1>6 DEF Producers, Moves
  <2>2. Owed' = x + (y + d) + z - (r + k)
    BY <1>4, <2>1
  <2>3. QED
    BY <1>3, <2>2
<1>7. CASE p = "Comms"
  <2>1. Len(todo'["Safety"]) = x /\ Len(todo'["Motion"]) = y /\ Len(todo'["Comms"]) = z + d
    BY <1>2, <1>7 DEF Producers, Moves
  <2>2. Owed' = x + y + (z + d) - (r + k)
    BY <1>4, <2>1
  <2>3. QED
    BY <1>3, <2>2
<1>8. QED
  BY <1>5, <1>6, <1>7 DEF Producers

LEMMA OwedFacts ==
  ASSUME Shape, Accounts
  PROVE  /\ Owed = Rest("Safety") + Rest("Motion") + Rest("Comms") /\ Owed \in Nat
         /\ \A p \in Producers : Rest(p) \in Nat /\ Rest(p) <= Owed
         /\ \A p \in Producers : Busy(p) /\ p \notin refused => Rest(p) >= 1
<1>1. \A p \in Producers : Len(todo[p]) \in Nat /\ (Busy(p) <=> Len(todo[p]) # 0)
  BY TodoFacts
<1>2. Cardinality(refused) = One("Safety", refused) + One("Motion", refused)
                             + One("Comms", refused)
  BY CountOfProducers DEF Shape
<1>3. {"Safety", "Motion", "Comms"} = Producers
  BY DEF Producers
<1>4. Owed = Rest("Safety") + Rest("Motion") + Rest("Comms")
  BY <1>1, <1>2, <1>3 DEF Owed, Rest, One
<1>5. \A p \in Producers : Rest(p) \in Nat /\ (Busy(p) /\ p \notin refused => Rest(p) >= 1)
  BY <1>1 DEF Rest, One, Accounts
<1>6. QED
  BY <1>3, <1>4, <1>5

\* The bounds that the accounts give.
LEMMA AccountBounds ==
  ASSUME Shape, Accounts
  PROVE  /\ made \in 0 .. MaxRecords /\ dropped \in 0 .. MaxRecords /\ count \in 0 .. MaxRecords
         /\ made - Len(queue) - count \in 0 .. MaxRecords
         /\ made - Len(queue) - count = dropped + Cardinality(refused)
<1>1. Owed \in Nat /\ MaxRecords \in Nat
  BY OwedFacts, ReportsAssumption
<1>2. Cardinality(refused) \in Nat
  BY CountOfProducers DEF Shape
<1>3. Len(queue) \in Nat /\ dropped \in Nat /\ made \in Nat /\ count \in Nat
  BY LenProperties DEF Shape
<1>4. QED
  BY <1>1, <1>2, <1>3 DEF Accounts

\* Telemetry runs only when nobody has anything to report, nor to count.
LEMMA TelemetryRunsAlone ==
  ASSUME Shape, Accounts, ~Preempted("Telemetry")
  PROVE  /\ refused = {} /\ Cardinality(refused) = 0
         /\ \A p \in Producers : todo[p] = <<>>
<1>1. \A p \in Producers : ~Busy(p)
  BY DEF Preempted, Producers
<1>2. refused = {}
  BY <1>1 DEF Shape, Accounts
<1>3. QED
  BY <1>1, <1>2, FS_EmptySet DEF Busy

----------------------------------------------------------------------------
(***************************************************************************)
(* The producers' steps.                                                   *)
(***************************************************************************)
LEMMA InitReports == Init => ReportsInv
<1> SUFFICES ASSUME Init PROVE ReportsInv
  OBVIOUS
<1>1. Capacity \in Nat /\ MaxRecords \in Nat
  BY ReportsAssumption
<1>2. /\ <<>> \in Seq(Records) /\ <<>> \in Seq(Kinds) /\ <<>> \in Seq(Lines)
      /\ <<>> \in Seq(Kinds \ {"name"}) /\ Len(<<>>) = 0 /\ DOMAIN <<>> = {}
  BY EmptySeq
<1>3. /\ queue = <<>> /\ dropped = 0 /\ refused = {} /\ made = 0 /\ count = 0
      /\ todo = [p \in Producers |-> <<>>] /\ last = NoRecord /\ shown = {}
      /\ world = [state |-> "IDLE", applied |-> FALSE]
      /\ tele = [at |-> "wait", left |-> 0, lines |-> <<>>, snapshot |-> NoSnapshot, mark |-> 0]
  BY DEF Init
<1>4. NoSnapshot \in Snapshots /\ world \in Worlds
  BY <1>1, <1>3 DEF NoSnapshot, Snapshots, Worlds
<1>5. Shape
  <2>1. todo \in [Producers -> Seq(Kinds)]
    BY <1>2, <1>3
  <2>2. tele \in [at: Places, left: 0 .. Capacity, lines: Seq(Lines), snapshot: Snapshots,
                  mark: 0 .. MaxRecords]
    BY <1>1, <1>2, <1>3, <1>4 DEF Places
  <2>3. queue \in Seq(Records) /\ Len(queue) <= Capacity
    BY <1>1, <1>2, <1>3
  <2>4. QED
    BY <1>3, <1>4, <2>1, <2>2, <2>3 DEF Shape
<1>6. Accounts
  <2>1. Cardinality(refused) = 0
    BY <1>3, FS_EmptySet
  <2>2. Len(todo["Safety"]) = 0 /\ Len(todo["Motion"]) = 0 /\ Len(todo["Comms"]) = 0
    BY <1>2, <1>3 DEF Producers
  <2>3. Owed = 0
    BY <2>1, <2>2 DEF Owed
  <2>4. QED
    BY <1>1, <1>2, <1>3, <2>1, <2>3 DEF Accounts
<1>7. Counted /\ Covers
  BY <1>1, <1>2, <1>3 DEF Counted, Covers
<1>8. Coherent
  BY <1>3 DEF Coherent, Safe, NoSnapshot
<1>9. Paired
  <2>1. \A p \in Producers : todo[p] = <<>>
    BY <1>3
  <2>2. todo["Safety"] = <<>>
    BY <2>1 DEF Producers
  <2>3. \A p \in Producers \ {"Safety"} : todo[p] \in Seq(Kinds \ {"name"})
    BY <1>2, <2>1
  <2>4. \A i \in DOMAIN queue : FALSE
    BY <1>2, <1>3
  <2>5. QED
    BY <1>3, <2>2, <2>3, <2>4 DEF Paired
<1>10. QED
  BY <1>5, <1>6, <1>7, <1>8, <1>9 DEF ReportsInv

\* A producer announces its records.
LEMMA StartsKeeps ==
  ASSUME ReportsInv, NEW p \in Producers, NEW records \in Seq(Kinds), Starts(p, records),
         world' \in Worlds, Safe(world)',
         p = "Safety" => records = <<"text", "name">>,
         p # "Safety" => records \in Seq(Kinds \ {"name"})
  PROVE  ReportsInv'
<1>1. Shape /\ Accounts /\ Counted /\ Covers /\ Coherent /\ Paired
  BY DEF ReportsInv
<1>2. /\ ~Busy(p) /\ made + Owed + Len(records) <= MaxRecords
      /\ todo' = [todo EXCEPT ![p] = records]
      /\ UNCHANGED <<queue, dropped, refused, made, tele, count, last, shown>>
  BY DEF Starts, reported, taken
<1>3. p \notin refused
  BY <1>1, <1>2 DEF Accounts
<1>4. todo'[p] = records /\ \A q \in Producers \ {p} : todo'[q] = todo[q]
  BY <1>1, <1>2 DEF Shape
<1>5. Shape'
  BY <1>1, <1>2 DEF Shape
<1>6. Accounts'
  <2>1. \A q \in refused' : Busy(q)'
    BY <1>1, <1>2, <1>3, <1>4 DEF Accounts, Busy, Shape
  <2>2. Len(todo[p]) = 0 /\ Len(records) \in Nat /\ Cardinality(refused) \in Nat
        /\ Owed \in Nat
    BY <1>1, <1>2, CountOfProducers, TodoFacts, LenProperties, OwedFacts DEF Shape
  <2>3. Owed' = Owed + Len(records) - 0
    <3>1. Moves(p, Len(records), 0)
      BY <1>2, <1>4, <2>2 DEF Moves
    <3>2. QED
      BY <1>1, <2>2, <3>1, OwedMoves
  <2>4. Owed' = Owed + Len(records)
    BY <2>2, <2>3
  <2>5. made + (Owed + Len(records)) <= MaxRecords
    BY <1>1, <1>2, <2>2, ReportsAssumption DEF Shape
  <2>6. QED
    BY <1>1, <1>2, <2>1, <2>4, <2>5 DEF Accounts
<1>7. Counted' /\ Covers'
  BY <1>1, <1>2 DEF Counted, Covers
<1>8. Coherent'
  BY <1>1, <1>2 DEF Coherent, Safe
<1>9. Paired'
  <2>1. todo'["Safety"] \in {<<>>, <<"text", "name">>, <<"name">>}
    BY <1>1, <1>4 DEF Paired, Producers
  <2>2. \A q \in Producers \ {"Safety"} : todo'[q] \in Seq(Kinds \ {"name"})
    BY <1>1, <1>4 DEF Paired
  <2>3. todo'["Safety"] = <<"name">> => todo["Safety"] = <<"name">>
    <3>1. <<"text", "name">> # <<"name">>
      OBVIOUS
    <3>2. QED
      BY <1>4, <3>1 DEF Producers
  <2>4. Room' = Room
    BY <1>2 DEF Room
  <2>5. QED
    BY <1>1, <1>2, <2>1, <2>2, <2>3, <2>4 DEF Paired
<1>10. QED
  BY <1>5, <1>6, <1>7, <1>8, <1>9 DEF ReportsInv

LEMMA ProducerKeeps == ASSUME ReportsInv, Producer PROVE ReportsInv'
<1>1. world \in Worlds /\ Safe(world)
  BY DEF ReportsInv, Shape, Coherent
<1>2. CASE SafetyTrips
  <2>1. PICK state \in {"FAULT", "ESTOP"} :
          Starts("Safety", <<"text", "name">>) /\ world' = [state |-> state, applied |-> FALSE]
    BY <1>2 DEF SafetyTrips
  <2>2. world' \in Worlds /\ Safe(world)'
    BY <2>1 DEF Worlds, Safe
  <2>3. "Safety" \in Producers /\ <<"text", "name">> \in Seq(Kinds)
    BY DEF Producers, Kinds
  <2>4. QED
    BY <2>1, <2>2, <2>3, StartsKeeps
<1>3. CASE MotionActs
  <2>1. PICK records \in {<<>>, <<"received">>, <<"other">>, <<"other", "other">>} :
          Starts("Motion", records)
    BY <1>3 DEF MotionActs
  <2>2. world' \in {w \in Worlds : w.state # "IDLE" => ~w.applied}
    BY <1>3 DEF MotionActs
  <2>3. world' \in Worlds /\ Safe(world)'
    BY <2>2 DEF Safe
  <2>4. "Motion" \in Producers /\ records \in Seq(Kinds) /\ records \in Seq(Kinds \ {"name"})
    <3>1. {"received", "other"} \subseteq Kinds \ {"name"}
      BY DEF Kinds
    <3>2. /\ <<>> \in Seq(Kinds \ {"name"}) /\ <<"received">> \in Seq(Kinds \ {"name"})
          /\ <<"other">> \in Seq(Kinds \ {"name"}) /\ <<"other", "other">> \in Seq(Kinds \ {"name"})
      BY <3>1
    <3>3. /\ <<>> \in Seq(Kinds) /\ <<"received">> \in Seq(Kinds) /\ <<"other">> \in Seq(Kinds)
          /\ <<"other", "other">> \in Seq(Kinds)
      BY <3>1
    <3>4. QED
      BY <3>2, <3>3 DEF Producers
  <2>5. QED
    BY <2>1, <2>3, <2>4, StartsKeeps
<1>4. CASE CommsActs
  <2>1. Starts("Comms", <<"other">>) /\ world' = world
    BY <1>4 DEF CommsActs
  <2>2. "Comms" \in Producers /\ <<"other">> \in Seq(Kinds)
        /\ <<"other">> \in Seq(Kinds \ {"name"})
    BY DEF Producers, Kinds
  <2>3. world' \in Worlds /\ Safe(world)'
    BY <1>1, <2>1 DEF Safe
  <2>4. QED
    BY <2>1, <2>2, <2>3, StartsKeeps
<1>5. QED
  BY <1>2, <1>3, <1>4 DEF Producer

\* While another task than Safety runs, Safety has nothing to report.
LEMMA SafetyIsIdle ==
  ASSUME Shape, Accounts, NEW p \in Producers, p # "Safety", ~Preempted(p)
  PROVE  todo["Safety"] = <<>> /\ "Safety" \notin refused
BY DEF Preempted, Busy, Accounts

LEMMA SafetyTodo ==
  ASSUME Paired, Busy("Safety")
  PROVE  \/ /\ todo["Safety"] = <<"text", "name">> /\ Head(todo["Safety"]) = "text"
            /\ Tail(todo["Safety"]) = <<"name">>
         \/ /\ todo["Safety"] = <<"name">> /\ Head(todo["Safety"]) = "name"
            /\ Tail(todo["Safety"]) = <<>>
<1>1. todo["Safety"] \in {<<"text", "name">>, <<"name">>}
  BY DEF Paired, Busy
<1>2. Tail(<<"text", "name">>) = <<"name">> /\ Tail(<<"name">>) = <<>>
  OBVIOUS
<1>3. Head(<<"text", "name">>) = "text" /\ Head(<<"name">>) = "name"
  OBVIOUS
<1>4. QED
  BY <1>1, <1>2, <1>3

\* The first record of a producer's list is out of it.
LEMMA TodoShrinks ==
  ASSUME Shape, NEW p \in Producers, Busy(p), todo' = [todo EXCEPT ![p] = Tail(@)]
  PROVE  /\ todo' \in [Producers -> Seq(Kinds)]
         /\ todo'[p] = Tail(todo[p]) /\ Len(todo'[p]) = Len(todo[p]) - 1
         /\ \A q \in Producers \ {p} : todo'[q] = todo[q]
<1>1. todo[p] \in Seq(Kinds) /\ todo[p] # <<>>
  BY DEF Shape, Busy
<1>2. Tail(todo[p]) \in Seq(Kinds) /\ Len(Tail(todo[p])) = Len(todo[p]) - 1
  BY <1>1, HeadTailProperties
<1>3. QED
  BY <1>2 DEF Shape

LEMMA PairedTodoShrinks ==
  ASSUME Shape, Accounts, Paired, NEW p \in Producers, Busy(p), ~Preempted(p),
         todo' = [todo EXCEPT ![p] = Tail(@)]
  PROVE  /\ todo'["Safety"] \in {<<>>, <<"name">>}
         /\ todo'["Safety"] = <<"name">> => p = "Safety" /\ todo["Safety"] = <<"text", "name">>
         /\ \A q \in Producers \ {"Safety"} : todo'[q] \in Seq(Kinds \ {"name"})
<1>1. /\ todo'[p] = Tail(todo[p])
      /\ \A q \in Producers \ {p} : todo'[q] = todo[q]
  BY TodoShrinks
<1>2. CASE p = "Safety"
  <2>1. <<>> # <<"name">>
    OBVIOUS
  <2>2. QED
    BY <1>1, <1>2, <2>1, SafetyTodo DEF Paired
<1>3. CASE p # "Safety"
  <2>1. todo'["Safety"] = <<>> /\ <<>> # <<"name">>
    BY <1>1, <1>3, SafetyIsIdle DEF Producers
  <2>2. todo[p] \in Seq(Kinds \ {"name"}) /\ todo[p] # <<>>
    BY <1>3 DEF Paired, Busy
  <2>3. Tail(todo[p]) \in Seq(Kinds \ {"name"})
    BY <2>2, HeadTailProperties
  <2>4. QED
    BY <1>1, <1>3, <2>1, <2>3 DEF Paired
<1>4. QED
  BY <1>2, <1>3

\* A record finds room.
LEMMA SendQueued ==
  ASSUME ReportsInv, NEW p \in Producers, Send(p), Room
  PROVE  ReportsInv'
<1> DEFINE record == [kind |-> Head(todo[p]), id |-> made + 1]
<1>1. Shape /\ Accounts /\ Counted /\ Covers /\ Coherent /\ Paired
  BY DEF ReportsInv
<1>2. /\ Busy(p) /\ p \notin refused /\ ~Preempted(p) /\ made' = made + 1
      /\ queue' = Append(queue, record)
      /\ UNCHANGED <<world, dropped, refused, tele, count, last, shown>>
  BY DEF Send, Put, taken
<1>3. todo' = [todo EXCEPT ![p] = Tail(@)]
  BY <1>2 DEF Send
<1>4. /\ todo' \in [Producers -> Seq(Kinds)]
      /\ Len(todo'[p]) = Len(todo[p]) - 1
      /\ \A q \in Producers \ {p} : todo'[q] = todo[q]
  BY <1>1, <1>2, <1>3, TodoShrinks
<1>5. made + 1 <= MaxRecords /\ made \in Nat /\ MaxRecords \in Nat
  <2>1. Owed \in Nat /\ Owed >= 1
    BY <1>1, <1>2, OwedFacts
  <2>2. QED
    BY <1>1, <2>1, ReportsAssumption DEF Accounts, Shape
<1>6. record \in Records
  <2>1. Head(todo[p]) \in Kinds
    BY <1>1, <1>2, HeadTailProperties DEF Shape, Busy
  <2>2. QED
    BY <1>5, <2>1 DEF Records
<1>7. record.id = made + 1 /\ record.kind = Head(todo[p])
  OBVIOUS
<1> HIDE DEF record
<1>8. /\ queue' \in Seq(Records) /\ Len(queue') = Len(queue) + 1
      /\ \A i \in 1 .. Len(queue) : queue'[i] = queue[i]
      /\ queue'[Len(queue) + 1] = record
  BY <1>1, <1>2, <1>6, AppendProperties DEF Shape
<1>9. Len(queue) \in Nat /\ DOMAIN queue = 1 .. Len(queue) /\ DOMAIN queue' = 1 .. Len(queue) + 1
  BY <1>1, <1>8, LenProperties DEF Shape
<1>10. Shape'
  <2>1. Len(queue') <= Capacity
    BY <1>1, <1>8, <1>9, ReportsAssumption DEF Room
  <2>2. QED
    BY <1>1, <1>2, <1>4, <1>5, <1>8, <2>1 DEF Shape
<1>11. Accounts'
  <2>1. \A q \in refused' : Busy(q)'
    BY <1>1, <1>2, <1>4 DEF Accounts, Busy, Shape
  <2>2. /\ Cardinality(refused) \in Nat
        /\ \A q \in Producers : Len(todo[q]) \in Nat
    BY <1>1, CountOfProducers, TodoFacts DEF Shape
  <2>3. Owed' = Owed - 1
    <3>1. Moves(p, -1, 0)
      BY <1>2, <1>4, <2>2 DEF Moves
    <3>2. Owed' = Owed + (-1) - 0 /\ Owed \in Nat
      BY <1>1, <3>1, OwedMoves, OwedFacts
    <3>3. QED
      BY <3>2
  <2>4. made + 1 + (Owed - 1) <= MaxRecords
    BY <1>1, <1>5, OwedFacts DEF Accounts
  <2>5. made + 1 = (Len(queue) + 1) + count + dropped + Cardinality(refused)
    BY <1>1, <1>9, <2>2 DEF Accounts, Shape
  <2>6. QED
    BY <1>2, <1>8, <2>1, <2>3, <2>4, <2>5 DEF Accounts
<1>12. Counted'
  BY <1>1, <1>2 DEF Counted
<1>13. Covers'
  <2>1. tele.mark \in Nat /\ tele.mark <= made
    BY <1>1, ReportsAssumption DEF Shape, Covers
  <2>2. \A i \in DOMAIN queue' : (i \in DOMAIN queue /\ queue'[i] = queue[i]) \/ queue'[i].id = made + 1
    BY <1>7, <1>8, <1>9
  <2>3. ~(made + 1 <= tele.mark) /\ tele.mark <= made + 1
    BY <1>5, <2>1
  <2>4. QED
    BY <1>1, <1>2, <2>2, <2>3 DEF Covers
<1>14. Coherent'
  BY <1>1, <1>2 DEF Coherent, Safe
<1>15. Paired'
  <2>1. /\ todo'["Safety"] \in {<<>>, <<"name">>}
        /\ todo'["Safety"] = <<"name">> => p = "Safety" /\ todo["Safety"] = <<"text", "name">>
        /\ \A q \in Producers \ {"Safety"} : todo'[q] \in Seq(Kinds \ {"name"})
    BY <1>1, <1>2, <1>3, PairedTodoShrinks
  <2>2. record.kind = "name" => /\ Len(queue) # 0 /\ queue[Len(queue)].kind = "text"
                                /\ queue[Len(queue)].id = made
    <3> SUFFICES ASSUME record.kind = "name"
                 PROVE  /\ Len(queue) # 0 /\ queue[Len(queue)].kind = "text"
                        /\ queue[Len(queue)].id = made
      OBVIOUS
    <3>1. p = "Safety"
      <4> SUFFICES ASSUME p # "Safety" PROVE FALSE
        OBVIOUS
      <4>1. todo[p] \in Seq(Kinds \ {"name"}) /\ todo[p] # <<>>
        BY <1>1, <1>2 DEF Paired, Busy
      <4>2. Head(todo[p]) \in Kinds \ {"name"}
        BY <4>1, HeadTailProperties
      <4>3. QED
        BY <1>7, <4>2
    <3>2. todo["Safety"] = <<"name">>
      BY <1>1, <1>2, <1>7, <3>1, SafetyTodo
    <3>3. queue # <<>> /\ queue[Len(queue)].kind = "text" /\ queue[Len(queue)].id = made
      BY <1>1, <3>2 DEF Paired
    <3>4. Len(queue) # 0
      BY <1>1, <3>3, EmptySeq DEF Shape
    <3>5. QED
      BY <3>3, <3>4
  <2>3. \A i \in DOMAIN queue' : queue'[i].kind = "name" =>
          IF i = 1 THEN Announces(last, queue'[1]) ELSE Announces(queue'[i - 1], queue'[i])
    <3> SUFFICES ASSUME NEW i \in DOMAIN queue', queue'[i].kind = "name"
                 PROVE  IF i = 1 THEN Announces(last, queue'[1])
                                 ELSE Announces(queue'[i - 1], queue'[i])
      OBVIOUS
    <3>1. CASE i \in DOMAIN queue
      <4>1. queue'[i] = queue[i] /\ (i # 1 => queue'[i - 1] = queue[i - 1])
        BY <1>8, <1>9, <3>1
      <4>2. IF i = 1 THEN Announces(last, queue[1]) ELSE Announces(queue[i - 1], queue[i])
        BY <1>1, <3>1, <4>1 DEF Paired
      <4>3. QED
        BY <4>1, <4>2
    <3>2. CASE i \notin DOMAIN queue
      <4>1. i = Len(queue) + 1 /\ queue'[i] = record
        BY <1>8, <1>9, <3>2
      <4>2. Len(queue) # 0 /\ queue[Len(queue)].kind = "text" /\ queue[Len(queue)].id = made
        BY <2>2, <4>1
      <4>3. i # 1 /\ i - 1 = Len(queue) /\ Len(queue) \in 1 .. Len(queue)
        BY <1>9, <4>1, <4>2
      <4>4. queue'[i - 1] = queue[Len(queue)]
        BY <1>8, <4>3
      <4>5. made = record.id - 1
        BY <1>5, <1>7
      <4>6. QED
        BY <4>1, <4>2, <4>3, <4>4, <4>5 DEF Announces
    <3>3. QED
      BY <3>1, <3>2
  <2>4. "Safety" \notin refused'
    BY <1>1, <1>2, SafetyIsIdle
  <2>5. todo'["Safety"] = <<"name">> =>
          queue' # <<>> /\ queue'[Len(queue')].kind = "text" /\ queue'[Len(queue')].id = made'
    <3> SUFFICES ASSUME todo'["Safety"] = <<"name">>
                 PROVE  queue' # <<>> /\ queue'[Len(queue')].kind = "text"
                        /\ queue'[Len(queue')].id = made'
      OBVIOUS
    <3>1. p = "Safety" /\ todo["Safety"] = <<"text", "name">>
      BY <2>1
    <3>2. record.kind = "text"
      BY <1>7, <3>1
    <3>3. queue' # <<>>
      BY <1>8, <1>9, EmptySeq
    <3>4. QED
      BY <1>2, <1>7, <1>8, <3>2, <3>3
  <2>6. QED
    BY <1>2, <2>1, <2>3, <2>4, <2>5 DEF Paired
<1>16. QED
  BY <1>10, <1>11, <1>12, <1>13, <1>14, <1>15 DEF ReportsInv

\* A record is refused.
LEMMA SendRefused ==
  ASSUME ReportsInv, NEW p \in Producers, Send(p), ~Room
  PROVE  ReportsInv'
<1>1. Shape /\ Accounts /\ Counted /\ Covers /\ Coherent /\ Paired
  BY DEF ReportsInv
<1>2. /\ Busy(p) /\ p \notin refused /\ made' = made + 1 /\ refused' = refused \cup {p}
      /\ UNCHANGED <<world, queue, dropped, tele, count, last, shown>>
  BY DEF Send, Put, taken
<1>3. todo' = todo
  BY <1>2 DEF Send
<1>4. made + 1 <= MaxRecords /\ made \in Nat /\ MaxRecords \in Nat /\ Owed \in Nat
  <2>1. Owed \in Nat /\ Owed >= 1
    BY <1>1, <1>2, OwedFacts
  <2>2. QED
    BY <1>1, <2>1, ReportsAssumption DEF Accounts, Shape
<1>5. Shape'
  BY <1>1, <1>2, <1>3, <1>4 DEF Shape
<1>6. Accounts'
  <2>1. refused \subseteq Producers /\ refused' \subseteq Producers
    BY <1>1, <1>2 DEF Shape
  <2>2. Cardinality(refused') = Cardinality(refused) + 1 /\ Cardinality(refused) \in Nat
    <3>1. /\ Cardinality(refused) = One("Safety", refused) + One("Motion", refused)
                                    + One("Comms", refused)
          /\ Cardinality(refused) \in Nat
      BY <2>1, CountOfProducers
    <3>2. Cardinality(refused') = One("Safety", refused') + One("Motion", refused')
                                  + One("Comms", refused')
      BY <2>1, CountOfProducers
    <3>3. /\ One(p, refused) = 0 /\ One(p, refused') = 1
          /\ \A q \in Producers \ {p} : One(q, refused') = One(q, refused)
          /\ \A q \in Producers : One(q, refused) \in Nat
      BY <1>2 DEF One
    <3>4. QED
      BY <3>1, <3>2, <3>3 DEF Producers
  <2>3. Owed' = Owed - 1
    <3>1. Moves(p, 0, 1)
      BY <1>1, <1>3, <2>2, TodoFacts DEF Moves
    <3>2. Owed' = Owed + 0 - 1
      BY <1>1, <3>1, OwedMoves
    <3>3. QED
      BY <1>4, <3>2
  <2>4. made + 1 + (Owed - 1) <= MaxRecords
    BY <1>1, <1>4 DEF Accounts
  <2>5. \A q \in refused' : Busy(q)'
    BY <1>1, <1>2, <1>3 DEF Accounts, Busy
  <2>6. made + 1 = Len(queue) + count + dropped + (Cardinality(refused) + 1)
    <3>1. Len(queue) \in Nat
      BY <1>1, LenProperties DEF Shape
    <3>2. QED
      BY <1>1, <2>2, <3>1 DEF Accounts, Shape
  <2>7. QED
    BY <1>2, <2>2, <2>3, <2>4, <2>5, <2>6 DEF Accounts
<1>7. Counted' /\ Coherent'
  BY <1>1, <1>2 DEF Counted, Coherent, Safe
<1>8. Covers'
  <2>1. tele.mark \in Nat /\ tele.mark <= made
    BY <1>1, ReportsAssumption DEF Shape, Covers
  <2>2. tele.mark <= made + 1
    BY <1>4, <2>1
  <2>3. QED
    BY <1>1, <1>2, <2>2 DEF Covers
<1>9. Paired'
  <2>1. Room' = Room
    BY <1>2 DEF Room
  <2>2. QED
    BY <1>1, <1>2, <1>3, <2>1 DEF Paired
<1>10. QED
  BY <1>5, <1>6, <1>7, <1>8, <1>9 DEF ReportsInv

\* A refused record is counted.
LEMMA CountDropKeeps ==
  ASSUME ReportsInv, NEW p \in Producers, CountDrop(p)
  PROVE  ReportsInv'
<1>1. Shape /\ Accounts /\ Counted /\ Covers /\ Coherent /\ Paired
  BY DEF ReportsInv
<1>2. /\ p \in refused /\ ~Preempted(p) /\ dropped' = dropped + 1 /\ refused' = refused \ {p}
      /\ todo' = [todo EXCEPT ![p] = Tail(@)]
      /\ UNCHANGED <<world, queue, made, tele, count, last, shown>>
  BY DEF CountDrop, taken
<1>3. Busy(p)
  BY <1>1, <1>2 DEF Accounts
<1>4. /\ todo' \in [Producers -> Seq(Kinds)]
      /\ Len(todo'[p]) = Len(todo[p]) - 1
      /\ \A q \in Producers \ {p} : todo'[q] = todo[q]
  BY <1>1, <1>2, <1>3, TodoShrinks
<1>5. Shape'
  BY <1>1, <1>2, <1>4 DEF Shape
<1>6. Accounts'
  <2>1. refused \subseteq Producers /\ refused' \subseteq Producers
    BY <1>1, <1>2 DEF Shape
  <2>2. Cardinality(refused) = Cardinality(refused') + 1 /\ Cardinality(refused') \in Nat
    <3>1. Cardinality(refused) = One("Safety", refused) + One("Motion", refused)
                                 + One("Comms", refused)
      BY <2>1, CountOfProducers
    <3>2. /\ Cardinality(refused') = One("Safety", refused') + One("Motion", refused')
                                     + One("Comms", refused')
          /\ Cardinality(refused') \in Nat
      BY <2>1, CountOfProducers
    <3>3. /\ One(p, refused) = 1 /\ One(p, refused') = 0
          /\ \A q \in Producers \ {p} : One(q, refused') = One(q, refused)
          /\ \A q \in Producers : One(q, refused) \in Nat
      BY <1>2 DEF One
    <3>4. QED
      BY <3>1, <3>2, <3>3 DEF Producers
  <2>3. Owed' = Owed
    <3>1. Moves(p, -1, -1)
      BY <1>1, <1>4, <2>2, TodoFacts DEF Moves
    <3>2. Owed' = Owed + (-1) - (-1) /\ Owed \in Nat
      BY <1>1, <3>1, OwedMoves, OwedFacts
    <3>3. QED
      BY <3>2
  <2>4. \A q \in refused' : Busy(q)'
    BY <1>1, <1>2, <1>4 DEF Accounts, Busy, Shape
  <2>5. made = Len(queue) + count + (dropped + 1) + Cardinality(refused')
    <3>1. Len(queue) \in Nat
      BY <1>1, LenProperties DEF Shape
    <3>2. QED
      BY <1>1, <2>2, <3>1 DEF Accounts, Shape
  <2>6. QED
    BY <1>1, <1>2, <2>3, <2>4, <2>5 DEF Accounts
<1>7. Counted' /\ Coherent' /\ Covers'
  BY <1>1, <1>2 DEF Counted, Coherent, Safe, Covers
<1>8. Paired'
  <2>1. Room' = Room
    BY <1>2 DEF Room
  <2>2. /\ todo'["Safety"] \in {<<>>, <<"name">>}
        /\ todo'["Safety"] = <<"name">> => p = "Safety" /\ todo["Safety"] = <<"text", "name">>
        /\ \A q \in Producers \ {"Safety"} : todo'[q] \in Seq(Kinds \ {"name"})
    BY <1>1, <1>2, <1>3, PairedTodoShrinks
  <2>3. todo'["Safety"] = <<"name">> => ~Room
    BY <1>1, <1>2, <2>2 DEF Paired
  <2>4. "Safety" \in refused' => ~Room
    BY <1>1, <1>2 DEF Paired
  <2>5. QED
    BY <1>1, <1>2, <2>1, <2>2, <2>3, <2>4 DEF Paired
<1>9. QED
  BY <1>5, <1>6, <1>7, <1>8 DEF ReportsInv

LEMMA ReportingKeeps == ASSUME ReportsInv, Reporting PROVE ReportsInv'
<1>1. PICK p \in Producers : Send(p) \/ CountDrop(p)
  BY DEF Reporting
<1>2. QED
  BY <1>1, SendQueued, SendRefused, CountDropKeeps

----------------------------------------------------------------------------
(***************************************************************************)
(* Telemetry's steps.                                                      *)
(***************************************************************************)
Teles == [at: Places, left: 0 .. Capacity, lines: Seq(Lines), snapshot: Snapshots,
          mark: 0 .. MaxRecords]

\* What follows from Telemetry's own part when the queue stays as it is.
LEMMA TelemetryOnly ==
  ASSUME ReportsInv, UNCHANGED <<world, dropped, todo, refused, made, queue, count, last>>,
         tele' \in Teles, shown' \subseteq Snapshots, Counted', Covers', Coherent'
  PROVE  ReportsInv'
<1>1. Shape /\ Accounts /\ Paired
  BY DEF ReportsInv
<1>2. Shape'
  BY <1>1 DEF Shape, Teles
<1>3. Accounts'
  <2>1. Owed' = Owed
    BY DEF Owed
  <2>2. QED
    BY <1>1, <2>1 DEF Accounts, Busy
<1>4. Paired'
  BY <1>1 DEF Paired, Room
<1>5. QED
  BY <1>2, <1>3, <1>4 DEF ReportsInv

LEMMA ReleaseKeeps == ASSUME ReportsInv, Release PROVE ReportsInv'
<1>1. Shape /\ Accounts /\ Coherent
  BY DEF ReportsInv
<1>2. /\ tele' = [tele EXCEPT !.at = "drain", !.left = Capacity, !.mark = made]
      /\ shown' = {} /\ UNCHANGED <<world, dropped, todo, refused, made, queue, count, last>>
  BY DEF Release, Observes, taken, DrainLimit
<1>3. tele \in Teles /\ made \in 0 .. MaxRecords /\ Capacity \in 0 .. Capacity
  BY <1>1, AccountBounds, ReportsAssumption DEF Shape, Teles
<1>4. /\ tele' \in Teles /\ tele'.at = "drain" /\ tele'.left = Capacity /\ tele'.mark = made
      /\ tele'.snapshot = tele.snapshot
  BY <1>2, <1>3 DEF Teles, Places
<1>5. Counted'
  BY <1>4 DEF Counted
<1>6. Covers'
  <2>1. Len(queue) \in Nat /\ DOMAIN queue = 1 .. Len(queue) /\ Len(queue) <= Capacity
    BY <1>1, LenProperties DEF Shape
  <2>2. \A i \in DOMAIN queue : i <= Capacity
    BY <1>3, <2>1, ReportsAssumption
  <2>3. made <= made
    BY <1>3
  <2>4. QED
    BY <1>2, <1>4, <2>2, <2>3 DEF Covers
<1>7. Coherent'
  BY <1>1, <1>2, <1>4 DEF Coherent, Safe
<1>8. QED
  BY <1>2, <1>4, <1>5, <1>6, <1>7, TelemetryOnly

\* A snapshot is typed, safe, and misses nothing.
LEMMA SnapshotIsTrue ==
  ASSUME ReportsInv, ~Preempted("Telemetry")
  PROVE  Snapshot \in Snapshots /\ Safe(Snapshot.world) /\ Snapshot.drops = Snapshot.lost
<1>1. Shape /\ Accounts /\ Safe(world)
  BY DEF ReportsInv, Coherent
<1>2. Cardinality(refused) = 0
  BY <1>1, TelemetryRunsAlone
<1>3. /\ dropped \in 0 .. MaxRecords /\ made - Len(queue) - count \in 0 .. MaxRecords
      /\ made - Len(queue) - count = dropped + Cardinality(refused)
  BY <1>1, AccountBounds
<1>4. made - Len(queue) - count = dropped
  BY <1>2, <1>3, ReportsAssumption
<1>5. Snapshot = [world |-> world, drops |-> dropped, lost |-> made - Len(queue) - count]
  BY DEF Snapshot
<1>6. PICK n : n = made - Len(queue) - count
  OBVIOUS
<1>7. Snapshot \in Snapshots
  BY <1>1, <1>3, <1>5, <1>6 DEF Snapshots, Shape
<1>8. QED
  BY <1>1, <1>4, <1>5, <1>7

LEMMA GroupLinesType == GroupLines \in Seq(Lines) /\ GroupLines # <<>>
  BY DEF GroupLines, Lines

LEMMA SnapshotKeeps == ASSUME ReportsInv, StatusSnapshot \/ CycleSnapshot PROVE ReportsInv'
<1>1. Shape /\ Accounts /\ Counted /\ Covers /\ Coherent
  BY DEF ReportsInv
<1>2. tele \in Teles
  BY <1>1 DEF Shape, Teles
<1>3. PICK snapshot \in Snapshots : snapshot = Snapshot /\ Safe(snapshot.world)
                                    /\ snapshot.drops = snapshot.lost
  BY SnapshotIsTrue DEF StatusSnapshot, CycleSnapshot, TeleAt
<1>4. shown' = {} /\ UNCHANGED <<world, dropped, todo, refused, made, queue, count, last>>
  BY DEF StatusSnapshot, CycleSnapshot, Observes, taken
<1>5. CASE StatusSnapshot
  <2>1. tele' = [tele EXCEPT !.at = "answer", !.lines = GroupLines, !.snapshot = snapshot]
        /\ tele.at = "status"
    BY <1>3, <1>5 DEF StatusSnapshot, TeleAt
  <2>2. /\ tele' \in Teles /\ tele'.at = "answer" /\ tele'.snapshot = snapshot
        /\ tele'.lines = GroupLines
        /\ tele'.left = tele.left /\ tele'.mark = tele.mark
    BY <1>2, <2>1, GroupLinesType DEF Teles, Places
  <2>3. Counted' /\ Coherent'
    BY <1>1, <1>3, <1>4, <2>2, GroupLinesType DEF Counted, Coherent, Safe
  <2>4. Covers'
    BY <1>1, <1>4, <2>1, <2>2 DEF Covers
  <2>5. QED
    BY <1>4, <2>2, <2>3, <2>4, TelemetryOnly
<1>6. CASE CycleSnapshot
  <2>1. /\ tele' = [tele EXCEPT !.at = "print", !.lines = GroupLines, !.snapshot = snapshot,
                               !.left = 0]
        /\ tele.at = "drain" /\ (tele.left = 0 \/ queue = <<>>)
    BY <1>3, <1>6 DEF CycleSnapshot, TeleAt
  <2>2. 0 \in 0 .. Capacity
    BY ReportsAssumption
  <2>3. /\ tele' \in Teles /\ tele'.at = "print" /\ tele'.snapshot = snapshot
        /\ tele'.lines = GroupLines
        /\ tele'.left = 0 /\ tele'.mark = tele.mark
    BY <1>2, <2>1, <2>2, GroupLinesType DEF Teles, Places
  <2>4. Counted' /\ Coherent'
    BY <1>1, <1>3, <1>4, <2>3, GroupLinesType DEF Counted, Coherent, Safe
  <2>5. Covers'
    <3>1. \A i \in DOMAIN queue : queue[i].id <= tele.mark => i <= 0
      <4>1. CASE tele.left = 0
        BY <1>1, <2>1, <4>1 DEF Covers
      <4>2. CASE queue = <<>>
        BY <4>2
      <4>3. QED
        BY <2>1, <4>1, <4>2
    <3>2. QED
      BY <1>1, <1>4, <2>3, <3>1 DEF Covers
  <2>6. QED
    BY <1>4, <2>3, <2>4, <2>5, TelemetryOnly
<1>7. QED
  BY <1>5, <1>6

LEMMA PrintKeeps ==
  ASSUME ReportsInv, PrintLine
  PROVE  ReportsInv'
<1>1. Shape /\ Accounts /\ Counted /\ Covers /\ Coherent
  BY DEF ReportsInv
<1>2. tele \in Teles /\ tele.lines \in Seq(Lines) /\ tele.snapshot \in Snapshots
  BY <1>1 DEF Shape, Teles
<1>3. /\ tele.at \in {"print", "answer"} /\ shown' = shown \cup {tele.snapshot}
      /\ UNCHANGED <<world, dropped, todo, refused, made, queue, count, last>>
  BY DEF PrintLine, TeleAt, Source, Observes, taken
<1>4. Tail(tele.lines) \in Seq(Lines) /\ (Len(tele.lines) > 1 => Tail(tele.lines) # <<>>)
  <2>1. PICK lines \in Seq(Lines) : lines = tele.lines /\ lines # <<>>
    BY <1>1, <1>2, <1>3 DEF Counted
  <2>2. PICK rest \in Seq(Lines) : rest = Tail(lines) /\ Len(rest) = Len(lines) - 1
    BY <2>1, HeadTailProperties
  <2>3. Len(lines) \in Nat
    BY LenProperties
  <2>4. Len(lines) > 1 => rest # <<>>
    <3>1. rest = <<>> => Len(rest) = 0
      BY EmptySeq
    <3>2. QED
      BY <2>2, <2>3, <3>1
  <2>5. QED
    BY <2>1, <2>2, <2>4
<1>5. NoSnapshot \in Snapshots /\ Safe(NoSnapshot.world)
  BY ReportsAssumption DEF NoSnapshot, Snapshots, Worlds, Safe
<1>6. PICK rest \in Seq(Lines) : rest = Tail(tele.lines)
  BY <1>4
<1>7. \/ /\ Len(tele.lines) > 1
         /\ tele' = [tele EXCEPT !.lines = rest, !.at = tele.at, !.snapshot = tele.snapshot]
      \/ \E place \in {"drain", "wait"} :
           /\ tele.at = "print" => place = "wait"
           /\ tele' = [tele EXCEPT !.lines = rest, !.at = place, !.snapshot = NoSnapshot]
  <2>1. tele' = [tele EXCEPT !.lines = rest,
                             !.at = IF Len(tele.lines) > 1 THEN tele.at
                                    ELSE IF tele.at = "answer" THEN "drain" ELSE "wait",
                             !.snapshot = IF Len(tele.lines) > 1 THEN tele.snapshot
                                          ELSE NoSnapshot]
    BY <1>6 DEF PrintLine
  <2>2. CASE Len(tele.lines) > 1
    BY <2>1, <2>2
  <2>3. CASE ~(Len(tele.lines) > 1)
    <3>1. tele' = [tele EXCEPT !.lines = rest,
                               !.at = IF tele.at = "answer" THEN "drain" ELSE "wait",
                               !.snapshot = NoSnapshot]
      BY <2>1, <2>3
    <3>2. QED
      BY <3>1
  <2>4. QED
    BY <2>2, <2>3
<1>8. shown' \subseteq Snapshots /\ shown' \subseteq {tele.snapshot}
  BY <1>1, <1>2, <1>3 DEF Shape, Coherent
<1>9. CASE /\ Len(tele.lines) > 1
           /\ tele' = [tele EXCEPT !.lines = rest, !.at = tele.at, !.snapshot = tele.snapshot]
  <2>1. /\ tele' \in Teles /\ tele'.at = tele.at /\ tele'.snapshot = tele.snapshot
        /\ tele'.lines # <<>>
        /\ tele'.left = tele.left /\ tele'.mark = tele.mark
    BY <1>2, <1>4, <1>6, <1>9 DEF Teles
  <2>2. Counted' /\ Covers'
    BY <1>1, <1>3, <2>1 DEF Counted, Covers
  <2>3. Coherent'
    BY <1>1, <1>3, <1>8, <2>1 DEF Coherent, Safe
  <2>4. QED
    BY <1>3, <1>8, <2>1, <2>2, <2>3, TelemetryOnly
<1>10. ASSUME NEW place \in {"drain", "wait"}, tele.at = "print" => place = "wait",
              tele' = [tele EXCEPT !.lines = rest, !.at = place, !.snapshot = NoSnapshot]
       PROVE  ReportsInv'
  <2>1. /\ tele' \in Teles /\ tele'.at = place /\ tele'.snapshot = NoSnapshot
        /\ tele'.left = tele.left /\ tele'.mark = tele.mark
    BY <1>2, <1>5, <1>10 DEF Teles, Places
  <2>2. Counted' /\ Covers'
    BY <1>1, <1>3, <2>1 DEF Counted, Covers
  <2>3. Coherent'
    <3>1. \A a, b \in shown' : a = b /\ Safe(a.world)
      BY <1>1, <1>8 DEF Coherent
    <3>2. QED
      BY <1>1, <1>3, <1>5, <2>1, <3>1 DEF Coherent, Safe
  <2>4. QED
    BY <1>3, <1>8, <2>1, <2>2, <2>3, TelemetryOnly
<1>11. QED
  BY <1>7, <1>9, <1>10

\* Telemetry takes the oldest record.
LEMMA ReceiveKeeps == ASSUME ReportsInv, Receive PROVE ReportsInv'
<1>1. Shape /\ Accounts /\ Counted /\ Covers /\ Coherent /\ Paired
  BY DEF ReportsInv
<1>2. /\ tele.at = "drain" /\ tele.left > 0 /\ queue # <<>>
      /\ queue' = Tail(queue) /\ count' = count + 1 /\ last' = Head(queue) /\ shown' = {}
      /\ UNCHANGED <<world, dropped, todo, refused, made>>
  BY DEF Receive, TeleAt, Observes
<1>3. /\ tele \in Teles /\ tele.left \in 1 .. Capacity /\ Capacity \in Nat
  BY <1>1, <1>2, ReportsAssumption DEF Shape, Teles
<1>4. /\ tele' \in Teles /\ tele'.at \in {"drain", "status"} /\ tele'.left = tele.left - 1
      /\ tele'.mark = tele.mark /\ tele'.snapshot = tele.snapshot
  <2>1. \/ tele' = [tele EXCEPT !.left = tele.left - 1]
        \/ tele' = [tele EXCEPT !.left = tele.left - 1, !.at = "status"]
    BY DEF Receive
  <2>2. tele.left - 1 \in 0 .. Capacity
    BY <1>3
  <2>3. QED
    BY <1>2, <1>3, <2>1, <2>2 DEF Teles, Places
<1>5. /\ queue \in Seq(Records) /\ Head(queue) \in Records /\ Head(queue) = queue[1]
      /\ queue' \in Seq(Records) /\ Len(queue') = Len(queue) - 1
      /\ \A i \in 1 .. Len(queue') : queue'[i] = queue[i + 1]
  BY <1>1, <1>2, HeadTailProperties DEF Shape
<1>6. /\ Len(queue) \in Nat /\ Len(queue) # 0
      /\ DOMAIN queue = 1 .. Len(queue) /\ DOMAIN queue' = 1 .. Len(queue) - 1
  BY <1>2, <1>5, LenProperties, EmptySeq
<1>7. \A i \in DOMAIN queue' : i \in Nat /\ i # 0 /\ i + 1 \in DOMAIN queue
                               /\ queue'[i] = queue[i + 1]
  BY <1>5, <1>6
<1>8. Shape'
  <2>1. Len(queue') <= Capacity
    BY <1>1, <1>3, <1>5, <1>6 DEF Shape
  <2>2. count + 1 \in Nat
    BY <1>1 DEF Shape
  <2>3. QED
    BY <1>1, <1>2, <1>4, <1>5, <2>1, <2>2 DEF Shape, Teles
<1>9. Accounts'
  <2>1. Owed' = Owed
    BY <1>2 DEF Owed
  <2>2. Cardinality(refused) \in Nat
    BY <1>1, CountOfProducers DEF Shape
  <2>3. made = (Len(queue) - 1) + (count + 1) + dropped + Cardinality(refused)
    BY <1>1, <1>6, <2>2 DEF Accounts, Shape
  <2>4. QED
    BY <1>1, <1>2, <1>5, <2>1, <2>3 DEF Accounts, Busy
<1>10. Counted'
  BY <1>4 DEF Counted
<1>11. Covers'
  <2>1. \A i \in DOMAIN queue' : queue'[i].id <= tele.mark => i <= tele.left - 1
    <3> SUFFICES ASSUME NEW i \in DOMAIN queue', queue'[i].id <= tele.mark
                 PROVE  i <= tele.left - 1
      OBVIOUS
    <3>1. i + 1 <= tele.left
      BY <1>1, <1>2, <1>7 DEF Covers
    <3>2. QED
      BY <1>3, <1>7, <3>1
  <2>2. QED
    BY <1>1, <1>2, <1>4, <2>1 DEF Covers
<1>12. Coherent'
  BY <1>1, <1>2, <1>4 DEF Coherent, Safe
<1>13. Paired'
  <2>1. \A p \in Producers : todo[p] = <<>>
    BY <1>1, TelemetryRunsAlone DEF Receive, TeleAt
  <2>2. refused = {}
    BY <1>1, TelemetryRunsAlone DEF Receive, TeleAt
  <2>3. todo["Safety"] # <<"name">>
    <3>1. <<>> # <<"name">>
      OBVIOUS
    <3>2. QED
      BY <2>1, <3>1 DEF Producers
  <2>4. \A i \in DOMAIN queue' : queue'[i].kind = "name" =>
          IF i = 1 THEN Announces(Head(queue), queue'[1]) ELSE Announces(queue'[i - 1], queue'[i])
    <3> SUFFICES ASSUME NEW i \in DOMAIN queue', queue'[i].kind = "name"
                 PROVE  IF i = 1 THEN Announces(Head(queue), queue'[1])
                                 ELSE Announces(queue'[i - 1], queue'[i])
      OBVIOUS
    <3>1. PICK j \in DOMAIN queue : queue'[i] = queue[j] /\ j # 1 /\ j - 1 = i
      <4>1. i + 1 \in DOMAIN queue /\ queue'[i] = queue[i + 1] /\ i + 1 # 1 /\ (i + 1) - 1 = i
        BY <1>7
      <4>2. QED
        BY <4>1
    <3>2. Announces(queue[j - 1], queue[j])
      BY <1>1, <3>1 DEF Paired
    <3>3. Announces(queue[i], queue'[i])
      BY <3>1, <3>2
    <3>4. CASE i = 1
      BY <1>5, <3>3, <3>4
    <3>5. CASE i # 1
      <4>1. i - 1 \in DOMAIN queue' /\ i - 1 + 1 = i
        BY <1>6, <3>5
      <4>2. queue'[i - 1] = queue[i]
        BY <1>7, <4>1
      <4>3. QED
        BY <3>3, <3>5, <4>2
    <3>6. QED
      BY <3>4, <3>5
  <2>5. QED
    BY <1>1, <1>2, <2>2, <2>3, <2>4 DEF Paired
<1>14. QED
  BY <1>8, <1>9, <1>10, <1>11, <1>12, <1>13 DEF ReportsInv

----------------------------------------------------------------------------
(***************************************************************************)
(* The theorems.                                                           *)
(***************************************************************************)
LEMMA StepReports == ReportsInv /\ [Next]_vars => ReportsInv'
<1>1. ReportsInv /\ Producer => ReportsInv'
  BY ProducerKeeps
<1>2. ReportsInv /\ Reporting => ReportsInv'
  BY ReportingKeeps
<1>3. ReportsInv /\ Telemetry => ReportsInv'
  BY ReleaseKeeps, ReceiveKeeps, SnapshotKeeps, PrintKeeps DEF Telemetry
<1>4. ReportsInv /\ UNCHANGED vars => ReportsInv'
  <2> SUFFICES ASSUME ReportsInv, UNCHANGED vars PROVE ReportsInv'
    OBVIOUS
  <2>1. UNCHANGED <<world, queue, dropped, todo, refused, tele, made, count, last, shown>>
    BY DEF vars
  <2>2. Counted' /\ Covers' /\ Coherent' /\ tele \in Teles /\ shown \subseteq Snapshots
    BY <2>1 DEF ReportsInv, Shape, Teles, Counted, Covers, Coherent, Safe
  <2>3. QED
    BY <2>1, <2>2, TelemetryOnly
<1>5. QED
  BY <1>1, <1>2, <1>3, <1>4 DEF Next

\* The invariant that the four properties follow from, kept by every task's steps.
THEOREM ReportsInvariant == Spec => []ReportsInv
<1>1. QED
  BY InitReports, StepReports, PTL DEF Spec

\* Every behaviour of the reports is well typed: the queue keeps to its storage
\* and the counters to the number of the records made.
THEOREM ReportsTypeCorrect == Spec => []TypeOK
<1>1. ReportsInv => TypeOK
  <2> SUFFICES ASSUME ReportsInv PROVE TypeOK
    OBVIOUS
  <2>1. Shape /\ Accounts
    BY DEF ReportsInv
  <2>2. made \in 0 .. MaxRecords /\ dropped \in 0 .. MaxRecords /\ count \in 0 .. MaxRecords
    BY <2>1, AccountBounds
  <2>3. QED
    BY <2>1, <2>2 DEF Shape, Places, TypeOK
<1>2. QED
  BY <1>1, ReportsInvariant, PTL

\* However full the queue is and whenever the counter lags behind it, a snapshot
\* misses no record, and a cycle of Telemetry ends with none of the records that
\* were queued when it began.
THEOREM NothingLost == Spec => []NothingIsLost
<1>1. ReportsInv => NothingIsLost
  <2> SUFFICES ASSUME ReportsInv PROVE NothingIsLost
    OBVIOUS
  <2>1. Shape /\ Counted /\ Covers
    BY DEF ReportsInv
  <2>2. SnapshotCountsAll
    BY <2>1 DEF Counted, SnapshotCountsAll
  <2>3. DrainCoversQueue
    <3> SUFFICES ASSUME tele.at = "print", NEW i \in DOMAIN queue
                 PROVE  queue[i].id > tele.mark
      BY DEF DrainCoversQueue
    <3>1. tele.left = 0 /\ (queue[i].id <= tele.mark => i <= tele.left)
      BY <2>1 DEF Covers
    <3>2. i \in Nat /\ i # 0 /\ queue[i] \in Records
      <4>1. DOMAIN queue = 1 .. Len(queue) /\ queue \in Seq(Records)
        BY <2>1, LenProperties DEF Shape
      <4>2. QED
        BY <4>1, ElementOfSeq
    <3>3. queue[i].id \in Nat /\ tele.mark \in Nat
      BY <2>1, <3>2, ReportsAssumption DEF Shape, Records
    <3>4. QED
      BY <3>1, <3>2, <3>3
  <2>4. QED
    BY <2>2, <2>3 DEF NothingIsLost
<1>2. QED
  BY <1>1, ReportsInvariant, PTL

\* The lines of a group are of one state of the runtime, in which a latched fault
\* has the output at zero, although higher tasks run between any two lines.
THEOREM GroupsCoherent == Spec => []GroupsAreCoherent
<1>1. ReportsInv => GroupsAreCoherent
  BY DEF ReportsInv, Coherent, Safe, GroupsAreCoherent
<1>2. QED
  BY <1>1, ReportsInvariant, PTL

\* The name of a fault comes right behind its text or not at all, wherever in the
\* two the queue becomes full: while Safety owes the name, nobody makes room.
THEOREM NamesFollow == Spec => NameFollowsText
<1>1. ReportsInv /\ [Next]_vars
      => [last' # last /\ last'.kind = "name" =>
            last.kind = "text" /\ last.id = last'.id - 1]_vars
  <2> SUFFICES ASSUME ReportsInv, Next, last' # last, last'.kind = "name"
               PROVE  last.kind = "text" /\ last.id = last'.id - 1
    OBVIOUS
  <2>1. Receive
    BY DEF Next, Producer, SafetyTrips, MotionActs, CommsActs, Starts, Reporting, Send,
           CountDrop, Telemetry, Release, StatusSnapshot, CycleSnapshot, PrintLine, taken
  <2>2. queue # <<>> /\ last' = Head(queue) /\ Shape /\ Paired
    BY <2>1 DEF Receive, ReportsInv
  <2>3. last' = queue[1] /\ 1 \in DOMAIN queue
    <3>1. queue \in Seq(Records) /\ Head(queue) = queue[1]
      BY <2>2, HeadTailProperties DEF Shape
    <3>2. Len(queue) \in Nat \ {0} /\ DOMAIN queue = 1 .. Len(queue)
      BY <2>2, <3>1, LenProperties, EmptySeq
    <3>3. QED
      BY <2>2, <3>1, <3>2
  <2>4. Announces(last, queue[1])
    BY <2>2, <2>3 DEF Paired
  <2>5. QED
    BY <2>3, <2>4 DEF Announces
<1>2. QED
  BY <1>1, ReportsInvariant, PTL DEF Spec, NameFollowsText
=============================================================================
