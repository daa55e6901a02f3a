---------------------------- MODULE CommandPipe ----------------------------
(***************************************************************************)
(* What the path of a command promises, without tasks, queues or           *)
(* notifications: a pipe that may lose a frame anywhere and then counts    *)
(* it, but hands on the rest once each and in order.                       *)
(* Stated from docs/real-time-design.md and docs/phase-2.md.               *)
(***************************************************************************)
EXTENDS Integers, Sequences

CONSTANT Frames

VARIABLES pipe,   \* frames on their way
          out,    \* frames Motion has answered
          lost    \* frames counted as lost

Init == pipe = <<>> /\ out = <<>> /\ lost = 0

\* Some of the frames that arrive together find room, the first of them.
Arrive ==
  /\ \E n \in 0 .. Len(pipe') - Len(pipe) :
       Len(pipe') = Len(pipe) + n /\ SubSeq(pipe', 1, Len(pipe)) = pipe
  /\ lost' \in Nat /\ lost' >= lost
  /\ UNCHANGED out

Lose ==
  /\ \E i \in DOMAIN pipe :
       pipe' = SubSeq(pipe, 1, i - 1) \o SubSeq(pipe, i + 1, Len(pipe))
  /\ lost' = lost + 1
  /\ UNCHANGED out

Answer ==
  /\ pipe # <<>>
  /\ pipe' = Tail(pipe) /\ out' = Append(out, Head(pipe))
  /\ UNCHANGED lost

Next == Arrive \/ Lose \/ Answer

Spec == Init /\ [][Next]_<<pipe, out, lost>>
=============================================================================
