------------------------------- MODULE MCAxis -------------------------------
(***************************************************************************)
(* The scenarios: those of closed_loop_main.c's run() that move or home    *)
(* (homing-already, which begins at the switch, is left out), the two of   *)
(* plant_main.c, and moves to targets between them.  Figures are quoted    *)
(* from docs/phase-5.md:92-99, phase-7.md:62-80 and phase-4.md:142-163.    *)
(***************************************************************************)
EXTENDS Axis

MoveTo(target) == [type |-> "MOVE", value |-> target]
MoveBy(distance) == [type |-> "MOVE_REL", value |-> distance]
Home == [type |-> "HOME", value |-> 0]
DriveAt(duty, steps) == [type |-> "DRIVE", value |-> duty, steps |-> steps]
PlaceAt(position) == [type |-> "PLACE", value |-> position]

Moved(what, final, completion, settling, over) ==
  [what |-> what, logical |-> final, completion |-> completion, settling |-> settling, over |-> over]

Homed(raw, elapsed) == [what |-> "HOME", logical |-> 0, raw |-> raw, seek |-> elapsed]

Play(start, scenarioPlan, published) ==
  [min |-> 0, max |-> 5000, start |-> start, shown |-> start, plan |-> scenarioPlan,
   figures |-> published]

Driven(position, velocity, raw) ==
  [what |-> "DRIVE", tenths |-> position, speed |-> velocity, raw |-> raw]

PublishedScenarios ==
  <<Play(1000, <<MoveTo(2000), MoveTo(500), MoveTo(3500), MoveBy(-500)>>,
         <<Moved("MOVE", 2001, 4350, 4830, 1), Moved("MOVE", 499, 5600, 6140, 1),
           Moved("MOVE", 3501, 9350, 9830, 1), Moved("MOVE_REL", 3000, 3090, 3690, 1)>>),
    Play(1000, <<MoveTo(500)>>, <<Moved("MOVE", 499, 3100, 3630, 1)>>),
    Play(1000, <<MoveBy(-300)>>, <<Moved("MOVE_REL", 699, 2590, 3220, 1)>>),
    Play(1000, <<MoveTo(1000)>>, <<Moved("MOVE", 1000, 190, 0, 0)>>),
    Play(500, <<Home, MoveTo(500)>>, <<Homed(0, 3590), Moved("MOVE", 501, 3100, 3630, 1)>>),
    Play(1000, <<MoveTo(3000), Home, MoveTo(500), Home>>,
         <<[what |-> "MOVE", logical |-> 3001], Homed(0, 20260),
           Moved("MOVE", 501, 3100, 3630, 1), Homed(0, 3590)>>),
    Play(1500, <<Home>>, <<Homed(0, 10250)>>),
    Play(4000, <<Home>>, <<Homed(0, 26920)>>),
    [Play(1600, <<Home, MoveTo(500)>>, <<Homed(100, 10250), Moved("MOVE", 501, 3100, 3630, 1)>>)
       EXCEPT !.min = 100, !.max = 5100, !.shown = 7777],
    [Play(1500, <<Home>>,
          <<[what |-> "HOME", state |-> "FAULT", held |-> -4463, seek |-> 40000]>>)
       EXCEPT !.min = -10000],
    Play(1000, <<DriveAt(500000, 1000), DriveAt(0, 1000), DriveAt(-500000, 2000)>>,
         <<Driven(11889, 2455, 1189), Driven(12489, 45, 1249), Driven(8122, -2499, 812)>>),
    Play(1000, <<PlaceAt(4990), DriveAt(1000000, 1000), DriveAt(-500000, 1),
                 PlaceAt(10), DriveAt(-1000000, 1000)>>,
         <<[what |-> "DRIVE", raw |-> 5000, speed |-> 0, atMax |-> TRUE],
           [what |-> "DRIVE", raw |-> 5000, speed |-> -10, atMax |-> FALSE],
           [what |-> "DRIVE", raw |-> 0, speed |-> 0, atMin |-> TRUE]>>)>>

\* Distances from one count to the whole travel, and a seek from the far end.
Targets == <<1001, 1007, 1049, 1051, 990, 951, 940, 3, 4997>>

MCScenarios ==
  PublishedScenarios \o [i \in DOMAIN Targets |-> Play(1000, <<MoveTo(Targets[i])>>, <<>>)]
    \o <<Play(4999, <<Home, MoveTo(4)>>, <<>>)>>
=============================================================================
