-------------------------------- MODULE Maze --------------------------------
(***************************************************************************)
(* What MZ::generateMZ promises: a maze that starts without inner walls,   *)
(* between an entrance in the right border and an exit in the left one,    *)
(* and that grows wall by wall.  No wall is ever taken away, and none that *)
(* would cut cells off is ever put up.                                     *)
(***************************************************************************)
EXTENDS Walls

VARIABLES walls, entrance, exit

Init == walls = {} /\ entrance = -1 /\ exit = -1

Open ==
  /\ entrance = -1
  /\ entrance' \in {c \in Cells : isRightEdge(c)}
  /\ exit' \in {c \in Cells : isLeftEdge(c)}
  /\ UNCHANGED walls

AddWall(w) ==
  /\ entrance # -1
  /\ w \notin walls
  /\ Connected(walls \cup {w})
  /\ walls' = walls \cup {w}
  /\ UNCHANGED <<entrance, exit>>

Next == Open \/ \E w \in InnerWalls : AddWall(w)

Spec == Init /\ [][Next]_<<walls, entrance, exit>>
=============================================================================
