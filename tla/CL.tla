--------------------------------- MODULE CL ---------------------------------
(***************************************************************************)
(* One cell of a maze (CL.h, CL.cpp): four walls kept as one character.    *)
(*                                                                         *)
(* The object holds the character twice: m_char in the range '0'..'?'      *)
(* (consecutive codes, so that a wall is added or removed by adding or     *)
(* subtracting its weight) and m_1fchar in hexadecimal digits (what the    *)
(* maze string shows).  A character stands here for its code minus the     *)
(* code of '0': '0'..'9' are 0..9, ':'..'?' are 10..15, 'a'..'f' are       *)
(* 49..54.                                                                 *)
(***************************************************************************)
EXTENDS Integers

\* Sides are numbered as in the code: top, right, bottom, left.
Sides == 0..3

internalTohumanReadableChar(c) == IF c \in 10..15 THEN c + 39 ELSE c

\* Mutation: the case 'a' forgotten.
Mut_humanReadableToInternalChar(c) == IF c \in 50..54 THEN c - 39 ELSE c

humanReadableToInternalChar(c) == IF c \in 49..54 THEN c - 39 ELSE c

\* The constructor: m_1fchar keeps the character as it was given.
NewCL(c) == [m_char |-> humanReadableToInternalChar(c), m_1fchar |-> c]

hasTopWall(cl) == cl.m_char \in 8..15

hasRightWall(cl) == cl.m_char \in 4..7 \/ cl.m_char \in 12..15

hasBottomWall(cl) == cl.m_char \in {2, 3, 6, 7, 10, 11, 14, 15}

hasLeftWall(cl) == cl.m_char \in {1, 3, 5, 7, 9, 11, 13, 15}

\* Mutation: the test of the top wall forgotten.
Mut_hasWall(cl, s) ==
  \/ s = 1 /\ hasRightWall(cl)
  \/ s = 2 /\ hasBottomWall(cl)
  \/ s = 3 /\ hasLeftWall(cl)

\* The test CL::addRandomWall makes for the side it drew.
hasWall(cl, s) ==
  \/ s = 0 /\ hasTopWall(cl)
  \/ s = 1 /\ hasRightWall(cl)
  \/ s = 2 /\ hasBottomWall(cl)
  \/ s = 3 /\ hasLeftWall(cl)

\* The switch of addWallAtSide and removeWallAt has no default: another
\* side leaves m_char alone.
WallWeight(s) ==
  CASE s = 0 -> 8 [] s = 1 -> 4 [] s = 2 -> 2 [] s = 3 -> 1 [] OTHER -> 0

WithChar(c) == [m_char |-> c, m_1fchar |-> internalTohumanReadableChar(c)]

\* Neither looks whether the wall is there: adding a wall twice carries
\* into the wall of another side.
addWallAtSide(cl, s) == WithChar(cl.m_char + WallWeight(s))

removeWallAt(cl, s) == WithChar(cl.m_char - WallWeight(s))

getNumberOfWalls(cl) ==
  LET c == cl.m_char
  IN  CASE c = 0 -> 0
        [] c \in {1, 2, 4, 8} -> 1
        [] c \in {3, 5, 6, 9, 10, 12} -> 2
        [] c \in {7, 11, 13, 14} -> 3
        [] c = 15 -> 4
        [] OTHER -> 5

\* The cells whose two characters agree and lie in the documented range.
ValidCL == {WithChar(c) : c \in 0..15}
=============================================================================
