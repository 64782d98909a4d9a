------------------------------- MODULE MCMotion -------------------------------
(* Motion on small instances. *)
EXTENDS Motion

Point(x, y) == [a \in Axis |-> IF a = "x" THEN x ELSE y]

\* Each slot has its part of the pad; a contact moves along both axes at once.
Diagonal == [s \in HwSlots |-> {Point(50 * s, 40 * s), Point(50 * s + 25, 40 * s + 20)}]
ThreeSlots == 0..2
One == {9}
=============================================================================
