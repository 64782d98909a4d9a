----------------------------- MODULE MCDaemonKeys -----------------------------
(* DaemonKeys on small instances. *)
EXTENDS DaemonKeys

CONSTANTS k1, k2

\* The reset chord on one keyboard, half of it on another.
TwoKeyboards == {k1, k2}
ChordAndAlt ==
  [k \in TwoKeyboards |-> IF k = k1 THEN {"leftctrl", "leftalt", "r"} ELSE {"leftalt"}]
=============================================================================
