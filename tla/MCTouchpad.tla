------------------------------ MODULE MCTouchpad ------------------------------
(* Touchpad on small instances. *)
EXTENDS Touchpad

DwtMayChange == [tap_enabled : {TRUE}, dwt_enabled : BOOLEAN]
BothOn == {[tap_enabled |-> TRUE, dwt_enabled |-> TRUE]}
LeftRight == {"left", "right"}
XY == {"x", "y"}
=============================================================================
