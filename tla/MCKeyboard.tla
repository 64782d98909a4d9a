------------------------------ MODULE MCKeyboard ------------------------------
(* Keyboard on small instances. *)
EXTENDS Keyboard
=============================================================================
