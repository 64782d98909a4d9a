------------------------------ MODULE MCHotplug ------------------------------
(* Hotplug on small instances. *)
EXTENDS Hotplug
=============================================================================
