---------------------------- MODULE DeviceStream ----------------------------
(***************************************************************************)
(* What the library promises about the life of its device objects: each is *)
(* announced once, may then send input, is removed at most once and never  *)
(* heard of again.  Objects are numbered in the order of their creation.   *)
(***************************************************************************)
EXTENDS Naturals

CONSTANT Dev    \* device objects, 1..n

VARIABLES
  told,   \* told[d]: what the client has been told about d
  event   \* the event queued last: its type and its device (0: none)

streamVars == <<told, event>>

Quiet == [type |-> "none", dev |-> 0]
Queued(type, d) == [type |-> type, dev |-> d]

Init == told = [d \in Dev |-> "new"] /\ event = Quiet

Add(d) ==
  /\ told[d] = "new"
  /\ \A e \in Dev : e < d => told[e] # "new"
  /\ told' = [told EXCEPT ![d] = "added"]
  /\ event' = Queued("added", d)

Input(d) ==
  /\ told[d] = "added"
  /\ event' = Queued("input", d)
  /\ UNCHANGED told

Remove(d) ==
  /\ told[d] = "added"
  /\ told' = [told EXCEPT ![d] = "removed"]
  /\ event' = Queued("removed", d)

Silent == event' = Quiet /\ UNCHANGED told

Next == (\E d \in Dev : Add(d) \/ Input(d) \/ Remove(d)) \/ Silent

Spec == Init /\ [][Next]_streamVars
=============================================================================
