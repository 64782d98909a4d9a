----------------------------- MODULE MCDaemonLoop -----------------------------
(* DaemonLoop on small instances. *)
EXTENDS DaemonLoop

\* A keyboard may fall behind by more than a batch; a pointer sends one frame at
\* a time, and is plugged in no more after two plugs.
Queues == [n \in Node |-> IF n \in Keyboards THEN 3 ELSE 1]
PlugsEach == [n \in Node |-> IF n \in Keyboards THEN 3 ELSE 2]
=============================================================================
