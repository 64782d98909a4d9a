-------------------------------- MODULE Context --------------------------------
(***************************************************************************)
(* The C API as one client uses it (src/lib.rs, src/ffi_types.rs): the     *)
(* context, its device objects and their reference counts, the queue       *)
(* between libinput_dispatch() and libinput_get_event(), and the path API. *)
(* How a dispatch finds and reads devices is Hotplug; here it is one step. *)
(*                                                                         *)
(* The client is a correct one: it uses what it was given while the        *)
(* context exists, and drops a reference only if it took it.               *)
(***************************************************************************)
EXTENDS Integers, Sequences, FiniteSets

CONSTANTS
  MaxDev,       \* bound: device objects ever made
  MaxRefs,      \* bound: references the client holds to one object
  QueueBound,   \* bound: events in the queue
  HeldBound     \* bound: events the client has not destroyed

ASSUME ContextAssumption ==
  {MaxDev, MaxRefs, QueueBound, HeldBound} \subseteq Nat \ {0}

Dev == 1..MaxDev

VARIABLES
  \* LibinputContext
  ctx_refcount,   \* 0: dropped
  made,           \* ctx.devices is <<1, ..., made>>
  refcount,       \* of each LibinputDevice
  freed,          \* device objects dropped
  event_queue,
  lib_devices,    \* device objects the backend's map points to
  \* the hardware
  alive,          \* device objects whose hardware is there
  \* the client
  owned,          \* references it holds to each device
  known,          \* device pointers it was given
  held,           \* events it has not destroyed
  told            \* what the events it got say of each device

objectVars == <<made, refcount, freed, lib_devices>>
vars == <<ctx_refcount, made, refcount, freed, event_queue, lib_devices, alive,
          owned, known, held, told>>

Event(type, d) == [type |-> type, device |-> d]
Events(type, s) == [i \in DOMAIN s |-> Event(type, s[i])]

\* libinput_path_create_context, libinput_udev_create_context
Init ==
  /\ ctx_refcount = 1
  /\ made = 0
  /\ refcount = [d \in Dev |-> 0]
  /\ freed = {}
  /\ event_queue = <<>>
  /\ lib_devices = {}
  /\ alive = {}
  /\ owned = [d \in Dev |-> 0]
  /\ known = {}
  /\ held = {}
  /\ told = [d \in Dev |-> "nothing"]

Exists == ctx_refcount > 0
-----------------------------------------------------------------------------
(* Contexts and devices *)

libinput_ref ==
  /\ Exists /\ ctx_refcount <= MaxRefs
  /\ ctx_refcount' = ctx_refcount + 1
  /\ UNCHANGED <<objectVars, event_queue, alive, owned, known, held, told>>

\* The context goes with all its devices, whoever holds them, and the queue.
DropContext ==
  /\ freed' = freed \cup 1..made
  /\ event_queue' = <<>>
  /\ lib_devices' = {}

\* A correct client has dropped its references to devices before the last one
\* to the context.
libinput_unref ==
  /\ Exists
  /\ ctx_refcount = 1 => \A d \in Dev : owned[d] = 0
  /\ ctx_refcount' = ctx_refcount - 1
  /\ IF ctx_refcount = 1 THEN DropContext
     ELSE UNCHANGED <<freed, event_queue, lib_devices>>
  /\ UNCHANGED <<made, refcount, alive, owned, known, held, told>>

libinput_device_ref(d) ==
  /\ Exists /\ d \in known /\ owned[d] < MaxRefs
  /\ refcount' = [refcount EXCEPT ![d] = @ + 1]
  /\ owned' = [owned EXCEPT ![d] = @ + 1]
  /\ UNCHANGED <<ctx_refcount, made, freed, event_queue, lib_devices, alive, known,
                 held, told>>

Decremented(n) == n - 1

Unreferenced(n) == n <= 0

libinput_device_unref(d) ==
  /\ Exists /\ owned[d] > 0
  /\ refcount' = [refcount EXCEPT ![d] = Decremented(@)]
  /\ freed' = freed \cup (IF Unreferenced(refcount'[d]) THEN {d} ELSE {})
  /\ owned' = [owned EXCEPT ![d] = @ - 1]
  /\ UNCHANGED <<ctx_refcount, made, event_queue, lib_devices, alive, known, held,
                 told>>

Unplug(d) ==
  /\ d \in alive
  /\ alive' = alive \ {d}
  /\ UNCHANGED <<ctx_refcount, objectVars, event_queue, owned, known, held, told>>

\* try_open() makes the device objects D: one reference each, the context's.
Made(D) ==
  /\ D \subseteq {made + 1} \cap Dev
  /\ made' = made + Cardinality(D)
  /\ refcount' = [d \in Dev |-> IF d \in D THEN 1 ELSE refcount[d]]
  /\ alive' = alive \cup D

\* The context's device list survives removal, and is what this returns the
\* last of, whether or not the path could be opened.
libinput_path_add_device ==
  /\ Exists
  /\ \E D \in SUBSET {made + 1} :
       /\ Made(D)
       /\ lib_devices' = lib_devices \cup D
       /\ event_queue' = event_queue \o (IF D = {} THEN <<>>
                                         ELSE <<Event("added", made + 1)>>)
  /\ Len(event_queue') <= QueueBound
  /\ known' = known \cup ({made'} \ {0})
  /\ UNCHANGED <<ctx_refcount, freed, owned, held, told>>

\* libinput_path_remove_device blanks the name; no property tells.

Orders(D) == {s \in [1..Cardinality(D) -> D] :
                \A d \in D : \E i \in DOMAIN s : s[i] = d}

RemovedAndFreed(D) == D                           \* fault: freed on removal
FreedByRemoval(D) == {}

NotTold(s) == <<>>                                \* fault: no REMOVED
Removed(s) == Events("removed", s)

\* libinput_udev_assign_seat opens what is there; the client is given no pointer.
libinput_udev_assign_seat ==
  /\ Exists
  /\ \E D \in SUBSET {made + 1} :
       /\ D # {} /\ Made(D)
       /\ lib_devices' = lib_devices \cup D
       /\ \E new \in Orders(D) : event_queue' = event_queue \o Events("added", new)
  /\ Len(event_queue') <= QueueBound
  /\ UNCHANGED <<ctx_refcount, freed, owned, known, held, told>>

\* The drain: new devices, then input, then the removal of those that are gone,
\* all appended to the queue.  A keyboard found gone by this drain may still send
\* input in it: its keys repeat before any device is read.
Drain(D, S) ==
  /\ Made(D)
  /\ S \subseteq lib_devices \cup D
  /\ LET dead == lib_devices \ alive' IN
       /\ \E new \in Orders(D), input \in Orders(S), old \in Orders(dead) :
            event_queue' = event_queue \o Events("added", new)
                             \o Events("input", input) \o Removed(old)
       /\ lib_devices' = (lib_devices \cup D) \ dead
       /\ freed' = freed \cup FreedByRemoval(dead)
  /\ Len(event_queue') <= QueueBound
  /\ UNCHANGED <<ctx_refcount, owned, known, held, told>>

libinput_dispatch ==
  /\ Exists
  /\ \E D \in SUBSET {made + 1}, S \in SUBSET Dev : Drain(D, S)
-----------------------------------------------------------------------------
(* Events *)

Popped(e, rest) == [event |-> e, rest |-> rest]
PopBack(q) ==                                     \* fault: the latest first
  Popped(q[Len(q)], SubSeq(q, 1, Len(q) - 1))
PopFront(q) == Popped(Head(q), Tail(q))

\* libinput_get_event; the client looks at the event's device.
libinput_get_event ==
  /\ Exists /\ event_queue # <<>> /\ Cardinality(held) < HeldBound
  /\ LET e == PopFront(event_queue).event IN
       /\ held' = held \cup {e}
       /\ known' = known \cup {e.device}
       /\ told' = [told EXCEPT ![e.device] = e.type]
  /\ event_queue' = PopFront(event_queue).rest
  /\ UNCHANGED <<ctx_refcount, objectVars, alive, owned>>

\* libinput_event_destroy frees the event only, before or after the context.
libinput_event_destroy(e) ==
  /\ held' = held \ {e}
  /\ UNCHANGED <<ctx_refcount, objectVars, event_queue, alive, owned, known,
                 told>>

Next ==
  \/ libinput_ref \/ libinput_unref
  \/ libinput_udev_assign_seat \/ libinput_path_add_device
  \/ libinput_dispatch \/ libinput_get_event
  \/ \E d \in Dev : libinput_device_ref(d) \/ libinput_device_unref(d) \/ Unplug(d)
  \/ \E e \in held : libinput_event_destroy(e)

Spec == Init /\ [][Next]_vars
-----------------------------------------------------------------------------
(* Properties *)

EventSet == [type : {"added", "input", "removed"}, device : Dev]

TypeOK ==
  /\ ctx_refcount \in 0..MaxRefs + 1
  /\ made \in 0..MaxDev
  /\ refcount \in [Dev -> 0..MaxRefs + 1]
  /\ freed \subseteq 1..made
  /\ event_queue \in Seq(EventSet)
  /\ lib_devices \subseteq 1..made
  /\ alive \subseteq 1..made
  /\ owned \in [Dev -> 0..MaxRefs]
  /\ known \subseteq 1..made
  /\ held \subseteq EventSet
  /\ told \in [Dev -> {"nothing", "added", "input", "removed"}]

\* While the context exists, every device object that the backend, an event in
\* the queue or the client refers to exists, also after its hardware is gone.
PointersValid ==
  Exists => /\ lib_devices \cap freed = {}
            /\ known \cap freed = {}
            /\ \A i \in DOMAIN event_queue : event_queue[i].device \notin freed

\* A device object has one reference more than the client took: the context's,
\* which is why only the end of the context frees it.
ContextHoldsOne ==
  \A d \in 1..made : refcount[d] = owned[d] + 1 /\ (Exists => d \notin freed)

\* What the client was told last of d and what the queue has for it still, put
\* together, is a beginning of: added, any input, removed; it is nothing only
\* of objects that were not made.
Life(d) ==
  LET waiting == {i \in DOMAIN event_queue : event_queue[i].device = d} IN
  /\ \A i \in waiting :
       event_queue[i].type = "added"
         <=> told[d] = "nothing" /\ \A j \in waiting : i <= j
  /\ \A i, j \in waiting : event_queue[i].type = "removed" => j <= i
  /\ waiting # {} => told[d] # "removed"
  /\ Exists /\ d <= made => told[d] # "nothing" \/ waiting # {}

\* ADDED, input, REMOVED reach the client in this order however dispatches,
\* the path API and the reading of events are interleaved.
LivesInOrder == \A d \in Dev : Life(d)

\* A device the backend has is one of whose removal nothing was queued or told,
\* and every other one that was announced has its REMOVED on the way or got it.
RemovalIsTold ==
  Exists => \A d \in 1..made :
    d \in lib_devices <=>
      told[d] # "removed" /\ \A i \in DOMAIN event_queue :
                               event_queue[i] # Event("removed", d)

\* The context holds one reference to each object it made.
References ==
  /\ \A d \in Dev : refcount[d] = IF d <= made THEN owned[d] + 1 ELSE 0
  /\ \A d \in Dev : d > made => owned[d] = 0
  /\ Exists => freed = {}

\* Only of objects made there is anything queued or told.
OnlyOfMade ==
  /\ \A i \in DOMAIN event_queue : event_queue[i].device <= made
  /\ \A d \in Dev : d > made => told[d] = "nothing"

\* Nothing is queued of a device after its REMOVED.
RemovedIsLast ==
  /\ \A i \in DOMAIN event_queue : told[event_queue[i].device] # "removed"
  /\ \A i, j \in DOMAIN event_queue :
       i < j /\ event_queue[i].type = "removed"
         => event_queue[j].device # event_queue[i].device

\* Types, references and removals together: an inductive invariant of the API.
ContextInv ==
  /\ TypeOK
  /\ References
  /\ OnlyOfMade
  /\ RemovedIsLast
  /\ RemovalIsTold
=============================================================================
