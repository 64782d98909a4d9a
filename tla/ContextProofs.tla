----------------------------- MODULE ContextProofs -----------------------------
(***************************************************************************)
(* For any number of devices and references: pointers given out stay valid *)
(* while the context exists, the backend has exactly the devices whose     *)
(* removal was neither queued nor told, and what the client hears of each  *)
(* device object begins with ADDED and ends with REMOVED.                  *)
(***************************************************************************)
EXTENDS Context, FiniteSetTheorems, SequenceTheorems, TLAPS

LEMMA Constants ==
  MaxDev \in Nat /\ MaxRefs \in Nat /\ QueueBound \in Nat /\ HeldBound \in Nat
BY ContextAssumption

LEMMA InvInit == Init => ContextInv
<1> SUFFICES ASSUME Init PROVE ContextInv
  OBVIOUS
<1> USE Constants DEF Init
<1>1. TypeOK
  BY DEF TypeOK, EventSet, Dev
<1>2. References
  BY DEF References, Dev
<1>3. OnlyOfMade /\ RemovedIsLast /\ RemovalIsTold
  BY DEF OnlyOfMade, RemovedIsLast, RemovalIsTold
<1> QED
  BY <1>1, <1>2, <1>3 DEF ContextInv
-----------------------------------------------------------------------------
(* What a call appends to the queue *)

\* An order of a finite set of devices has each of them once.
LEMMA OrdersAreInjective ==
  ASSUME NEW D, IsFiniteSet(D), NEW s \in Orders(D)
  PROVE  /\ s \in Seq(D)
         /\ \A i, j \in DOMAIN s : s[i] = s[j] => i = j
         /\ \A d \in D : \E i \in DOMAIN s : s[i] = d
<1>1. Cardinality(D) \in Nat
  BY FS_CardinalityType
<1>2. s \in [1..Cardinality(D) -> D] /\ \A d \in D : \E i \in DOMAIN s : s[i] = d
  BY DEF Orders
<1>3. s \in Surjection(1..Cardinality(D), D)
  BY <1>2 DEF Surjection
<1>4. IsFiniteSet(1..Cardinality(D)) /\ Cardinality(1..Cardinality(D)) = Cardinality(D)
  BY <1>1, FS_Interval
<1>5. s \in Injection(1..Cardinality(D), D)
  BY <1>3, <1>4, FS_SurjSameCardinalityImpliesInj
<1>6. s \in Seq(D)
  BY <1>1, <1>2
<1> QED
  BY <1>2, <1>5, <1>6 DEF Injection, IsInjective

\* s may follow the queue of a call that makes the devices D.
MayFollow(D, s) ==
  /\ s \in Seq(EventSet)
  /\ \A i \in DOMAIN s : s[i].device \in lib_devices \cup D
  /\ \A i, j \in DOMAIN s :
       i < j /\ s[i].type = "removed" => s[j].device # s[i].device
  /\ \A i \in DOMAIN s :
       s[i].type = "added"
         <=> /\ s[i].device \in D
             /\ \A j \in DOMAIN s : s[j].device = s[i].device => i <= j
  /\ \A d \in D : \E i \in DOMAIN s : s[i].device = d

\* A call that opens the devices D and appends s to the queue.
Call(D, s) ==
  /\ Exists
  /\ D \in SUBSET Dev /\ Made(D)
  /\ MayFollow(D, s)
  /\ event_queue' = event_queue \o s
  /\ lib_devices' = {d \in lib_devices \cup D :
                       \A i \in DOMAIN s : s[i] # Event("removed", d)}
  /\ known' \subseteq 1..made' /\ known \subseteq known'
  /\ UNCHANGED <<ctx_refcount, freed, owned, held, told>>

LEMMA CallMakes ==
  ASSUME ContextInv, NEW D, NEW s, Call(D, s)
  PROVE  /\ made \in Nat /\ made' \in Nat /\ made <= made' /\ made' <= MaxDev
         /\ D \subseteq made + 1..made' /\ made + 1..made' \subseteq D
         /\ 1..made' = 1..made \cup D
<1> USE Constants
<1>1. made \in 0..MaxDev /\ Made(D)
  BY DEF ContextInv, TypeOK, Call
<1>2. CASE D = {}
  BY <1>1, <1>2, FS_EmptySet DEF Made
<1>3. CASE D # {}
  <2>1. made + 1 \in D /\ made + 1 \in Dev /\ D = {made + 1}
    BY <1>1, <1>3 DEF Made
  <2>2. made' = made + 1
    BY <1>1, <2>1, FS_Singleton DEF Made
  <2> QED
    BY <2>1, <2>2, <1>1 DEF Dev
<1> QED
  BY <1>2, <1>3

LEMMA CallQueues ==
  ASSUME ContextInv, NEW D, NEW s, Call(D, s)
  PROVE  /\ event_queue' \in Seq(EventSet)
         /\ Len(event_queue') = Len(event_queue) + Len(s)
         /\ \A i \in DOMAIN event_queue : event_queue'[i] = event_queue[i]
         /\ \A i \in DOMAIN event_queue' :
              i \notin DOMAIN event_queue =>
                /\ i - Len(event_queue) \in DOMAIN s
                /\ event_queue'[i] = s[i - Len(event_queue)]
         /\ \A i \in DOMAIN s : /\ i + Len(event_queue) \in DOMAIN event_queue'
                                /\ event_queue'[i + Len(event_queue)] = s[i]
<1>1. /\ event_queue \in Seq(EventSet) /\ s \in Seq(EventSet)
      /\ event_queue' = event_queue \o s
  BY DEF ContextInv, TypeOK, MayFollow, Call
<1> QED
  BY <1>1

\* Such a call keeps the invariant if the devices it takes from the backend are
\* those of whose removal it queues an event.
LEMMA CallKeepsInv ==
  ASSUME ContextInv, NEW D, NEW s, Call(D, s)
  PROVE  ContextInv'
<1> USE Constants
<1>0. /\ Exists /\ D \in SUBSET Dev /\ Made(D) /\ MayFollow(D, s)
      /\ lib_devices' = {d \in lib_devices \cup D :
                           \A i \in DOMAIN s : s[i] # Event("removed", d)}
      /\ known' \subseteq 1..made' /\ known \subseteq known'
      /\ UNCHANGED <<ctx_refcount, freed, owned, held, told>>
  BY DEF Call
<1> USE <1>0
<1>1. /\ made \in Nat /\ made' \in Nat /\ made <= made' /\ made' <= MaxDev
      /\ D \subseteq made + 1..made' /\ made + 1..made' \subseteq D
      /\ 1..made' = 1..made \cup D
  BY CallMakes
<1>2. /\ event_queue \in Seq(EventSet) /\ s \in Seq(EventSet)
      /\ lib_devices \subseteq 1..made
      /\ told \in [Dev -> {"nothing", "added", "input", "removed"}]
  BY DEF ContextInv, TypeOK, MayFollow
<1>3. /\ event_queue' \in Seq(EventSet)
      /\ Len(event_queue') = Len(event_queue) + Len(s)
      /\ \A i \in DOMAIN event_queue : event_queue'[i] = event_queue[i]
      /\ \A i \in DOMAIN event_queue' :
           i \notin DOMAIN event_queue =>
             /\ i - Len(event_queue) \in DOMAIN s
             /\ event_queue'[i] = s[i - Len(event_queue)]
      /\ \A i \in DOMAIN s : /\ i + Len(event_queue) \in DOMAIN event_queue'
                             /\ event_queue'[i + Len(event_queue)] = s[i]
  BY CallQueues
<1>4. \A e \in EventSet : e.device \in Dev /\ e = Event(e.type, e.device)
  BY DEF EventSet, Event
<1>5. \A d \in lib_devices \cup D :
        /\ told[d] # "removed"
        /\ \A i \in DOMAIN event_queue : event_queue[i] # Event("removed", d)
  <2>1. ASSUME NEW d \in lib_devices
        PROVE  /\ told[d] # "removed"
               /\ \A i \in DOMAIN event_queue : event_queue[i] # Event("removed", d)
    BY <1>2 DEF ContextInv, RemovalIsTold
  <2>2. ASSUME NEW d \in D
        PROVE  /\ told[d] # "removed"
               /\ \A i \in DOMAIN event_queue : event_queue[i] # Event("removed", d)
    BY <1>1 DEF ContextInv, OnlyOfMade, Event
  <2> QED
    BY <2>1, <2>2
<1>6. TypeOK'
  <2>1. ctx_refcount' \in 0..MaxRefs + 1 /\ made' \in 0..MaxDev
    BY <1>1 DEF ContextInv, TypeOK
  <2>2. refcount' \in [Dev -> 0..MaxRefs + 1]
    BY DEF ContextInv, TypeOK, Made
  <2>3. freed' \subseteq 1..made' /\ lib_devices' \subseteq 1..made'
    BY <1>1 DEF ContextInv, TypeOK
  <2>4. alive' \subseteq 1..made' /\ known' \subseteq 1..made'
    BY <1>1 DEF ContextInv, TypeOK, Made
  <2>5. owned' \in [Dev -> 0..MaxRefs] /\ held' \subseteq EventSet
    BY DEF ContextInv, TypeOK
  <2> QED
    BY <2>1, <2>2, <2>3, <2>4, <2>5, <1>2, <1>3 DEF TypeOK
<1>7. References'
  <2>1. \A d \in Dev : refcount'[d] = IF d \in D THEN 1 ELSE refcount[d]
    BY DEF Made
  <2>2. \A d \in Dev : d > made => owned[d] = 0
    BY DEF ContextInv, References
  <2>3. ASSUME NEW d \in Dev
        PROVE  refcount'[d] = IF d <= made' THEN owned[d] + 1 ELSE 0
    <3>1. refcount[d] = IF d <= made THEN owned[d] + 1 ELSE 0
      BY DEF ContextInv, References
    <3>2. CASE d \in D
      BY <3>2, <2>1, <2>2, <1>1 DEF Dev
    <3>3. CASE d \notin D
      BY <3>1, <3>3, <2>1, <1>1 DEF Dev
    <3> QED
      BY <3>2, <3>3
  <2>4. \A d \in Dev : d > made' => owned[d] = 0
    BY <2>2, <1>1 DEF Dev
  <2>5. freed' = {}
    BY DEF ContextInv, References
  <2> QED
    BY <2>3, <2>4, <2>5 DEF References
<1>8. OnlyOfMade'
  <2>1. ASSUME NEW i \in DOMAIN event_queue' PROVE event_queue'[i].device <= made'
    <3>1. CASE i \in DOMAIN event_queue
      <4>1. event_queue[i] \in EventSet /\ event_queue[i].device <= made
        BY <3>1, <1>2 DEF ContextInv, OnlyOfMade
      <4>2. event_queue[i].device \in Dev
        BY <4>1, <1>4
      <4>3. event_queue[i].device <= made'
        BY <4>1, <4>2, <1>1 DEF Dev
      <4> QED
        BY <4>3, <3>1, <1>3
    <3>2. CASE i \notin DOMAIN event_queue
      <4>1. event_queue'[i].device \in lib_devices \cup D
        BY <3>2, <1>3 DEF MayFollow
      <4>2. \A d \in lib_devices \cup D : d <= made'
        BY <1>1, <1>2
      <4> QED
        BY <4>1, <4>2
    <3> QED
      BY <3>1, <3>2
  <2>2. \A d \in Dev : d > made' => told'[d] = "nothing"
    BY <1>1 DEF ContextInv, OnlyOfMade, Dev
  <2> QED
    BY <2>1, <2>2 DEF OnlyOfMade
<1>9. RemovedIsLast'
  <2>1. ASSUME NEW i \in DOMAIN event_queue'
        PROVE  told'[event_queue'[i].device] # "removed"
    <3>1. CASE i \in DOMAIN event_queue
      BY <3>1, <1>3 DEF ContextInv, RemovedIsLast
    <3>2. CASE i \notin DOMAIN event_queue
      BY <3>2, <1>3, <1>5 DEF MayFollow
    <3> QED
      BY <3>1, <3>2
  <2>2. ASSUME NEW i \in DOMAIN event_queue', NEW j \in DOMAIN event_queue',
               i < j, event_queue'[i].type = "removed"
        PROVE  event_queue'[j].device # event_queue'[i].device
    <3>1. CASE j \in DOMAIN event_queue
      <4>1. i \in DOMAIN event_queue
        BY <3>1, <2>2, <1>2, <1>3
      <4> QED
        BY <4>1, <3>1, <2>2, <1>3 DEF ContextInv, RemovedIsLast
    <3>2. CASE i \in DOMAIN event_queue /\ j \notin DOMAIN event_queue
      <4>1. event_queue'[j].device \in lib_devices \cup D
        BY <3>2, <1>3 DEF MayFollow
      <4>2. event_queue[i] = Event("removed", event_queue'[i].device)
        BY <3>2, <2>2, <1>2, <1>3, <1>4
      <4> QED
        BY <4>1, <4>2, <3>2, <1>5
    <3>3. CASE i \notin DOMAIN event_queue /\ j \notin DOMAIN event_queue
      <4> DEFINE k == i - Len(event_queue)
                 l == j - Len(event_queue)
      <4>1. /\ k \in DOMAIN s /\ l \in DOMAIN s /\ k < l
            /\ event_queue'[i] = s[k] /\ event_queue'[j] = s[l]
        BY <3>3, <2>2, <1>2, <1>3
      <4> QED
        BY <4>1, <2>2 DEF MayFollow
    <3> QED
      BY <3>1, <3>2, <3>3
  <2> QED
    BY <2>1, <2>2 DEF RemovedIsLast
<1>10. RemovalIsTold'
  <2>1. ASSUME NEW d \in 1..made'
        PROVE  d \in lib_devices' <=>
                 told'[d] # "removed" /\ \A i \in DOMAIN event_queue' :
                                           event_queue'[i] # Event("removed", d)
    <3>1. CASE d \in lib_devices \cup D
      <4>1. ASSUME \A i \in DOMAIN event_queue' : event_queue'[i] # Event("removed", d),
                   NEW j \in DOMAIN s
            PROVE  s[j] # Event("removed", d)
        <5>1. /\ j + Len(event_queue) \in DOMAIN event_queue'
              /\ event_queue'[j + Len(event_queue)] = s[j]
          BY <1>3
        <5> QED
          BY <5>1, <4>1
      <4>2. ASSUME \A i \in DOMAIN s : s[i] # Event("removed", d),
                   NEW i \in DOMAIN event_queue'
            PROVE  event_queue'[i] # Event("removed", d)
        <5>1. CASE i \in DOMAIN event_queue
          BY <5>1, <3>1, <1>3, <1>5
        <5>2. CASE i \notin DOMAIN event_queue
          BY <5>2, <4>2, <1>3
        <5> QED
          BY <5>1, <5>2
      <4> QED
        BY <4>1, <4>2, <3>1, <1>5
    <3>2. CASE d \notin lib_devices \cup D
      <4>1. d \in 1..made /\ d \notin lib_devices'
        BY <3>2, <1>1
      <4>2. CASE told[d] = "removed"
        BY <4>1, <4>2
      <4>3. CASE told[d] # "removed"
        <5>1. PICK i \in DOMAIN event_queue : event_queue[i] = Event("removed", d)
          BY <4>1, <4>3, <3>2 DEF ContextInv, RemovalIsTold
        <5>2. i \in DOMAIN event_queue' /\ event_queue'[i] = Event("removed", d)
          BY <5>1, <1>2, <1>3
        <5> QED
          BY <5>2, <4>1
      <4> QED
        BY <4>2, <4>3
    <3> QED
      BY <3>1, <3>2
  <2> QED
    BY <2>1 DEF RemovalIsTold, Event
<1> QED
  BY <1>6, <1>7, <1>8, <1>9, <1>10 DEF ContextInv
-----------------------------------------------------------------------------
(* One lemma per action *)

LEMMA RefKeepsInv == ContextInv /\ libinput_ref => ContextInv'
<1> SUFFICES ASSUME ContextInv, libinput_ref PROVE ContextInv'
  OBVIOUS
<1> USE Constants DEF libinput_ref, objectVars
<1>1. TypeOK'
  BY DEF ContextInv, TypeOK
<1>2. References' /\ OnlyOfMade' /\ RemovedIsLast' /\ RemovalIsTold'
  BY DEF ContextInv, References, OnlyOfMade, RemovedIsLast, RemovalIsTold, Exists, Event
<1> QED
  BY <1>1, <1>2 DEF ContextInv

\* Without a context the last two parts of the invariant say nothing.
LEMMA UnrefKeepsInv == ContextInv /\ libinput_unref => ContextInv'
<1> SUFFICES ASSUME ContextInv, libinput_unref PROVE ContextInv'
  OBVIOUS
<1> USE Constants DEF libinput_unref
<1>1. CASE ctx_refcount = 1
  <2>1. ctx_refcount' = 0 /\ ~Exists'
    BY <1>1 DEF Exists
  <2>2. TypeOK'
    <3>1. /\ ctx_refcount' = 0 /\ freed' = freed \cup 1..made
          /\ event_queue' = <<>> /\ lib_devices' = {}
          /\ UNCHANGED <<made, refcount, alive, owned, known, held, told>>
      BY <1>1 DEF DropContext
    <3>2. 0 \in 0..MaxRefs + 1 /\ <<>> \in Seq(EventSet)
      OBVIOUS
    <3> QED
      BY <3>1, <3>2 DEF ContextInv, TypeOK
  <2>3. References' /\ RemovalIsTold'
    BY <2>1 DEF ContextInv, References, RemovalIsTold
  <2>4. OnlyOfMade' /\ RemovedIsLast'
    BY <1>1 DEF ContextInv, OnlyOfMade, RemovedIsLast, DropContext
  <2> QED
    BY <2>2, <2>3, <2>4 DEF ContextInv
<1>2. CASE ctx_refcount # 1
  <2>1. TypeOK'
    <3>1. ctx_refcount' \in 0..MaxRefs + 1
      BY DEF ContextInv, TypeOK, Exists
    <3> QED
      BY <3>1, <1>2 DEF ContextInv, TypeOK
  <2>2. References' /\ OnlyOfMade' /\ RemovedIsLast' /\ RemovalIsTold'
    BY <1>2 DEF ContextInv, References, OnlyOfMade, RemovedIsLast, RemovalIsTold,
              Exists, Event
  <2> QED
    BY <2>1, <2>2 DEF ContextInv
<1> QED
  BY <1>1, <1>2

LEMMA DeviceRefKeepsInv ==
  ASSUME ContextInv, NEW d \in Dev, libinput_device_ref(d)
  PROVE  ContextInv'
<1> USE Constants DEF libinput_device_ref
<1>1. d <= made
  BY DEF ContextInv, TypeOK, Dev
<1>2. TypeOK'
  BY <1>1 DEF ContextInv, TypeOK, References
<1>3. References'
  BY <1>1 DEF ContextInv, TypeOK, References, Exists
<1>4. OnlyOfMade' /\ RemovedIsLast' /\ RemovalIsTold'
  BY DEF ContextInv, OnlyOfMade, RemovedIsLast, RemovalIsTold, Exists, Event
<1> QED
  BY <1>2, <1>3, <1>4 DEF ContextInv

\* The client's last reference leaves the context's.
LEMMA DeviceUnrefKeepsInv ==
  ASSUME ContextInv, NEW d \in Dev, libinput_device_unref(d)
  PROVE  ContextInv'
<1> USE Constants DEF libinput_device_unref
<1>1. d <= made /\ refcount[d] = owned[d] + 1 /\ owned[d] \in 1..MaxRefs
  BY DEF ContextInv, TypeOK, References, Dev
<1>2. refcount'[d] = owned[d]
  BY <1>1 DEF ContextInv, TypeOK, Decremented
<1>3. freed' = freed
  BY <1>1, <1>2 DEF Unreferenced
<1>4. /\ refcount' = [refcount EXCEPT ![d] = owned[d]]
      /\ owned' = [owned EXCEPT ![d] = owned[d] - 1]
  BY <1>1, <1>2 DEF ContextInv, TypeOK
<1>5. TypeOK'
  <2>1. owned[d] \in 0..MaxRefs + 1 /\ owned[d] - 1 \in 0..MaxRefs
    BY <1>1
  <2>2. refcount' \in [Dev -> 0..MaxRefs + 1] /\ owned' \in [Dev -> 0..MaxRefs]
    BY <1>4, <2>1 DEF ContextInv, TypeOK
  <2> QED
    BY <2>2, <1>3 DEF ContextInv, TypeOK
<1>6. References'
  <2>1. ASSUME NEW f \in Dev
        PROVE  /\ refcount'[f] = IF f <= made' THEN owned'[f] + 1 ELSE 0
               /\ f > made' => owned'[f] = 0
    <3>1. /\ refcount[f] = IF f <= made THEN owned[f] + 1 ELSE 0
          /\ f > made => owned[f] = 0
          /\ made \in Nat /\ f \in Nat
      BY DEF ContextInv, TypeOK, References, Dev
    <3>2. CASE f = d
      BY <3>1, <3>2, <1>1, <1>4 DEF ContextInv, TypeOK
    <3>3. CASE f # d
      BY <3>1, <3>3, <1>4 DEF ContextInv, TypeOK
    <3> QED
      BY <3>2, <3>3
  <2>2. Exists' => freed' = {}
    BY <1>3 DEF ContextInv, References, Exists
  <2> QED
    BY <2>1, <2>2 DEF References
<1>7. OnlyOfMade' /\ RemovedIsLast' /\ RemovalIsTold'
  BY DEF ContextInv, OnlyOfMade, RemovedIsLast, RemovalIsTold, Exists, Event
<1> QED
  BY <1>5, <1>6, <1>7 DEF ContextInv

LEMMA UnplugKeepsInv ==
  ASSUME ContextInv, NEW d \in Dev, Unplug(d)
  PROVE  ContextInv'
<1> USE Constants DEF Unplug, objectVars
<1>1. TypeOK'
  BY DEF ContextInv, TypeOK
<1>2. References' /\ OnlyOfMade' /\ RemovedIsLast' /\ RemovalIsTold'
  BY DEF ContextInv, References, OnlyOfMade, RemovedIsLast, RemovalIsTold, Exists, Event
<1> QED
  BY <1>1, <1>2 DEF ContextInv

LEMMA DestroyKeepsInv ==
  ASSUME ContextInv, NEW e \in held, libinput_event_destroy(e)
  PROVE  ContextInv'
<1> USE Constants DEF libinput_event_destroy, objectVars
<1>1. TypeOK'
  BY DEF ContextInv, TypeOK
<1>2. References' /\ OnlyOfMade' /\ RemovedIsLast' /\ RemovalIsTold'
  BY DEF ContextInv, References, OnlyOfMade, RemovedIsLast, RemovalIsTold, Exists, Event
<1> QED
  BY <1>1, <1>2 DEF ContextInv

LEMMA GetEventKeepsInv == ContextInv /\ libinput_get_event => ContextInv'
<1> SUFFICES ASSUME ContextInv, libinput_get_event PROVE ContextInv'
  OBVIOUS
<1> USE Constants
<1> DEFINE e == event_queue[1]
<1>0. Exists /\ event_queue # <<>> /\ event_queue \in Seq(EventSet)
  BY DEF libinput_get_event, ContextInv, TypeOK
<1>1. /\ Exists
      /\ event_queue # <<>> /\ event_queue \in Seq(EventSet)
      /\ held' = held \cup {e}
      /\ known' = known \cup {e.device}
      /\ told' = [told EXCEPT ![e.device] = e.type]
      /\ event_queue' = Tail(event_queue)
  <2>1. /\ PopFront(event_queue).event = e
        /\ PopFront(event_queue).rest = Tail(event_queue)
    BY <1>0 DEF PopFront, Popped
  <2> QED
    BY <1>0, <2>1 DEF libinput_get_event
<1>2. UNCHANGED <<ctx_refcount, made, refcount, freed, lib_devices, alive, owned>>
  BY DEF libinput_get_event, objectVars
<1>3. /\ 1 \in DOMAIN event_queue
      /\ e \in EventSet
      /\ e.device \in Dev /\ e.type \in {"added", "input", "removed"}
      /\ e = Event(e.type, e.device)
  <2>1. 1 \in DOMAIN event_queue /\ e \in EventSet
    BY <1>0
  <2> QED
    BY <2>1 DEF EventSet, Event
<1>4. /\ event_queue' \in Seq(EventSet)
      /\ \A i \in DOMAIN event_queue' : /\ i \in Nat /\ i >= 1
                                        /\ i + 1 \in DOMAIN event_queue
                                        /\ event_queue'[i] = event_queue[i + 1]
      /\ \A i \in DOMAIN event_queue :
           i # 1 => /\ i - 1 \in DOMAIN event_queue'
                    /\ event_queue'[i - 1] = event_queue[i]
  BY <1>1
<1>5. /\ told \in [Dev -> {"nothing", "added", "input", "removed"}]
      /\ told' \in [Dev -> {"nothing", "added", "input", "removed"}]
      /\ \A d \in Dev : told'[d] = IF d = e.device THEN e.type ELSE told[d]
  BY <1>1, <1>3 DEF ContextInv, TypeOK
<1>6. e.device <= made /\ e.device \in 1..made
  BY <1>3 DEF ContextInv, OnlyOfMade, Dev, TypeOK
<1>7. TypeOK'
  <2>1. known' \subseteq 1..made' /\ held' \subseteq EventSet
    BY <1>1, <1>2, <1>3, <1>6 DEF ContextInv, TypeOK
  <2> QED
    BY <2>1, <1>2, <1>4, <1>5 DEF ContextInv, TypeOK
<1>8. References'
  BY <1>2 DEF ContextInv, References, Exists
<1>9. OnlyOfMade'
  <2>1. \A i \in DOMAIN event_queue' : event_queue'[i].device <= made'
    BY <1>2, <1>4 DEF ContextInv, OnlyOfMade
  <2>2. ASSUME NEW d \in Dev, d > made' PROVE told'[d] = "nothing"
    <3>1. d # e.device /\ told[d] = "nothing"
      BY <2>2, <1>2, <1>6 DEF ContextInv, OnlyOfMade, Dev, TypeOK
    <3> QED
      BY <3>1, <1>5
  <2> QED
    BY <2>1, <2>2 DEF OnlyOfMade
<1>10. RemovedIsLast'
  <2>1. ASSUME NEW i \in DOMAIN event_queue'
        PROVE  told'[event_queue'[i].device] # "removed"
    <3>1. /\ event_queue'[i] \in EventSet
          /\ told[event_queue'[i].device] # "removed"
          /\ e.type = "removed" => event_queue'[i].device # e.device
      BY <1>1, <1>3, <1>4 DEF ContextInv, RemovedIsLast
    <3>2. event_queue'[i].device \in Dev
      BY <3>1 DEF EventSet
    <3> QED
      BY <3>1, <3>2, <1>5
  <2>2. ASSUME NEW i \in DOMAIN event_queue', NEW j \in DOMAIN event_queue',
               i < j, event_queue'[i].type = "removed"
        PROVE  event_queue'[j].device # event_queue'[i].device
    <3>1. /\ i + 1 \in DOMAIN event_queue /\ j + 1 \in DOMAIN event_queue
          /\ i + 1 < j + 1
          /\ event_queue'[i] = event_queue[i + 1] /\ event_queue'[j] = event_queue[j + 1]
      BY <2>2, <1>4
    <3> QED
      BY <3>1, <2>2 DEF ContextInv, RemovedIsLast
  <2> QED
    BY <2>1, <2>2 DEF RemovedIsLast
<1>11. RemovalIsTold'
  <2>1. ASSUME NEW d \in 1..made
        PROVE  d \in lib_devices <=>
                 told'[d] # "removed" /\ \A i \in DOMAIN event_queue' :
                                           event_queue'[i] # Event("removed", d)
    <3>1. /\ d \in lib_devices <=>
               told[d] # "removed" /\ \A i \in DOMAIN event_queue :
                                         event_queue[i] # Event("removed", d)
          /\ d \in Dev
      BY <1>1 DEF ContextInv, RemovalIsTold, TypeOK, Dev
    <3>2. (\A i \in DOMAIN event_queue : event_queue[i] # Event("removed", d))
            <=> /\ e # Event("removed", d)
                /\ \A i \in DOMAIN event_queue' : event_queue'[i] # Event("removed", d)
      <4>1. ASSUME NEW i \in DOMAIN event_queue, event_queue[i] = Event("removed", d), i # 1
            PROVE  \E j \in DOMAIN event_queue' : event_queue'[j] = Event("removed", d)
        BY <4>1, <1>4
      <4>2. ASSUME NEW i \in DOMAIN event_queue', event_queue'[i] = Event("removed", d)
            PROVE  \E j \in DOMAIN event_queue : event_queue[j] = Event("removed", d)
        BY <4>2, <1>4
      <4> QED
        BY <4>1, <4>2, <1>3
    <3>3. CASE d = e.device
      <4>1. told[d] # "removed" /\ told'[d] = e.type
        BY <3>1, <3>3, <1>3, <1>5 DEF ContextInv, RemovedIsLast
      <4>2. e = Event("removed", d) <=> e.type = "removed"
        BY <3>3, <1>3 DEF Event
      <4> QED
        BY <3>1, <3>2, <4>1, <4>2
    <3>4. CASE d # e.device
      <4>1. told'[d] = told[d] /\ e # Event("removed", d)
        BY <3>1, <3>4, <1>5 DEF Event
      <4> QED
        BY <3>1, <3>2, <4>1
    <3> QED
      BY <3>3, <3>4
  <2> QED
    BY <2>1, <1>2 DEF RemovalIsTold, Event
<1> QED
  BY <1>7, <1>8, <1>9, <1>10, <1>11 DEF ContextInv

\* A call that queues the ADDED of what it opened, and takes nothing away.
LEMMA PathAddIsCall ==
  ASSUME ContextInv, libinput_path_add_device
  PROVE  \E D, s : Call(D, s)
<1> USE Constants
<1>1. PICK D \in SUBSET {made + 1} :
        /\ Made(D)
        /\ lib_devices' = lib_devices \cup D
        /\ event_queue' = event_queue \o (IF D = {} THEN <<>>
                                          ELSE <<Event("added", made + 1)>>)
  BY DEF libinput_path_add_device
<1> DEFINE s == IF D = {} THEN <<>> ELSE <<Event("added", made + 1)>>
<1>2. /\ Exists
      /\ known' = known \cup ({made'} \ {0})
      /\ UNCHANGED <<ctx_refcount, freed, owned, held, told>>
  BY DEF libinput_path_add_device
<1>3. D \in SUBSET Dev /\ made \in Nat /\ known \subseteq 1..made
  BY <1>1 DEF Made, ContextInv, TypeOK
<1>4. made' \in Nat /\ made <= made'
  <2>1. Cardinality(D) \in Nat
    BY <1>1, FS_Singleton, FS_Subset, FS_CardinalityType
  <2> QED
    BY <1>1, <1>3, <2>1 DEF Made
<1>5. known' \subseteq 1..made' /\ known \subseteq known'
  BY <1>2, <1>3, <1>4
<1>6. MayFollow(D, s) /\ \A i \in DOMAIN s : s[i].type = "added"
  <2>1. CASE D = {}
    BY <2>1 DEF MayFollow
  <2>2. CASE D # {}
    <3>1. s = <<Event("added", made + 1)>> /\ made + 1 \in D
      BY <2>2, <1>1
    <3>2. Event("added", made + 1) \in EventSet
      BY <3>1, <1>3 DEF Event, EventSet
    <3> HIDE DEF s
    <3>3. /\ s \in Seq(EventSet) /\ DOMAIN s = {1}
          /\ s[1].device = made + 1 /\ s[1].type = "added"
      BY <3>1, <3>2 DEF Event
    <3> QED
      BY <3>1, <3>3 DEF MayFollow
  <2> QED
    BY <2>1, <2>2
<1>7. event_queue' = event_queue \o s
  BY <1>1
<1> HIDE DEF s
<1>8. lib_devices' = {d \in lib_devices \cup D :
                        \A i \in DOMAIN s : s[i] # Event("removed", d)}
  BY <1>1, <1>6 DEF Event
<1> QED
  BY <1>1, <1>2, <1>3, <1>5, <1>6, <1>7, <1>8 DEF Call

\* Events of one type for an order of devices.
LEMMA EventsOfAnOrder ==
  ASSUME NEW D \in SUBSET Dev, IsFiniteSet(D), NEW o \in Orders(D),
         NEW type \in {"added", "input", "removed"}
  PROVE  /\ Events(type, o) \in Seq(EventSet)
         /\ \A i \in DOMAIN Events(type, o) : /\ Events(type, o)[i].type = type
                                             /\ Events(type, o)[i].device \in D
         /\ \A i, j \in DOMAIN Events(type, o) :
              Events(type, o)[i].device = Events(type, o)[j].device => i = j
         /\ \A d \in D : \E i \in DOMAIN Events(type, o) :
              Events(type, o)[i] = Event(type, d)
<1>1. /\ o \in Seq(D)
      /\ \A i, j \in DOMAIN o : o[i] = o[j] => i = j
      /\ \A d \in D : \E i \in DOMAIN o : o[i] = d
  BY OrdersAreInjective
<1>2. /\ DOMAIN Events(type, o) = DOMAIN o
      /\ \A i \in DOMAIN o : /\ Events(type, o)[i] = Event(type, o[i])
                              /\ Events(type, o)[i] \in EventSet
  BY <1>1 DEF Events, Event, EventSet
<1>3. Events(type, o) \in Seq(EventSet)
  <2>1. DOMAIN o = 1..Len(o) /\ Len(o) \in Nat
    BY <1>1
  <2>2. Events(type, o) = [i \in 1..Len(o) |-> Events(type, o)[i]]
    BY <2>1, <1>2 DEF Events
  <2> QED
    BY <2>1, <2>2, <1>2
<1> QED
  BY <1>1, <1>2, <1>3 DEF Event

LEMMA AssignSeatIsCall ==
  ASSUME ContextInv, libinput_udev_assign_seat
  PROVE  \E D, s : Call(D, s)
<1> USE Constants
<1>1. PICK D \in SUBSET {made + 1} :
        /\ Made(D)
        /\ lib_devices' = lib_devices \cup D
        /\ \E new \in Orders(D) : event_queue' = event_queue \o Events("added", new)
  BY DEF libinput_udev_assign_seat
<1> PICK new \in Orders(D) : event_queue' = event_queue \o Events("added", new)
  BY <1>1
<1>2. Exists /\ UNCHANGED <<ctx_refcount, freed, owned, known, held, told>>
  BY DEF libinput_udev_assign_seat
<1>3. /\ D \in SUBSET Dev /\ IsFiniteSet(D)
      /\ made \in Nat /\ known \subseteq 1..made
  <2>1. IsFiniteSet(D)
    BY <1>1, FS_Singleton, FS_Subset
  <2> QED
    BY <1>1, <2>1 DEF Made, ContextInv, TypeOK
<1>4. made' \in Nat /\ made <= made'
  BY <1>1, <1>3, FS_CardinalityType DEF Made
<1>5. known' \subseteq 1..made' /\ known \subseteq known'
  BY <1>2, <1>3, <1>4
<1> DEFINE s == Events("added", new)
<1>6. /\ s \in Seq(EventSet)
      /\ \A i \in DOMAIN s : s[i].type = "added" /\ s[i].device \in D
      /\ \A i, j \in DOMAIN s : s[i].device = s[j].device => i = j
      /\ \A d \in D : \E i \in DOMAIN s : s[i].device = d
  BY <1>3, EventsOfAnOrder DEF Event
<1> HIDE DEF s
<1>7. MayFollow(D, s)
  <2>1. \A i, j \in DOMAIN s : s[i].device = s[j].device => i <= j
    BY <1>6
  <2> QED
    BY <1>6, <2>1 DEF MayFollow
<1>8. lib_devices' = {d \in lib_devices \cup D :
                        \A i \in DOMAIN s : s[i] # Event("removed", d)}
  BY <1>1, <1>6 DEF Event
<1>9. event_queue' = event_queue \o s
  BY <1>1 DEF s
<1> QED
  BY <1>1, <1>2, <1>3, <1>5, <1>7, <1>8, <1>9 DEF Call

\* The drain takes the dead from the backend and queues a REMOVED for each, once
\* and after everything else.
LEMMA DispatchIsCall ==
  ASSUME ContextInv, libinput_dispatch
  PROVE  \E D, s : Call(D, s)
<1> USE Constants
<1>1. PICK D \in SUBSET {made + 1}, S \in SUBSET Dev : Drain(D, S)
  BY DEF libinput_dispatch
<1>2. Exists /\ UNCHANGED <<ctx_refcount, owned, known, held, told>> /\ Made(D)
  BY <1>1 DEF libinput_dispatch, Drain
<1> DEFINE dead == lib_devices \ alive'
<1>3. /\ D \in SUBSET Dev /\ S \subseteq lib_devices \cup D /\ dead \subseteq lib_devices
      /\ D \cap dead = {}
      /\ lib_devices \subseteq 1..made /\ made \in 0..MaxDev /\ known \subseteq 1..made
  BY <1>1 DEF Drain, Made, ContextInv, TypeOK
<1>4. /\ IsFiniteSet(D) /\ IsFiniteSet(S) /\ IsFiniteSet(dead)
      /\ dead \in SUBSET Dev /\ S \in SUBSET Dev
  <2>1. IsFiniteSet(Dev)
    BY FS_Interval DEF Dev
  <2>2. dead \in SUBSET Dev
    <3>1. dead \subseteq lib_devices
      OBVIOUS
    <3> HIDE DEF dead
    <3>2. 1..made \subseteq Dev
      BY <1>3 DEF Dev
    <3> QED
      BY <3>1, <3>2, <1>3
  <2> QED
    BY <2>1, <2>2, <1>1, <1>3, FS_Subset
<1>5. made' \in Nat /\ made <= made'
  BY <1>2, <1>3, <1>4, FS_CardinalityType DEF Made
<1>6. PICK new \in Orders(D), input \in Orders(S), old \in Orders(dead) :
        event_queue' = event_queue \o Events("added", new)
                         \o Events("input", input) \o Removed(old)
  BY <1>1 DEF Drain
<1>7. lib_devices' = (lib_devices \cup D) \ dead /\ freed' = freed
  BY <1>1 DEF Drain, FreedByRemoval
<1> HIDE DEF dead
<1> DEFINE a == Events("added", new)
           b == Events("input", input)
           r == Events("removed", old)
           s == a \o b \o r
<1>8. /\ a \in Seq(EventSet)
      /\ \A i \in DOMAIN a : a[i].type = "added" /\ a[i].device \in D
      /\ \A i, j \in DOMAIN a : a[i].device = a[j].device => i = j
      /\ \A d \in D : \E i \in DOMAIN a : a[i].device = d
  BY <1>3, <1>4, EventsOfAnOrder DEF Event
<1>9. /\ b \in Seq(EventSet)
      /\ \A i \in DOMAIN b : b[i].type = "input" /\ b[i].device \in S
  BY <1>4, EventsOfAnOrder
<1>10. /\ r \in Seq(EventSet)
       /\ \A i \in DOMAIN r : r[i].type = "removed" /\ r[i].device \in dead
       /\ \A i, j \in DOMAIN r : r[i].device = r[j].device => i = j
       /\ \A d \in dead : \E i \in DOMAIN r : r[i] = Event("removed", d)
  BY <1>4, EventsOfAnOrder
<1> HIDE DEF s
<1>11. event_queue' = event_queue \o s
  <2>1. event_queue \in Seq(EventSet)
    BY DEF ContextInv, TypeOK
  <2>2. event_queue' = ((event_queue \o a) \o b) \o r
    BY <1>6 DEF Removed
  <2> HIDE DEF a, b, r
  <2>3. ((event_queue \o a) \o b) \o r = (event_queue \o (a \o b)) \o r
    BY <2>1, <1>8, <1>9, ConcatAssociative
  <2>4. a \o b \in Seq(EventSet)
    BY <1>8, <1>9
  <2> DEFINE ab == a \o b
  <2> HIDE DEF ab
  <2>5. ab \in Seq(EventSet)
    BY <2>4 DEF ab
  <2>6. (event_queue \o ab) \o r = event_queue \o (ab \o r)
    BY <2>1, <2>5, <1>10, ConcatAssociative
  <2> QED
    BY <2>2, <2>3, <2>6 DEF s, ab
<1> USE DEF s
<1> HIDE DEF a, b, r
<1> DEFINE n == Len(a) + Len(b)
\* Up to position n nothing is removed, after it the dead are.
<1>12. /\ s \in Seq(EventSet) /\ n \in Nat
       /\ Len(s) = n + Len(r) /\ DOMAIN s = 1..Len(s) /\ DOMAIN r = 1..Len(r)
       /\ DOMAIN a = 1..Len(a) /\ DOMAIN b = 1..Len(b)
       /\ Len(a) \in Nat /\ Len(b) \in Nat /\ Len(r) \in Nat
  BY <1>8, <1>9, <1>10
<1>13. \A i \in 1..Len(s) :
         s[i] = IF i <= Len(a) THEN a[i]
                ELSE IF i <= n THEN b[i - Len(a)] ELSE r[i - n]
  BY <1>8, <1>9, <1>10
<1> HIDE DEF s
<1>14. ASSUME NEW i \in DOMAIN s, i <= n
       PROVE  s[i].type # "removed" /\ s[i].device \in D \cup S
  <2>1. CASE i <= Len(a)
    BY <2>1, <1>8, <1>12, <1>13
  <2>2. CASE i > Len(a)
    <3>1. i - Len(a) \in DOMAIN b /\ s[i] = b[i - Len(a)]
      BY <2>2, <1>12, <1>13, <1>14
    <3> QED
      BY <3>1, <1>9
  <2> QED
    BY <2>1, <2>2, <1>12
<1>15. ASSUME NEW i \in DOMAIN s, i > n
       PROVE  i - n \in DOMAIN r /\ s[i] = r[i - n] /\ s[i].device \in dead
  <2>1. i - n \in DOMAIN r /\ s[i] = r[i - n]
    BY <1>12, <1>13, <1>15
  <2> QED
    BY <2>1, <1>10
<1>16. ASSUME NEW i \in DOMAIN r
       PROVE  i + n \in DOMAIN s /\ s[i + n] = r[i]
  BY <1>12, <1>13
<1>17. \A i \in DOMAIN s : i \in Nat /\ (i <= n \/ i > n)
  BY <1>12
\* The first Len(a) are the additions.
<1>18. ASSUME NEW i \in DOMAIN s, i <= Len(a)
       PROVE  i \in DOMAIN a /\ s[i] = a[i] /\ s[i].type = "added" /\ s[i].device \in D
  BY <1>18, <1>8, <1>12, <1>13
<1>19. ASSUME NEW i \in DOMAIN s, i > Len(a)
       PROVE  s[i].type # "added"
  <2>1. CASE i <= n
    <3>1. i - Len(a) \in DOMAIN b /\ s[i] = b[i - Len(a)]
      BY <2>1, <1>19, <1>12, <1>13 DEF n
    <3> QED
      BY <3>1, <1>9
  <2>2. CASE i > n
    BY <2>2, <1>15, <1>10
  <2> QED
    BY <2>1, <2>2, <1>17
<1>20. DOMAIN a \subseteq DOMAIN s /\ \A i \in DOMAIN a : i \in Nat /\ i <= Len(a) /\ s[i] = a[i]
  BY <1>12, <1>13
<1> HIDE DEF n
<1>21. MayFollow(D, s)
  <2>1. ASSUME NEW i \in DOMAIN s PROVE s[i].device \in lib_devices \cup D
    <3>1. CASE i <= n
      <4>1. s[i].device \in D \cup S
        BY <3>1, <1>14
      <4> QED
        BY <4>1, <1>3
    <3>2. CASE i > n
      <4>1. s[i].device \in dead
        BY <3>2, <1>15
      <4> QED
        BY <4>1, <1>3
    <3> QED
      BY <3>1, <3>2, <1>17
  <2>2. ASSUME NEW i \in DOMAIN s, NEW j \in DOMAIN s, i < j, s[i].type = "removed"
        PROVE  s[j].device # s[i].device
    <3>1. i > n
      BY <2>2, <1>14, <1>17
    <3>2. j > n /\ i - n # j - n
      BY <2>2, <3>1, <1>12, <1>17
    <3>3. /\ i - n \in DOMAIN r /\ s[i] = r[i - n]
          /\ j - n \in DOMAIN r /\ s[j] = r[j - n]
      BY <3>1, <3>2, <1>15
    <3> QED
      BY <3>2, <3>3, <1>10
  <2>3. ASSUME NEW i \in DOMAIN s
        PROVE  s[i].type = "added"
                 <=> /\ s[i].device \in D
                     /\ \A j \in DOMAIN s : s[j].device = s[i].device => i <= j
    <3>1. CASE i <= Len(a)
      <4>1. ASSUME NEW j \in DOMAIN s, s[j].device = s[i].device PROVE i <= j
        <5>1. CASE j <= Len(a)
          BY <3>1, <4>1, <5>1, <1>8, <1>12, <1>18
        <5>2. CASE j > Len(a)
          BY <3>1, <5>2, <1>12, <1>17
        <5> QED
          BY <5>1, <5>2, <1>12, <1>17
      <4> QED
        BY <3>1, <4>1, <1>18
    <3>2. CASE i > Len(a)
      <4>1. ASSUME s[i].device \in D
            PROVE  \E j \in DOMAIN s : s[j].device = s[i].device /\ ~(i <= j)
        <5>1. PICK j \in DOMAIN a : a[j].device = s[i].device
          BY <4>1, <1>8
        <5>2. j \in DOMAIN s /\ s[j].device = s[i].device /\ ~(i <= j)
          BY <5>1, <3>2, <1>12, <1>17, <1>20
        <5> QED
          BY <5>2
      <4> QED
        BY <3>2, <4>1, <1>19
    <3> QED
      BY <3>1, <3>2, <1>12, <1>17
  <2>4. \A d \in D : \E i \in DOMAIN s : s[i].device = d
    BY <1>8, <1>20
  <2> QED
    BY <2>1, <2>2, <2>3, <2>4, <1>12 DEF MayFollow
<1>22. lib_devices' = {d \in lib_devices \cup D :
                         \A i \in DOMAIN s : s[i] # Event("removed", d)}
  <2>1. ASSUME NEW d \in dead PROVE \E i \in DOMAIN s : s[i] = Event("removed", d)
    <3>1. PICK i \in DOMAIN r : r[i] = Event("removed", d)
      BY <1>10
    <3>2. i + n \in DOMAIN s /\ s[i + n] = r[i]
      BY <1>16
    <3> QED
      BY <3>1, <3>2
  <2>2. ASSUME NEW d, d \notin dead, NEW i \in DOMAIN s
        PROVE  s[i] # Event("removed", d)
    <3>1. CASE i <= n
      <4>1. s[i].type # "removed"
        BY <3>1, <1>14
      <4> QED
        BY <4>1 DEF Event
    <3>2. CASE i > n
      <4>1. s[i].device \in dead
        BY <3>2, <1>15
      <4> QED
        BY <4>1, <2>2 DEF Event
    <3> QED
      BY <3>1, <3>2, <1>17
  <2> QED
    BY <2>1, <2>2, <1>7
<1>23. known' \subseteq 1..made' /\ known \subseteq known'
  BY <1>2, <1>3, <1>5
<1> QED
  BY <1>2, <1>3, <1>7, <1>11, <1>21, <1>22, <1>23 DEF Call
-----------------------------------------------------------------------------
(* The theorems *)

LEMMA StutterKeepsInv == ContextInv /\ UNCHANGED vars => ContextInv'
BY DEF vars, ContextInv, TypeOK, References, OnlyOfMade, RemovedIsLast,
       RemovalIsTold, Exists, Event

LEMMA NextKeepsInv == ContextInv /\ [Next]_vars => ContextInv'
<1> SUFFICES ASSUME ContextInv, [Next]_vars PROVE ContextInv'
  OBVIOUS
<1>1. CASE libinput_ref
  BY <1>1, RefKeepsInv
<1>2. CASE libinput_unref
  BY <1>2, UnrefKeepsInv
<1>3. CASE libinput_udev_assign_seat
  BY <1>3, AssignSeatIsCall, CallKeepsInv
<1>4. CASE libinput_path_add_device
  BY <1>4, PathAddIsCall, CallKeepsInv
<1>5. CASE libinput_dispatch
  BY <1>5, DispatchIsCall, CallKeepsInv
<1>6. CASE libinput_get_event
  BY <1>6, GetEventKeepsInv
<1>7. ASSUME NEW d \in Dev,
             libinput_device_ref(d) \/ libinput_device_unref(d) \/ Unplug(d)
      PROVE  ContextInv'
  BY <1>7, DeviceRefKeepsInv, DeviceUnrefKeepsInv, UnplugKeepsInv
<1>8. ASSUME NEW e \in held, libinput_event_destroy(e) PROVE ContextInv'
  BY <1>8, DestroyKeepsInv
<1>9. CASE UNCHANGED vars
  BY <1>9, StutterKeepsInv
<1> QED
  BY <1>1, <1>2, <1>3, <1>4, <1>5, <1>6, <1>7, <1>8, <1>9 DEF Next

\* The inductive invariant of the context: one reference of its own to each
\* object, and nothing queued of a device after its REMOVED.
THEOREM ContextInvariant == Spec => []ContextInv
<1>1. Init => ContextInv
  BY InvInit
<1>2. ContextInv /\ [Next]_vars => ContextInv'
  BY NextKeepsInv
<1> QED
  BY <1>1, <1>2, PTL DEF Spec

\* Type correctness, including that no reference count leaves its range.
THEOREM ContextTypes == Spec => []TypeOK
<1>1. ContextInv => TypeOK
  BY DEF ContextInv
<1> QED
  BY <1>1, ContextInvariant, PTL

\* libinput_device_unref() by a client that drops what it took never frees.
THEOREM OnlyTheContextFrees == Spec => []ContextHoldsOne
<1>1. ContextInv => ContextHoldsOne
  <2> SUFFICES ASSUME ContextInv, NEW d \in 1..made
               PROVE  refcount[d] = owned[d] + 1 /\ (Exists => d \notin freed)
    BY DEF ContextHoldsOne
  <2>1. d \in Dev /\ d <= made
    BY Constants DEF ContextInv, TypeOK, Dev
  <2> QED
    BY <2>1 DEF ContextInv, References
<1> QED
  BY <1>1, ContextInvariant, PTL

\* Device pointers in the backend, the queue and the client's hands stay valid
\* until the context is dropped, whatever is unplugged or unreferenced.
THEOREM NoDanglingDevice == Spec => []PointersValid
<1>1. ContextInv => PointersValid
  BY DEF ContextInv, References, PointersValid
<1> QED
  BY <1>1, ContextInvariant, PTL

\* libinput_dispatch() queues one REMOVED for each device it drops, and the
\* backend keeps every device for which none was queued.
THEOREM RemovalsAreTold == Spec => []RemovalIsTold
<1>1. ContextInv => RemovalIsTold
  BY DEF ContextInv
<1> QED
  BY <1>1, ContextInvariant, PTL
-----------------------------------------------------------------------------
(* The life of a device object as the client hears of it *)

Waiting(d) == {i \in DOMAIN event_queue : event_queue[i].device = d}

AddedIsFirst(d) ==
  \A i \in Waiting(d) :
    event_queue[i].type = "added"
      <=> told[d] = "nothing" /\ \A j \in Waiting(d) : i <= j

MadeIsHeardOf(d) == Exists /\ d <= made => told[d] # "nothing" \/ Waiting(d) # {}

\* What concerns the end of a life is in the invariant already.
LEMMA LivesInParts ==
  ContextInv => (LivesInOrder <=> \A d \in Dev : AddedIsFirst(d) /\ MadeIsHeardOf(d))
<1> SUFFICES ASSUME ContextInv
             PROVE  LivesInOrder <=> \A d \in Dev : AddedIsFirst(d) /\ MadeIsHeardOf(d)
  OBVIOUS
<1>1. ASSUME NEW d \in Dev
      PROVE  /\ \A i, j \in Waiting(d) : event_queue[i].type = "removed" => j <= i
             /\ Waiting(d) # {} => told[d] # "removed"
  <2>1. DOMAIN event_queue \subseteq Nat
    BY DEF ContextInv, TypeOK
  <2> QED
    BY <2>1 DEF ContextInv, RemovedIsLast, Waiting
<1> QED
  BY <1>1 DEF LivesInOrder, Life, AddedIsFirst, MadeIsHeardOf, Waiting

LEMMA LivesInCall ==
  ASSUME ContextInv, LivesInOrder, NEW D, NEW s, Call(D, s)
  PROVE  LivesInOrder'
<1>1. /\ made \in Nat /\ made' \in Nat /\ made <= made'
      /\ D \subseteq made + 1..made' /\ made + 1..made' \subseteq D
  BY CallMakes
<1>2. /\ Exists /\ MayFollow(D, s) /\ told' = told /\ lib_devices \subseteq 1..made
  BY DEF Call, ContextInv, TypeOK
<1> DEFINE n == Len(event_queue)
<1>3. /\ n \in Nat /\ DOMAIN event_queue = 1..n /\ DOMAIN s = 1..Len(s) /\ Len(s) \in Nat
      /\ DOMAIN event_queue' = 1..n + Len(s)
      /\ \A i \in 1..n : event_queue'[i] = event_queue[i]
      /\ \A i \in 1..Len(s) : event_queue'[i + n] = s[i]
  <2>1. event_queue \in Seq(EventSet) /\ s \in Seq(EventSet)
    BY <1>2 DEF ContextInv, TypeOK, MayFollow
  <2>2. event_queue' \in Seq(EventSet) /\ Len(event_queue') = n + Len(s)
    BY CallQueues
  <2> QED
    BY <2>1, <2>2, CallQueues
<1> HIDE DEF n
<1>4. ASSUME NEW d \in Dev PROVE AddedIsFirst(d)' /\ MadeIsHeardOf(d)'
  <2>1. AddedIsFirst(d) /\ MadeIsHeardOf(d) /\ d \in Nat \ {0}
    BY LivesInParts, Constants DEF Dev
  <2>2. \A i : i \in Waiting(d) <=> i \in 1..n /\ event_queue[i].device = d
    BY <1>3 DEF Waiting
  <2>3. \A i : i \in Waiting(d)'
               <=> \/ i \in Waiting(d)
                   \/ i \in n + 1..n + Len(s) /\ s[i - n].device = d
    <3>1. ASSUME NEW i \in n + 1..n + Len(s)
          PROVE  i - n \in 1..Len(s) /\ event_queue'[i] = s[i - n]
      <4>1. i - n \in 1..Len(s) /\ (i - n) + n = i
        BY <1>3
      <4> QED
        BY <4>1, <1>3
    <3> QED
      BY <2>2, <3>1, <1>3 DEF Waiting
  <2>4. \A i \in n + 1..n + Len(s) : i - n \in DOMAIN s /\ event_queue'[i] = s[i - n]
    <3> TAKE i \in n + 1..n + Len(s)
    <3>1. i - n \in 1..Len(s) /\ (i - n) + n = i
      BY <1>3
    <3> QED
      BY <3>1, <1>3
  <2>5. CASE d \in D
    <3>1. Waiting(d) = {} /\ told[d] = "nothing" /\ ~(d <= made)
      BY <2>1, <2>5, <1>1, <1>3 DEF ContextInv, OnlyOfMade, Waiting
    <3>2. ASSUME NEW i \in Waiting(d)'
          PROVE  event_queue'[i].type = "added" <=> \A j \in Waiting(d)' : i <= j
      <4>1. i \in n + 1..n + Len(s) /\ s[i - n].device = d /\ event_queue'[i] = s[i - n]
        BY <2>3, <2>4, <3>1, <3>2
      <4>2. s[i - n].type = "added"
              <=> \A k \in DOMAIN s : s[k].device = d => i - n <= k
        BY <4>1, <2>4, <2>5, <1>2 DEF MayFollow
      <4>3. ASSUME \A k \in DOMAIN s : s[k].device = d => i - n <= k,
                   NEW j \in Waiting(d)'
            PROVE  i <= j
        <5>1. j \in n + 1..n + Len(s) /\ s[j - n].device = d /\ j - n \in DOMAIN s
          BY <2>3, <2>4, <3>1
        <5>2. i - n <= j - n
          BY <4>3, <5>1
        <5> QED
          BY <4>1, <5>1, <5>2, <1>3
      <4>4. ASSUME \A j \in Waiting(d)' : i <= j, NEW k \in DOMAIN s, s[k].device = d
            PROVE  i - n <= k
        <5>1. k + n \in n + 1..n + Len(s) /\ (k + n) - n = k
          BY <1>3
        <5>2. k + n \in Waiting(d)'
          BY <2>3, <4>4, <5>1
        <5> QED
          BY <4>1, <4>4, <5>2, <1>3
      <4> QED
        BY <4>1, <4>2, <4>3, <4>4
    <3>3. Waiting(d)' # {}
      <4>1. PICK k \in DOMAIN s : s[k].device = d
        BY <2>5, <1>2 DEF MayFollow
      <4>2. k + n \in n + 1..n + Len(s) /\ (k + n) - n = k
        BY <1>3
      <4> QED
        BY <2>3, <4>1, <4>2
    <3> QED
      BY <3>1, <3>2, <3>3, <1>2 DEF AddedIsFirst, MadeIsHeardOf
  <2>6. CASE d \notin D
    <3>1. ASSUME d <= made' PROVE d <= made /\ (told[d] # "nothing" \/ Waiting(d) # {})
      <4>1. d <= made
        BY <2>1, <2>6, <3>1, <1>1
      <4> QED
        BY <2>1, <4>1, <1>2 DEF MadeIsHeardOf
    <3>2. MadeIsHeardOf(d)'
      BY <2>3, <3>1, <1>2 DEF MadeIsHeardOf
    <3>3. ASSUME NEW i \in Waiting(d), NEW j \in Waiting(d)', j \notin Waiting(d)
          PROVE  i <= j /\ ~(j <= i)
      <4>1. i \in 1..n /\ j \in n + 1..n + Len(s)
        BY <2>2, <2>3, <3>3
      <4> QED
        BY <4>1, <1>3
    <3>4. ASSUME NEW i \in Waiting(d)
          PROVE  event_queue'[i].type = "added"
                   <=> told'[d] = "nothing" /\ \A j \in Waiting(d)' : i <= j
      <4>1. event_queue'[i] = event_queue[i]
        BY <2>2, <1>3
      <4>2. (\A j \in Waiting(d)' : i <= j) <=> \A j \in Waiting(d) : i <= j
        BY <2>3, <3>3
      <4> QED
        BY <2>1, <4>1, <4>2, <1>2 DEF AddedIsFirst
    <3>5. ASSUME NEW i \in Waiting(d)', i \notin Waiting(d)
          PROVE  event_queue'[i].type # "added"
                   /\ ~(told'[d] = "nothing" /\ \A j \in Waiting(d)' : i <= j)
      <4>1. i \in n + 1..n + Len(s) /\ s[i - n].device = d /\ event_queue'[i] = s[i - n]
        BY <2>3, <2>4, <3>5
      <4>2. d \in lib_devices /\ s[i - n].type # "added"
        BY <2>4, <2>6, <4>1, <1>2 DEF MayFollow
      <4>3. told[d] # "nothing" \/ Waiting(d) # {}
        BY <2>1, <4>2, <1>2 DEF MadeIsHeardOf
      <4> QED
        BY <2>3, <3>3, <3>5, <4>1, <4>2, <4>3, <1>2
    <3> QED
      BY <3>2, <3>4, <3>5 DEF AddedIsFirst
  <2> QED
    BY <2>5, <2>6
<1>5. ContextInv'
  BY CallKeepsInv
<1>6. (ContextInv
         => (LivesInOrder <=> \A d \in Dev : AddedIsFirst(d) /\ MadeIsHeardOf(d)))'
  BY LivesInParts, PTL
<1> QED
  BY <1>4, <1>5, <1>6

\* What was first in the queue becomes what was told last.
LEMMA LivesInGetEvent ==
  ASSUME ContextInv, LivesInOrder, libinput_get_event
  PROVE  LivesInOrder'
<1> DEFINE e == event_queue[1]
<1>1. /\ event_queue \in Seq(EventSet) /\ event_queue # <<>>
      /\ told \in [Dev -> {"nothing", "added", "input", "removed"}]
  BY DEF libinput_get_event, ContextInv, TypeOK
<1>2. /\ event_queue' = Tail(event_queue)
      /\ told' = [told EXCEPT ![e.device] = e.type]
      /\ UNCHANGED <<ctx_refcount, made>>
  <2>1. /\ PopFront(event_queue).event = e
        /\ PopFront(event_queue).rest = Tail(event_queue)
    BY <1>1 DEF PopFront, Popped
  <2> QED
    BY <2>1 DEF libinput_get_event, objectVars
<1>3. /\ 1 \in DOMAIN event_queue /\ e.device \in Dev
      /\ e.type \in {"added", "input", "removed"}
  <2>1. 1 \in DOMAIN event_queue /\ e \in EventSet
    BY <1>1
  <2> QED
    BY <2>1 DEF EventSet
<1>4. /\ \A i \in DOMAIN event_queue' : /\ i \in Nat /\ i >= 1
                                        /\ i + 1 \in DOMAIN event_queue
                                        /\ event_queue'[i] = event_queue[i + 1]
      /\ \A i \in DOMAIN event_queue :
           /\ i \in Nat
           /\ i # 1 => /\ i - 1 \in DOMAIN event_queue' /\ i > 1
                       /\ event_queue'[i - 1] = event_queue[i]
  BY <1>1, <1>2
<1> HIDE DEF e
<1>5. ASSUME NEW d \in Dev PROVE AddedIsFirst(d)' /\ MadeIsHeardOf(d)'
  <2>1. AddedIsFirst(d) /\ MadeIsHeardOf(d)
    BY LivesInParts
  <2>2. \A i : i \in Waiting(d) <=> i \in DOMAIN event_queue /\ event_queue[i].device = d
    BY DEF Waiting
  <2>3. \A i : i \in Waiting(d)'
               <=> i \in DOMAIN event_queue' /\ event_queue'[i].device = d
    BY DEF Waiting
  <2>4. \A i \in Waiting(d)' : i \in Nat /\ i >= 1 /\ i + 1 \in Waiting(d)
                               /\ event_queue'[i] = event_queue[i + 1]
    BY <2>2, <2>3, <1>4
  <2>5. \A i \in Waiting(d) : i \in Nat /\ (i # 1 => i > 1 /\ i - 1 \in Waiting(d)')
    BY <2>2, <2>3, <1>4
  <2>6. CASE d = e.device
    <3>1. 1 \in Waiting(d) /\ told'[d] # "nothing"
      BY <2>2, <2>6, <1>1, <1>2, <1>3 DEF e
    <3>2. ASSUME NEW i \in Waiting(d)' PROVE event_queue'[i].type # "added"
      <4>1. i + 1 \in Waiting(d) /\ event_queue'[i] = event_queue[i + 1] /\ ~(i + 1 <= 1)
        BY <2>4
      <4> QED
        BY <2>1, <3>1, <4>1 DEF AddedIsFirst
    <3> QED
      BY <3>1, <3>2 DEF AddedIsFirst, MadeIsHeardOf
  <2>7. CASE d # e.device
    <3>1. told'[d] = told[d] /\ 1 \notin Waiting(d)
      BY <2>2, <2>7, <1>1, <1>2, <1>3 DEF e
    <3>2. ASSUME NEW i \in Waiting(d)'
          PROVE  (\A j \in Waiting(d)' : i <= j) <=> \A j \in Waiting(d) : i + 1 <= j
      <4>1. ASSUME \A j \in Waiting(d)' : i <= j, NEW j \in Waiting(d) PROVE i + 1 <= j
        <5>1. j \in Nat /\ j - 1 \in Waiting(d)'
          BY <2>5, <3>1
        <5>2. i <= j - 1
          BY <4>1, <5>1
        <5> QED
          BY <2>4, <5>1, <5>2
      <4>2. ASSUME \A j \in Waiting(d) : i + 1 <= j, NEW j \in Waiting(d)' PROVE i <= j
        <5>1. j \in Nat /\ j + 1 \in Waiting(d)
          BY <2>4
        <5>2. i + 1 <= j + 1
          BY <4>2, <5>1
        <5> QED
          BY <2>4, <5>1, <5>2
      <4> QED
        BY <4>1, <4>2
    <3>3. ASSUME NEW i \in Waiting(d)'
          PROVE  event_queue'[i].type = "added"
                   <=> told'[d] = "nothing" /\ \A j \in Waiting(d)' : i <= j
      <4>1. i + 1 \in Waiting(d) /\ event_queue'[i] = event_queue[i + 1]
        BY <2>4
      <4>2. event_queue[i + 1].type = "added"
              <=> told[d] = "nothing" /\ \A j \in Waiting(d) : i + 1 <= j
        BY <2>1, <4>1 DEF AddedIsFirst
      <4> QED
        BY <3>1, <3>2, <4>1, <4>2
    <3>4. Waiting(d) # {} => Waiting(d)' # {}
      BY <2>5, <3>1
    <3> QED
      BY <2>1, <3>1, <3>3, <3>4, <1>2 DEF AddedIsFirst, MadeIsHeardOf, Exists
  <2> QED
    BY <2>6, <2>7
<1>6. ContextInv'
  BY GetEventKeepsInv
<1>7. (ContextInv
         => (LivesInOrder <=> \A d \in Dev : AddedIsFirst(d) /\ MadeIsHeardOf(d)))'
  BY LivesInParts, PTL
<1> QED
  BY <1>5, <1>6, <1>7

\* However dispatches, the path API, the seat and the reading of events are
\* interleaved, and however far the client lags behind, of each device object
\* it hears ADDED first, then input, then REMOVED and no more.
THEOREM LivesAreInOrder == Spec => []LivesInOrder
<1>1. Init => LivesInOrder
  BY Constants DEF Init, LivesInOrder, Life, Exists, Dev
<1>2. ContextInv /\ LivesInOrder /\ [Next]_vars => LivesInOrder'
  <2> SUFFICES ASSUME ContextInv, LivesInOrder, [Next]_vars PROVE LivesInOrder'
    OBVIOUS
  <2>1. CASE \/ UNCHANGED vars \/ libinput_ref
             \/ \E d \in Dev : libinput_device_ref(d) \/ libinput_device_unref(d) \/ Unplug(d)
             \/ \E e \in held : libinput_event_destroy(e)
    <3>1. UNCHANGED <<event_queue, told, made>> /\ (Exists' => Exists)
      BY <2>1 DEF vars, libinput_ref, libinput_device_ref, libinput_device_unref, Unplug,
                  libinput_event_destroy, objectVars, Exists
    <3> QED
      BY <3>1 DEF LivesInOrder, Life
  <2>2. CASE libinput_unref
    <3>1. CASE ctx_refcount = 1
      <4>1. event_queue' = <<>> /\ ~Exists'
        BY <2>2, <3>1 DEF libinput_unref, DropContext, Exists
      <4> QED
        BY <4>1 DEF LivesInOrder, Life
    <3>2. CASE ctx_refcount # 1
      <4>1. UNCHANGED <<event_queue, told, made>> /\ Exists
        BY <2>2, <3>2 DEF libinput_unref
      <4> QED
        BY <4>1 DEF LivesInOrder, Life
    <3> QED
      BY <3>1, <3>2
  <2>3. CASE \/ libinput_path_add_device \/ libinput_udev_assign_seat
             \/ libinput_dispatch
    BY <2>3, PathAddIsCall, AssignSeatIsCall, DispatchIsCall, LivesInCall
  <2>4. CASE libinput_get_event
    BY <2>4, LivesInGetEvent
  <2> QED
    BY <2>1, <2>2, <2>3, <2>4 DEF Next
<1> QED
  BY <1>1, <1>2, ContextInvariant, PTL DEF Spec
=============================================================================
