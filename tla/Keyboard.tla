------------------------------- MODULE Keyboard -------------------------------
(***************************************************************************)
(* The keyboard path of the library backend (src/backend.rs): the kernel   *)
(* queues key events per device while drain_into_queue(), called by the    *)
(* compositor through libinput_dispatch(), first synthesises repeats from  *)
(* held_keys and only then reads the devices, one batch per device in the  *)
(* order of a HashMap.                                                     *)
(*                                                                         *)
(* Kernel and compositor run concurrently: the kernel may queue an event,  *)
(* a device may vanish and time may pass between any two steps of a drain. *)
(* A timestamp (Instant) is kept as its age in ticks, saturated at the     *)
(* largest delay it is compared with.                                      *)
(***************************************************************************)
EXTENDS Naturals, Sequences

CONSTANTS
  Keyboard,        \* devices with is_keyboard && !is_absolute
  Key,             \* key codes
  RepeatDelay,     \* REPEAT_DELAY_MS, in ticks
  RepeatInterval,  \* REPEAT_INTERVAL_MS, in ticks
  DwtTimeout,      \* the 500 ms of disable-while-typing, in ticks
  BatchMax,        \* events one fetch_events() returns at most
  QueueBound,      \* bound: key events queued in the kernel per device
  None             \* no device, no key

ASSUME KeyboardAssumption ==
  /\ RepeatDelay \in Nat \ {0}
  /\ RepeatInterval \in Nat \ {0}
  /\ DwtTimeout \in Nat \ {0}
  /\ BatchMax \in Nat \ {0}
  /\ QueueBound \in Nat \ {0}
  /\ None \notin Keyboard
  /\ None \notin Key

VARIABLES
  \* the kernel
  down,       \* down[d]: keys physically down
  softrep,    \* softrep[d]: the key the kernel's own autorepeat timer is on
  pending,    \* pending[d]: key events not yet processed, oldest first
  plugged,    \* devices still present
  \* BackendState
  tracked,    \* devices in the `devices` map
  held,       \* held[d]: TrackedDevice.held_keys
  typing,     \* age of global_typing_time; DwtTimeout: None or expired
  \* locals of drain_into_queue
  draining,   \* a drain is running
  fds,        \* devices the loop has still to visit
  cur,        \* device whose batch is being processed
  left,       \* events of that batch: the first `left` of pending[cur]
  dead_fds,   \* devices whose read failed with ENODEV
  \* what the client has been told (history)
  sent, since

kernelVars == <<down, softrep, pending, plugged>>
drainVars  == <<draining, fds, cur, left, dead_fds>>
clientVars == <<sent, since>>
vars == <<down, softrep, pending, plugged, tracked, held, typing,
          draining, fds, cur, left, dead_fds, sent, since>>

\* What the client was told, as a KeyStream.
Stream == INSTANCE KeyStream WITH
            Keyboard <- Keyboard, Key <- Key,
            RepeatDelay <- RepeatDelay, RepeatInterval <- RepeatInterval,
            sent <- sent, since <- since
Cap == Stream!Cap
Older(age) == Stream!Older(age)
HeldStates == Stream!HeldStates

KeyEvent == [code : Key, value : 0..2]      \* value: 0 up, 1 down, 2 repeat

\* held_keys is a Vec; a code is pushed only while it is not in it (Refines
\* below fails otherwise), so the order and the multiplicity carry nothing.
HeldKey == [code : Key, last_fire : 0..Cap, initial_fired : BOOLEAN]

Init ==
  /\ down \in [Keyboard -> SUBSET Key]
  /\ softrep = [d \in Keyboard |-> None]
  /\ pending = [d \in Keyboard |-> <<>>]
  /\ plugged = Keyboard
  /\ tracked = Keyboard
  /\ held = [d \in Keyboard |-> {}]
  /\ typing = DwtTimeout
  /\ draining = FALSE
  /\ fds = {}
  /\ cur = None
  /\ left = 0
  /\ dead_fds = {}
  /\ sent = [d \in Keyboard |-> [k \in Key |-> "none"]]
  /\ since = [d \in Keyboard |-> [k \in Key |-> 0]]
-----------------------------------------------------------------------------
(* The kernel's input core (external).  A key event is queued only when    *)
(* the key changes; a press moves the device's autorepeat timer to that    *)
(* key and any release stops it.                                           *)

Queue(d, k, v) ==
  /\ d \in plugged
  /\ Len(pending[d]) < QueueBound
  /\ pending' = [pending EXCEPT ![d] = Append(@, [code |-> k, value |-> v])]

KernelPress(d, k) ==
  /\ k \notin down[d]
  /\ Queue(d, k, 1)
  /\ down' = [down EXCEPT ![d] = @ \cup {k}]
  /\ softrep' = [softrep EXCEPT ![d] = k]
  /\ UNCHANGED <<plugged, tracked, held, typing, drainVars, clientVars>>

KernelRelease(d, k) ==
  /\ k \in down[d]
  /\ Queue(d, k, 0)
  /\ down' = [down EXCEPT ![d] = @ \ {k}]
  /\ softrep' = [softrep EXCEPT ![d] = None]
  /\ UNCHANGED <<plugged, tracked, held, typing, drainVars, clientVars>>

KernelAutorepeat(d) ==
  /\ softrep[d] # None
  /\ Queue(d, softrep[d], 2)
  /\ UNCHANGED <<down, softrep, plugged, tracked, held, typing, drainVars,
                 clientVars>>

\* From here every read of the device fails with ENODEV.
Unplug(d) ==
  /\ d \in plugged
  /\ plugged' = plugged \ {d}
  /\ UNCHANGED <<down, softrep, pending, tracked, held, typing, drainVars,
                 clientVars>>

Aged(h) == [h EXCEPT !.last_fire = Older(@)]

\* A tick of the clock ages every Instant and the client's own clock.
Tick ==
  /\ held' = [d \in Keyboard |-> {Aged(h) : h \in held[d]}]
  /\ typing' = IF typing < DwtTimeout THEN typing + 1 ELSE DwtTimeout
  /\ Stream!Tick
  /\ UNCHANGED <<kernelVars, tracked, drainVars>>
-----------------------------------------------------------------------------
(* drain_into_queue *)

\* Faults: no initial delay; no repeat after the first.
DueTooEarly(h) == h.last_fire >= RepeatInterval
DueOnce(h) == ~h.initial_fired /\ h.last_fire >= RepeatDelay

\* The delay (first repeat) or interval of a held key has elapsed.
Due(h) ==
  h.last_fire >= IF h.initial_fired THEN RepeatInterval ELSE RepeatDelay

Fire(h) == IF Due(h)
           THEN [h EXCEPT !.last_fire = 0, !.initial_fired = TRUE]
           ELSE h

\* emit_key_repeats, with one `now` for all devices and keys.
EmitKeyRepeats ==
  LET repeats(d, k) == \E h \in held[d] : h.code = k /\ Due(h)
  IN  /\ held' = [d \in Keyboard |-> {Fire(h) : h \in held[d]}]
      /\ sent' = [d \in Keyboard |-> [k \in Key |->
                    IF repeats(d, k) THEN "repeat" ELSE sent[d][k]]]
      /\ since' = [d \in Keyboard |-> [k \in Key |->
                    IF repeats(d, k) THEN 0 ELSE since[d][k]]]

Dispatch ==
  /\ ~draining
  /\ EmitKeyRepeats
  /\ draining' = TRUE
  /\ fds' = tracked
  /\ UNCHANGED <<kernelVars, tracked, typing, cur, left, dead_fds>>

\* fetch_events on the next device of the map.
Fetch(d) ==
  /\ d \in fds
  /\ left = 0
  /\ fds' = fds \ {d}
  /\ IF d \in plugged
     THEN /\ cur' = d
          /\ left' = IF Len(pending[d]) < BatchMax THEN Len(pending[d])
                                                   ELSE BatchMax
          /\ UNCHANGED dead_fds
     ELSE /\ dead_fds' = dead_fds \cup {d}
          /\ UNCHANGED <<cur, left>>
  /\ UNCHANGED <<kernelVars, tracked, held, typing, draining, clientVars>>

\* process_keyboard_event, value 1
KeyDown(d, k) ==
  /\ typing' = 0
  /\ held' = [held EXCEPT ![d] = @ \cup
                {[code |-> k, last_fire |-> 0, initial_fired |-> FALSE]}]
  /\ sent' = [sent EXCEPT ![d][k] = "pressed"]
  /\ since' = [since EXCEPT ![d][k] = 0]

\* Fault: the release is dropped.
KeyUpDropped(d, k) == UNCHANGED <<held, typing, sent, since>>

\* process_keyboard_event, value 0
KeyUp(d, k) ==
  /\ held' = [held EXCEPT ![d] = {h \in @ : h.code # k}]
  /\ sent' = [sent EXCEPT ![d][k] = "released"]
  /\ since' = [since EXCEPT ![d][k] = 0]
  /\ UNCHANGED typing

\* process_keyboard_event, value 2: "intentionally dropped"
KernelRepeatDropped == UNCHANGED <<held, typing, sent, since>>

ProcessKeyboardEvent ==
  LET ev == Head(pending[cur])
  IN  /\ left > 0
      /\ left' = left - 1
      /\ pending' = [pending EXCEPT ![cur] = Tail(@)]
      /\ \/ ev.value = 1 /\ KeyDown(cur, ev.code)
         \/ ev.value = 0 /\ KeyUp(cur, ev.code)
         \/ ev.value = 2 /\ KernelRepeatDropped
      /\ UNCHANGED <<down, softrep, plugged, tracked, draining, fds, cur,
                     dead_fds>>

\* Fault: held_keys outlives its device.
RemoveDeadKeepsKeys(d) ==
  /\ fds = {}
  /\ left = 0
  /\ d \in dead_fds
  /\ dead_fds' = dead_fds \ {d}
  /\ tracked' = tracked \ {d}
  /\ sent' = [sent EXCEPT ![d] = [k \in Key |-> "gone"]]
  /\ since' = [since EXCEPT ![d] = [k \in Key |-> 0]]
  /\ UNCHANGED <<kernelVars, held, typing, draining, fds, cur, left>>

\* DEVICE_REMOVED is queued and the TrackedDevice dropped with its held_keys.
RemoveDead(d) ==
  /\ fds = {}
  /\ left = 0
  /\ d \in dead_fds
  /\ dead_fds' = dead_fds \ {d}
  /\ tracked' = tracked \ {d}
  /\ held' = [held EXCEPT ![d] = {}]
  /\ sent' = [sent EXCEPT ![d] = [k \in Key |-> "gone"]]
  /\ since' = [since EXCEPT ![d] = [k \in Key |-> 0]]
  /\ UNCHANGED <<kernelVars, typing, draining, fds, cur, left>>

EndDrain ==
  /\ draining
  /\ fds = {}
  /\ left = 0
  /\ dead_fds = {}
  /\ draining' = FALSE
  /\ cur' = None
  /\ UNCHANGED <<kernelVars, tracked, held, typing, fds, left, dead_fds,
                 clientVars>>
-----------------------------------------------------------------------------
Kernel ==
  \E d \in Keyboard :
    \/ \E k \in Key : KernelPress(d, k) \/ KernelRelease(d, k)
    \/ KernelAutorepeat(d)
    \/ Unplug(d)

DrainStep ==
  \/ \E d \in Keyboard : Fetch(d) \/ RemoveDead(d)
  \/ ProcessKeyboardEvent
  \/ EndDrain

Next == Kernel \/ Tick \/ Dispatch \/ DrainStep

Spec == Init /\ [][Next]_vars

\* Fault: a hangup does not wake the compositor.
ReadableData == \E d \in tracked : pending[d] # <<>>

\* The epoll fd the compositor waits on is readable.
Readable == \E d \in tracked : d \notin plugged \/ pending[d] # <<>>

\* The compositor dispatches when the fd is readable, a drain runs to its
\* end, time passes, and the kernel's autorepeat timer keeps firing.
Fairness ==
  /\ WF_vars(Readable /\ Dispatch)
  /\ WF_vars(DrainStep)
  /\ WF_vars(Tick)
  /\ \A d \in Keyboard : WF_vars(KernelAutorepeat(d))

FairSpec == Spec /\ Fairness
-----------------------------------------------------------------------------
(* Properties *)

\* Every variable keeps its type: the shape of TrackedDevice.held_keys, of the
\* locals of drain_into_queue and of the kernel's queues.
TypeOK ==
  /\ down \in [Keyboard -> SUBSET Key]
  /\ softrep \in [Keyboard -> Key \cup {None}]
  /\ pending \in [Keyboard -> Seq(KeyEvent)]
  /\ plugged \in SUBSET Keyboard
  /\ tracked \in SUBSET Keyboard
  /\ held \in [Keyboard -> SUBSET HeldKey]
  /\ typing \in 0..DwtTimeout
  /\ draining \in BOOLEAN
  /\ fds \in SUBSET tracked
  /\ cur \in Keyboard \cup {None}
  /\ left \in Nat
  /\ left > 0 => (cur \in tracked /\ left <= Len(pending[cur]))
  /\ dead_fds \in SUBSET (tracked \ plugged)
  /\ sent \in [Keyboard -> [Key -> {"none", "pressed", "repeat", "released",
                                    "gone"}]]
  /\ since \in [Keyboard -> [Key -> 0..Cap]]

\* held_keys is exactly what the client believes to be held: every entry
\* stands for a key whose last event was a PRESSED or a repeat sent
\* last_fire ago, and every such key has its entry.  A release that missed
\* its entry, or a press that left a second one, would repeat for ever.
HeldMatchesSent ==
  \A d \in Keyboard, k \in Key :
    /\ sent[d][k] \in HeldStates <=> \E h \in held[d] : h.code = k
    /\ \A h \in held[d] : h.code = k =>
         /\ h.last_fire = since[d][k]
         /\ h.initial_fired <=> sent[d][k] = "repeat"

\* The i-th event of the queue q is a press or a release of k.
ToggleAt(q, k, i) ==
  i \in 1..Len(q) /\ q[i].code = k /\ q[i].value \in {0, 1}

CaughtUp(q, k, s, isDown) ==
  (\A i \in 1..Len(q) : ~ ToggleAt(q, k, i)) =>
     /\ s \in HeldStates => isDown
     /\ s = "released" => ~ isDown

\* No event is lost between the kernel and the client: once a tracked
\* keyboard has no unprocessed press or release of a key, the client's idea of
\* the key is the physical one (batches end anywhere in the stream).
ClientCatchesUp ==
  \A d \in tracked, k \in Key :
    CaughtUp(pending[d], k, sent[d][k], k \in down[d])

\* The strengthening that makes the three above inductive.  The unprocessed
\* presses and releases of a key (q), put between what the client knows (s)
\* and the physical key (isDown), form one alternating sequence.
FirstToggleFits(q, k, s) ==
  \A i \in 1..Len(q) :
    (ToggleAt(q, k, i) /\ \A j \in 1..(i-1) : ~ ToggleAt(q, k, j)) =>
      IF q[i].value = 1 THEN s \in {"none", "released"}
                        ELSE s \in {"none"} \cup HeldStates

NextToggleDiffers(q, k) ==
  \A i \in 1..Len(q) : \A j \in 1..Len(q) :
    (/\ i < j /\ ToggleAt(q, k, i) /\ ToggleAt(q, k, j)
     /\ \A l \in (i+1)..(j-1) : ~ ToggleAt(q, k, l)) =>
       q[i].value # q[j].value

LastToggleFits(q, k, isDown) ==
  \A i \in 1..Len(q) :
    (ToggleAt(q, k, i) /\ \A j \in (i+1)..Len(q) : ~ ToggleAt(q, k, j)) =>
       (q[i].value = 1 <=> isDown)

Alternates(q, k, s, isDown) ==
  /\ FirstToggleFits(q, k, s)
  /\ NextToggleDiffers(q, k)
  /\ LastToggleFits(q, k, isDown)
  /\ CaughtUp(q, k, s, isDown)

StreamsAlternate ==
  \A d \in tracked, k \in Key :
    Alternates(pending[d], k, sent[d][k], k \in down[d])

\* Nothing is sent for a device after DEVICE_REMOVED, and not before it is
\* the device called gone.
GoneIsUntracked ==
  \A d \in Keyboard, k \in Key : sent[d][k] = "gone" <=> d \notin tracked

KeyboardInv ==
  TypeOK /\ HeldMatchesSent /\ StreamsAlternate /\ GoneIsUntracked

\* The keyboard path implements the stream promised to compositors.
Refines == Stream!Spec

\* A released key never stays held for the client.
NoStuckKey ==
  \A d \in Keyboard, k \in Key :
    (sent[d][k] \in HeldStates /\ k \notin down[d])
      ~> (sent[d][k] \notin HeldStates \/ k \in down[d])

\* An unplugged keyboard is noticed, and DEVICE_REMOVED sent, by itself.
UnpluggedIsRemoved ==
  \A d \in Keyboard : (d \notin plugged) ~> (d \notin tracked)

\* A repeat of k has just been queued for the client.
JustRepeated(d, k) == sent[d][k] = "repeat" /\ since[d][k] = 0

\* A key the client holds goes on repeating as long as the kernel's own
\* autorepeat is on it: those events, dropped one by one, are what wakes the
\* compositor so that emit_key_repeats runs.
AutorepeatedKeyRepeats ==
  \A d \in Keyboard, k \in Key :
    (sent[d][k] \in HeldStates /\ softrep[d] = k)
      ~> (JustRepeated(d, k) \/ softrep[d] # k \/ d \notin plugged)
=============================================================================
