------------------------------- MODULE Pipeline -------------------------------
(***************************************************************************)
(* drain_into_queue (src/backend.rs) over all devices together: a HashMap  *)
(* is visited in any order, each device gets one batch, the configuration  *)
(* and the typing time are copied before it, and each event takes the path *)
(* of its device.  The client configures devices between two dispatches    *)
(* and reads what was queued with the accessors.                           *)
(*                                                                         *)
(* process_relative_event is complete here.  Of a touchpad only what the   *)
(* copies decide is left: a frame is a whole movement or lift, its state   *)
(* is Touchpad's and Motion's.  Key repeats are Keyboard's, and opening by *)
(* path is Hotplug's; both keep neither a copy nor a setting.              *)
(*                                                                         *)
(* A drain visits a device once, so that what the kernel does while one    *)
(* runs could as well happen before it or after it; it does so here, and a *)
(* batch is any beginning of what is queued.                               *)
(***************************************************************************)
EXTENDS DeviceConfig, EventAccessors, SequencesExt

CONSTANTS
  Dev,
  Class,        \* Class[d]: is_keyboard, is_pointer and is_absolute
  Pluggable,    \* bound: devices that are unplugged
  Configured,   \* bound: devices the client configures
  Changes,      \* bound: pairs of an option and a value it sets with success
  BatchSize,    \* events one fetch_events() returns at most
  QueueBound,   \* QueueBound[d], a bound: events in the kernel queue of d
  DwtTimeout,   \* the 500 ms of disable-while-typing, in ticks
  None

Classes == [is_keyboard : BOOLEAN, is_pointer : BOOLEAN, is_absolute : BOOLEAN]

ASSUME PipelineAssumption ==
  /\ Class \in [Dev -> {c \in Classes : c.is_keyboard \/ c.is_pointer}]
  /\ IsFiniteSet(Dev)
  /\ Pluggable \cup Configured \subseteq Dev
  /\ \A c \in Changes :
       /\ c[1] \in DOMAIN Option /\ Succeeds(c[1])
       /\ c[1] = "accel_speed" => c[2] \in Int
  /\ {BatchSize, DwtTimeout} \subseteq Nat \ {0}
  /\ QueueBound \in [Dev -> Nat \ {0}]
  /\ None \notin Dev

\* The path an event of d takes.
Route(d) ==
  CASE Class[d].is_keyboard /\ ~Class[d].is_absolute -> "keyboard"
    [] /\ Class[d].is_pointer
       /\ ~Class[d].is_keyboard /\ ~Class[d].is_absolute -> "relative"
    [] OTHER -> "absolute"

Mice == {d \in Dev : Route(d) = "relative"}

VARIABLES
  \* the kernel
  plugged,
  queue,       \* events not yet fetched, per device
  \* BackendState and LibinputDevice
  tracked,
  settings,    \* the fields of each device object
  typing,      \* age of global_typing_time; DwtTimeout: None or expired
  \* drain_into_queue
  draining,
  fds,         \* devices still to be visited
  cur, evs,    \* device in hand, or None, and the rest of its batch
  cfg,         \* cfg_tap, cfg_nat, cfg_dwt and cfg_accel
  typed,       \* the copy of global_typing_time, aged
  dead_fds,
  \* history
  out,         \* events the last step queued for the client
  owed,        \* per mouse: what the client is still to be told, event by event
  unserved,    \* devices that had events when the drain began, until they are read
  keyed,       \* age of the last press the client was told of
  before       \* the same when the batch in hand was fetched

kernelVars == <<plugged, queue>>
drainVars == <<draining, fds, cur, evs, cfg, typed, dead_fds>>
vars == <<plugged, queue, tracked, settings, typing, draining, fds, cur, evs,
          cfg, typed, dead_fds, out, owed, unserved, keyed, before>>
-----------------------------------------------------------------------------
(* Kernel events *)

Input(type, code, value) == [type |-> type, code |-> code, value |-> value]

KeyInputs == {Input("key", "a", v) : v \in 0..2}
MouseInputs ==
  {Input("rel", c, 1) : c \in {"x", "y", "wheel", "hwheel", "hi_res"}}
    \cup {Input("key", "left", v) : v \in 0..1}
PadInputs == {Input("pad", c, 1) : c \in {"move", "scroll", "swipe", "pinch", "lift"}}

Inputs == KeyInputs \cup MouseInputs \cup PadInputs

InputsOf(d) ==
  (IF Class[d].is_keyboard THEN KeyInputs ELSE {})
    \cup (IF ~Class[d].is_pointer THEN {}
          ELSE IF Class[d].is_absolute THEN PadInputs ELSE MouseInputs)

\* What the client is to learn of a mouse.
Meters == {"x", "y", "wheel", "hwheel", "left"}
Nothing == [m \in Meters |-> 0]

\* How far an event of the kernel moves each meter; a button goes up or down.
Effect(e) ==
  [m \in Meters |-> IF e.code # m THEN 0
                    ELSE IF e.type = "key" THEN 2 * e.value - 1 ELSE e.value]
-----------------------------------------------------------------------------
NotConfigured ==
  [tap |-> FALSE, natural |-> FALSE, dwt |-> FALSE, accel |-> 0]

Init ==
  /\ plugged = Dev
  /\ queue = [d \in Dev |-> <<>>]
  /\ tracked = Dev
  /\ settings = [d \in Dev |-> NewSettings]
  /\ typing = DwtTimeout
  /\ draining = FALSE
  /\ fds = {}
  /\ cur = None
  /\ evs = <<>>
  /\ cfg = NotConfigured
  /\ typed = DwtTimeout
  /\ dead_fds = {}
  /\ out = <<>>
  /\ owed = [d \in Mice |-> <<>>]
  /\ unserved = {}
  /\ keyed = DwtTimeout
  /\ before = DwtTimeout

Aged(age) == IF age = DwtTimeout THEN age ELSE age + 1

Tick ==
  /\ typing' = Aged(typing)
  /\ typed' = Aged(typed)
  /\ keyed' = Aged(keyed)
  /\ before' = Aged(before)
  /\ out' = <<>>
  /\ UNCHANGED <<kernelVars, tracked, settings, draining, fds, cur, evs, cfg,
                 dead_fds, owed, unserved>>

Send(d) ==
  /\ ~draining /\ d \in plugged /\ Len(queue[d]) < QueueBound[d]
  /\ \E e \in InputsOf(d) :
       /\ queue' = [queue EXCEPT ![d] = Append(@, e)]
       /\ owed' = [owed EXCEPT ![d] = Append(@, Effect(e))]
  /\ out' = <<>>
  /\ UNCHANGED <<plugged, tracked, settings, typing, drainVars, unserved, keyed,
                 before>>

\* What was queued is gone with the device.
Unplug(d) ==
  /\ ~draining /\ d \in plugged
  /\ plugged' = plugged \ {d}
  /\ queue' = [queue EXCEPT ![d] = <<>>]
  /\ owed' = [owed EXCEPT ![d] = <<>>]
  /\ out' = <<>>
  /\ UNCHANGED <<tracked, settings, typing, drainVars, unserved, keyed, before>>

Plug(d) ==
  /\ ~draining /\ d \notin plugged \cup tracked
  /\ plugged' = plugged \cup {d}
  /\ out' = <<>>
  /\ UNCHANGED <<queue, tracked, settings, typing, drainVars, owed, unserved,
                 keyed, before>>
-----------------------------------------------------------------------------
(* The client *)

\* A setter of the configuration, called between two dispatches.
Configure(d, o, v) ==
  /\ ~draining /\ d \in tracked
  /\ settings' = [settings EXCEPT ![d] = Set(@, o, v)]
  /\ out' = <<>>
  /\ UNCHANGED <<kernelVars, tracked, typing, drainVars, owed, unserved, keyed,
                 before>>

Sent(type, payload, d, data) ==
  [type |-> type, payload |-> payload, dev |-> d, data |-> data]

Read(family, a, e) ==
  IF Converts(family, e) /\ a \in Answers(family, e) THEN e.data[a] ELSE 0

\* What e tells the client of meter m of a mouse.
Told(e, m) ==
  CASE m = "x" -> Read("pointer", "dx", e)
    [] m = "y" -> Read("pointer", "dy", e)
    [] m = "left" -> IF e.type = "pointer_button"
                     THEN 2 * Read("pointer", "button_state", e) - 1 ELSE 0
    [] OTHER -> IF e.type = "scroll_wheel" /\ <<"wheel", "hwheel">>[e.data.axis + 1] = m
                THEN Read("pointer", "axis_value_discrete", e) ELSE 0

\* s tells of a mouse what an event did to it, once.
Tells(s, effect) ==
  IF s = <<>> THEN effect = Nothing
  ELSE Len(s) = 1 /\ \A m \in Meters : Told(s[1], m) = effect[m]
-----------------------------------------------------------------------------
(* drain_into_queue *)

\* handle_hotplug opens what was plugged in, each as a new device object.
Dispatch ==
  /\ ~draining
  /\ LET fresh == plugged \ tracked IN
       /\ tracked' = tracked \cup plugged
       /\ settings' = [d \in Dev |-> IF d \in fresh THEN NewSettings ELSE settings[d]]
       /\ out' = SetToSeq({Sent("device_added", "DeviceAdded", d, <<>>) : d \in fresh})
  /\ draining' = TRUE
  /\ fds' = tracked'
  /\ unserved' = {d \in Dev : queue[d] # <<>>}
  /\ UNCHANGED <<kernelVars, typing, cur, evs, cfg, typed, dead_fds, owed, keyed,
                 before>>

ConfigOf(s) == [tap |-> s.tap_enabled, natural |-> s.natural_scroll,
                dwt |-> s.dwt_enabled, accel |-> s.accel_speed + 1]

CopiedNew(d) == ConfigOf(NewSettings)             \* fault: as it was opened
Copied(d) == ConfigOf(settings[d])

\* Who is still to be visited after d had nothing to read.
OthersDropped(d) == {}                            \* fault: break for continue
Others(d) == fds \ {d}

\* One device is visited.
Visit(d) ==
  /\ cur = None /\ d \in fds
  /\ \/ /\ queue[d] # <<>>
        /\ \E n \in 1..BatchSize :
             /\ n <= Len(queue[d])
             /\ evs' = SubSeq(queue[d], 1, n)
             /\ queue' = [queue EXCEPT ![d] = SubSeq(@, n + 1, Len(@))]
        /\ cur' = d
        /\ fds' = fds \ {d}
        /\ cfg' = Copied(d)
        /\ typed' = typing
        /\ before' = keyed
        /\ unserved' = unserved \ {d}
        /\ UNCHANGED dead_fds
     \/ /\ queue[d] = <<>>
        /\ fds' = Others(d)
        /\ dead_fds' = IF d \in plugged THEN dead_fds ELSE dead_fds \cup {d}
        /\ UNCHANGED <<queue, cur, evs, cfg, typed, before, unserved>>
  /\ out' = <<>>
  /\ UNCHANGED <<plugged, tracked, settings, typing, draining, owed, keyed>>

\* Every EV_KEY of a device with letters is a key.
OfKey(d, e) ==
  IF e.type = "key" /\ e.value \in {0, 1}
  THEN <<Sent("keyboard_key", "KeyboardKey", d,
              [key |-> e.code, key_state |-> e.value])>>
  ELSE <<>>

Motion(d, dx, dy) ==
  Sent("pointer_motion", "PointerMotion", d, [dx |-> dx, dy |-> dy])
Axis(d, type, axis, v) ==
  Sent(type, "PointerAxis", d,
       [axis |-> axis, axis_value |-> 15 * v, axis_value_discrete |-> v])
Button(d, b, v) ==
  Sent("pointer_button", "PointerButton", d, [button |-> b, button_state |-> v])

AlwaysVertical(code) == 0                         \* fault
AxisOf(code) == IF code = "wheel" THEN 0 ELSE 1

\* process_relative_event; the five buttons it knows are one here.
OfMouse(d, e) ==
  CASE e.type = "rel" /\ e.code = "x" -> <<Motion(d, e.value, 0)>>
    [] e.type = "rel" /\ e.code = "y" -> <<Motion(d, 0, e.value)>>
    [] e.type = "rel" /\ e.code \in {"wheel", "hwheel"} ->
         <<Axis(d, "scroll_wheel", AxisOf(e.code), e.value)>>
    [] e.type = "key" /\ e.code = "left" -> <<Button(d, e.code, e.value)>>
    [] OTHER -> <<>>

dwt_active == cfg.dwt /\ typed < DwtTimeout

Turned(v) == IF cfg.natural THEN -v ELSE v

Update(d, type, payload) == Sent(type, payload, d, [finger_count |-> 3])

\* process_absolute_event, as far as the copies decide.
OfPad(d, e) ==
  IF dwt_active THEN <<>>
  ELSE CASE e.code = "move" /\ cfg.accel # 0 -> <<Motion(d, cfg.accel * e.value, 0)>>
         [] e.code = "scroll" -> <<Axis(d, "scroll_finger", 0, Turned(e.value))>>
         [] e.code = "swipe" -> <<Update(d, "swipe_update", "GestureSwipeUpdate")>>
         [] e.code = "pinch" -> <<Update(d, "pinch_update", "GesturePinchUpdate")>>
         [] e.code = "lift" /\ cfg.tap -> <<Button(d, "left", 1), Button(d, "left", 0)>>
         [] OTHER -> <<>>

OutOf(d, e) == CASE Route(d) = "keyboard" -> OfKey(d, e)
                 [] Route(d) = "relative" -> OfMouse(d, e)
                 [] Route(d) = "absolute" /\ e.type = "pad" -> OfPad(d, e)
                 [] OTHER -> <<>>

\* Fault: only the keyboard's own last_typing_time is set.
OwnTimeOnly(d, e) == typing
TypingTime(d, e) ==
  IF Route(d) = "keyboard" /\ e.type = "key" /\ e.value = 1 THEN 0 ELSE typing

Pressed(e) == Converts("keyboard", e) /\ Read("keyboard", "key_state", e) = 1

ProcessEvent ==
  /\ cur # None
  /\ LET e == Head(evs) IN
       /\ out' = OutOf(cur, e)
       /\ typing' = TypingTime(cur, e)
       /\ owed' = [owed EXCEPT ![cur] = IF Tells(out', Head(@)) THEN Tail(@) ELSE @]
  /\ evs' = Tail(evs)
  /\ IF Len(evs) > 1 THEN UNCHANGED <<cur, cfg, typed, before>>
     ELSE cur' = None /\ cfg' = NotConfigured /\ typed' = DwtTimeout /\ before' = DwtTimeout
  /\ keyed' = IF \E i \in DOMAIN out' : Pressed(out'[i]) THEN 0 ELSE keyed
  /\ UNCHANGED <<kernelVars, tracked, settings, draining, fds, dead_fds, unserved>>

EndDrain ==
  /\ draining /\ cur = None /\ fds = {}
  /\ draining' = FALSE
  /\ tracked' = tracked \ dead_fds
  /\ dead_fds' = {}
  /\ out' = SetToSeq({Sent("device_removed", "DeviceRemoved", d, <<>>) : d \in dead_fds})
  /\ UNCHANGED <<kernelVars, settings, typing, fds, cur, evs, cfg, typed, owed,
                 unserved, keyed, before>>

Next ==
  \/ Tick \/ Dispatch \/ ProcessEvent \/ EndDrain
  \/ \E d \in Dev : Send(d) \/ Visit(d)
  \/ \E d \in Pluggable : Unplug(d) \/ Plug(d)
  \/ \E d \in Configured, c \in Changes : Configure(d, c[1], c[2])

Spec == Init /\ [][Next]_vars
-----------------------------------------------------------------------------
(* Properties *)

Ages == 0..DwtTimeout

TypeOK ==
  /\ plugged \subseteq Dev
  /\ queue \in [Dev -> Seq(Inputs)]
  /\ \A d \in Dev : queue[d] \in Seq(InputsOf(d))
  /\ tracked \subseteq Dev
  /\ \A d \in Dev : DOMAIN settings[d] = Fields /\ settings[d].accel_speed \in -1..1
  /\ {typing, typed, keyed, before} \subseteq Ages
  /\ draining \in BOOLEAN
  /\ fds \subseteq tracked
  /\ cur \in Dev \cup {None}
  /\ evs \in Seq(Inputs)
  /\ cur # None => evs \in Seq(InputsOf(cur))
  /\ cur # None <=> evs # <<>>
  /\ dead_fds \subseteq tracked \ fds
  /\ unserved \subseteq Dev
  /\ DOMAIN owed = Mice

\* What of d was not processed yet.
Unread(d) == (IF cur = d THEN evs ELSE <<>>) \o queue[d]

\* What the client was not told of a mouse is what is still unread, event by
\* event: however frames fall into batches and devices into drains, no
\* movement, wheel click or button of the kernel is lost, doubled, taken for
\* another or told out of turn.
NothingLost ==
  \A d \in Mice : owed[d] = [i \in DOMAIN Unread(d) |-> Effect(Unread(d)[i])]

\* A batch in hand has the settings of its device and a typing time that is not
\* older than the last key the client had been told of.
CopiesAreCurrent ==
  /\ typing <= keyed /\ typed <= before
  /\ fds \cup dead_fds # {} => draining
  /\ cur # None => draining /\ cfg = ConfigOf(settings[cur])

\* What is still to be served can be, and will be visited.
UnservedIsWaiting ==
  /\ \A d \in Dev : queue[d] # <<>> => d \in plugged
  /\ draining => \A d \in unserved : d \in fds /\ queue[d] # <<>>

\* The last two are inductive with what they need of the first.
PipelineInv == TypeOK /\ NothingLost /\ CopiesAreCurrent /\ UnservedIsWaiting

\* Every event is converted to exactly one family, the only one whose
\* accessors answer for its payload.
OneFamilyAnswers ==
  \A i \in DOMAIN out :
    \E f \in Family :
      /\ \A g \in Family : Converts(g, out[i]) <=> g = f
      /\ \A g \in Family : Answers(g, out[i]) # {} <=> g = f /\ f # "notify"

\* README "Configuration": disable_while_typing will "suppress touchpad input
\* 500ms after keystroke".  A key the client was told of before the batch of
\* the pad was fetched, in this drain or an earlier one, mutes it; a key that
\* waits in a device visited later does not.
DwtMutesPad ==
  [][\A i \in DOMAIN out' :
       LET d == out'[i].dev IN
       (~Converts("notify", out'[i]) /\ Class[d].is_absolute
          /\ settings[d].dwt_enabled)
         => before = DwtTimeout]_vars

\* What a pad sends obeys the settings its getters answer: of a device object
\* that was replugged those of the new one.
SettingsInEffect ==
  [][\A i \in DOMAIN out' :
       LET e == out'[i]
           s == settings[e.dev]
       IN  Class[e.dev].is_absolute =>
             /\ e.type = "scroll_finger" =>
                  Read("pointer", "axis_value_discrete", e)
                    = IF Get(s, "natural_scroll") THEN -1 ELSE 1
             /\ e.type = "pointer_motion" =>
                  Read("pointer", "dx", e) = 1 + Get(s, "accel_speed")
             /\ e.type = "pointer_button" => Get(s, "tap_enabled")]_vars

\* A device that had something to read when a drain began has been read when
\* it ends, whatever the others had.
EveryDeviceIsServed == [][draining /\ ~draining' => unserved = {}]_vars

\* Comment backend.rs:614, "axis: 1, // LIBINPUT_POINTER_AXIS_SCROLL_HORIZONTAL":
\* a scroll event has the axis along which it scrolls.
ScrollHasItsAxis ==
  \A i \in DOMAIN out :
    out[i].payload = "PointerAxis" =>
      \A axis \in {0, 1} : HasAxis(out[i], axis) => axis = out[i].data.axis
=============================================================================
