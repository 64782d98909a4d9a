# TLA+ model of libinput-rs

`libinput-rs` is a Rust replacement for `libinput.so` (`src/src/lib.rs`,
`backend.rs`, `ffi_types.rs`) with an optional daemon that re-emits touchpad
input through uinput (`main.rs`, `event_loop.rs`, `device.rs`).  This directory
holds TLA+ models of it, the TLC configurations that check them, and proofs
checked by TLAPS.  The code is the reference: the models say what it does, the
properties what it should do, and its disagreements with its own
README and comments are kept as runs that are expected to fail.

## 1. Inventory

| Component | Code | State | Operations |
|---|---|---|---|
| Keyboard path | `backend.rs` 322-419, 456-553 | `held_keys` per keyboard, `global_typing_time`, locals of the drain | `emit_key_repeats`, `fetch_events` per device, `process_keyboard_event`, removal of dead devices |
| Touchpad path | `backend.rs` 53-177, 655-1007 | fingers, taps, click button, pinch, displacement, remainders, MT slots | one handler per evdev event, `SYN_REPORT` turns a frame into motion, scroll, swipe or pinch |
| Relative path | `backend.rs` 559-648 | none | each event translated by itself: motion, wheel, buttons |
| Registry and hotplug | `backend.rs` 183-316, 404-450, `ffi_types.rs` 262-360 | `devices` by fd, `LibinputContext.devices`, epoll set, inotify queue | `scan_and_open`, `try_open`, `handle_hotplug`, removal |
| Context and events | `lib.rs` 32-254 | reference counts, `event_queue` | create, ref, unref, dispatch, get_event, path_add, path_remove |
| Device configuration | `lib.rs` 1030-1772 | fields of `LibinputDevice` | getters, setters, defaults |
| Event accessors | `lib.rs` 256-901 | none | projections of a payload |
| Seat, status, logging | `lib.rs` 1774-1955 | names, user data, a handler | getters, setters |
| Unsupported entry points | `lib.rs` 1957-2994 | none | constants; `libinput_suspend` and `_resume` among them |
| Daemon loop | `event_loop.rs` | token map, global typing time, `RESETTING` | poll, hotplug, batches, reset hot key |
| Daemon pipeline | `device.rs` | a second copy of the touchpad state | `process_event`, `try_open_device` |
| Configuration, uinput, start | `config.rs`, `virtual_device.rs`, `main.rs` | none that changes | read a file, create a device |

The compositor waits on an epoll fd to which every device and the inotify
instance are added, and calls `libinput_dispatch()`, which under one mutex runs
`drain_into_queue()`: hotplug, then synthetic key repeats, then one
`fetch_events()` per device in the order of a `HashMap`, then the removal of
devices whose read failed.  Everything the library knows of time it learns in
that call.  The paths share the typing time (disable-while-typing, DWT) and the
configuration, which the compositor may change between two calls.

What is hard about it: the kernel queues, devices come and go and time passes
between any two steps of a drain; batches end at any frame of a device's stream;
repeats, taps and DWT are measured when events are processed; a frame of a
touchpad is handled event by event by code that infers the number of fingers
from two sources; removal is noticed later than re-creation.  The places are
listed, with what covers them, under `hazards` in `PROJECT.json`.

What makes each component correct:
- keyboard: what the client believes held is what is in `held_keys`; repeats
  come at the promised times and only for held keys; no press, release or
  removal is lost or sent twice;
- touchpad: the tracker agrees with the pad between frames; clicks are released
  as they were pressed; no tap after motion or typing; nothing moves during DWT;
- registry: every device object is announced, sends input and is removed, in
  this order and once; the map agrees with the client; what appears is opened
  and what vanishes is removed;
- context: pointers given out stay valid as long as the context, and events
  reach the client in the order in which they happened to their device;
- daemon pipeline: as the touchpad path, whichever writes to uinput fail;
- daemon loop: no read blocks the only thread, a node is opened once, nothing
  sent, plugged or unplugged goes unnoticed; the hardware reset needs its chord,
  and DWT is measured from the last key press.

## 2. Modules

| Module | Contents |
|---|---|
| `KeyStream` | abstract: what a compositor may see of the keys of its keyboards |
| `Keyboard` | the keyboard path and the kernel queue it races with |
| `KeyboardProofs` | its inductive invariant, and that it implements `KeyStream` |
| `PadFrames` | external: the frames a touchpad sends, used by `Touchpad` and `DaemonPad` |
| `Touchpad` | the library's `process_absolute_event`, event by event: fingers, taps, clicks, pinches, DWT |
| `TouchpadProofs` | its inductive invariant: buttons, clicks, taps, DWT, the tracker and the pad; then the same of `DaemonPad` |
| `Contacts` | external: the same pad slot by slot, with coordinates |
| `Motion` | `process_absolute_event` once more: slot table, displacements, arithmetic |
| `MotionProofs` | its inductive invariant: the slot table and the pad, positions, pinches, rounding |
| `DeviceConfig` | the configuration options of a device object: defaults, setters, getters |
| `EventAccessors` | which conversion and which accessors answer for an event |
| `Pipeline` | `drain_into_queue` over a keyboard, mice and touchpads with a client that configures and reads; all of `process_relative_event` |
| `PipelineProofs` | its inductive invariant: no input lost, copies, visits; settings, disable-while-typing, event families |
| `DaemonPad` | the daemon's `DeviceWrapper::process_event` for a touchpad, with writes that fail |
| `DaemonKeys` | the same for keyboards, with the typing time and the reset of `run()` |
| `DaemonKeysProofs` | its inductive invariant: modifier flags, the reset and the typing time |
| `DaemonLoop` | `run()` and `try_open_device`: scan, watch, poll, hotplug, batches |
| `DaemonLoopProofs` | its inductive invariant: nodes, tokens, and no blocking read |
| `DeviceStream` | abstract: the life of a device object |
| `Hotplug` | opening, reading and removing devices in the library, with inotify and udev |
| `HotplugProofs` | its inductive invariant, and that it implements `DeviceStream` |
| `Context` | the C API around one context: references, queue, path API |
| `ContextProofs` | its inductive invariant: pointers stay valid, removals are told; the order of what is told |
| `MC...` | small instances for TLC |

An operator whose comment says "fault" is not part of a specification:
it is a plausible bug in the definition that follows it, kept to show that a
property notices it.

### Keyboard
State: the kernel (`down`, `softrep`, `pending`, `plugged`), `BackendState`
(`tracked`, `held`, `typing`), the locals of `drain_into_queue` (`draining`,
`fds`, `cur`, `left`, `dead_fds`) and a history of what the client was told
(`sent`, `since`).  `Dispatch` is the start of a drain with `emit_key_repeats`,
`Fetch(d)` one `fetch_events`, `ProcessKeyboardEvent` one iteration of the event
loop with `KeyDown`, `KeyUp` or `KernelRepeatDropped`, `RemoveDead(d)` one
iteration of the removal loop, `EndDrain` the return.  A drain is not atomic:
the kernel and the clock act between its steps.  An `Instant` is its age in
ticks, capped at the largest delay it is compared with.  The kernel's software
autorepeat is part of the model because it decides whether the compositor wakes.

### PadFrames and Touchpad
State: the pad (`contacts`, `pressed`, `frame`), the fields of `TrackedDevice`
that decide anything, the configuration, the typing age, and a history.
`Frame` sends a whole frame in the kernel's order, with the physical button
before or after the touch events; the handlers then take one event each:
`MtSlots`, `TouchDown`, `TouchUp`, `ToolTap`, `PhysicalButton`, `AbsAxis`,
`SynReport`.  The evdev crate hands out whole frames and the code reads the
configuration and the typing time once per batch, so `KeyTyped` and `Configure`
fall between frames; `Tick` may fall within one.  Contacts are counted, because
the code asks the MT slots only how many are active and, for a pinch, whether
two exist (`HasDistance`); a displacement is zero or not.  The device starts
untouched.  `skipped` remembers that several fingers lifted in one frame: each
falling `BTN_TOOL_*` bit then means "one finger fewer", and the finger count is
wrong for the rest of the touch; `ClickMatchesFingers` says what holds otherwise,
for up to four fingers: the code follows no `BTN_TOOL_QUINTTAP`.

### Contacts and Motion
`Motion` has the half of `process_absolute_event` that `Touchpad` abstracts.
`Contacts` sends frames as the kernel does: per slot that changed `ABS_MT_SLOT`
(unless it was named last), tracking id and the coordinates that differ, then
`BTN_TOUCH` and the `BTN_TOOL_*` bits, then `ABS_X` and `ABS_Y` of the oldest
contact.  `frame` has these in groups, one for each slot that changed and one for
the pad; a handler takes one event (`Takes`), and a group only says whose events
they are, which the device sees from `ABS_MT_SLOT`.  State: `mt_slots`, `current_slot`, `last_x/y` (`last`),
`current_dx/dy` (`current`), `remainder_x/y` (`remainder`), the pinch and its
base; each handler has an action, and `SynReport` one disjunct per way out of
it.  The code computes in `f32`; the model in exact fractions of `Den`, so
that conservation is a statement about the algorithm and not about float
rounding.  A pinch carries the squares of its two distances, since the code
sends their ratio.  Whether DWT is active, natural scrolling and the
acceleration are chosen anew at each report.  `debt` counts what was to be sent
minus what was sent; `strayed` is set when a contact's events go to another
slot's entry: beyond the table, or because the pad was opened while the kernel's
current slot was not 0 (line 134 of `backend.rs` assumes it is).

### DeviceConfig, EventAccessors and Pipeline
The first two have no state.  `Option` collects the `Groups` that the functions
of `lib.rs` form; it says of each option whether it is a field
of `LibinputDevice` (`Stored`, with what `LibinputDevice::new` puts there and
what the getter of the default answers), a setter that succeeds and keeps
nothing (`Accepted`), or one that fails (`Refused`).  `FamilyTypes` and
`Accessor` say which events the six `libinput_event_get_..._event` convert and
for which payloads each accessor answers.  Null pointers are left out.

`Pipeline` composes them with a drain.  State: kernel queues, the settings of
each device object, `global_typing_time`, the locals of `drain_into_queue` with
the copies `cfg_*` and `global_typing` it makes before a batch (`cfg`, `typed`).
`Dispatch` opens what was plugged in, `Visit(d)` is one `fetch_events` with its
copies, `ProcessEvent` one event on the path of its device (`Route`), `EndDrain`
the removals.  `Configure` is any setter.  A drain visits each device once, so
that what the kernel does while it runs could as well happen before or after it:
the kernel acts between drains and a batch is any beginning of a queue.  Of a
touchpad only what the copies decide is left; its frames are `Touchpad`'s and
`Motion`'s.  `owed` is the sequence of what the client is still to be told of a mouse: each
event of the kernel adds its `Effect`, each event the client can read takes its
own (`Tells`) from the front.

### DaemonPad
The daemon's older copy of the same pipeline, without pinches, slots and the
fourth finger.  Every `emit_raw()?` may fail: `Emit(s, n)` makes all but the
last `n` writes of a handler, and what the code does after the failed one does
not happen.  An emit writes its event and a report of its own, so the event of
the failed one may have been written.  `lost` and `failed` are history; they
bound what a failure may spoil: nothing beyond the touch it happened in, except
the buttons whose writes were lost.  `touch_start` may outlive its touch after a
tap that could not be written, `moved` a report of which more than the closing
`SYN_REPORT` was not, but then never its touch.  `ClickMatchesFingers` is of up to three
contacts, in the property as in the run: the wrapper follows no bit of four
fingers, and counts two when a fourth lands on three.

The typing time that DWT is measured from is shared by all devices, and the
module has the keyboards for it: `last_typing_time` of each wrapper and `typing`,
the `last_global_typing_time` of `run()`.  After every event of a keyboard that was
ever typed on, its own time replaces the shared one (`ShareTime`): a press or a
repeat makes both zero (`KeyTyped`), any other event may put an older time in the
place of a newer one (`KeyReleased`).  DWT can therefore end while a touch lasts, and a
touch that was typed over on one keyboard may then tap after a release on
another.  `NoTapAfterTravelOrTyping` says what the code keeps: no tap after travel, and none
while the time of a keyboard typed on during the touch is still the shared one.

### DaemonLoop
State: the kernel (devices behind nodes, queues, inotify, epoll's edges) and
`run()` (token map, next token, what poll returned, names still to open).
`PollReturns` reports an edge once and only if something is readable then;
`Fetch(t)` reads one batch, `Disconnected(t)` finds ENODEV, `ReadNotices` reads
inotify, `OpenName` is one iteration over its names and `Scan`, `EndNames`,
`AddWatch` the start.  A hotplugged device whose file epoll refuses has used up
its token and is closed again (`Unregistered`).  A token is used up for a name at
most, and a node is named twice each time it is plugged in, which bounds `Token`:
`TokensAreNamed` adds up the tokens, the names in both lists and the permissions
not set yet.  The files are read in blocking mode: a read that finds nothing has no
step, and would stop the loop.

### DaemonKeys
State: keys held and queued frames per keyboard, `ctrl_pressed`, `alt_pressed`
and `last_typing_time` of each wrapper, `last_global_typing_time`, the batch in
hand, `trigger_reset` and `RESETTING`.  `ProcessEvent` is one iteration of the
batch loop with `process_event`, `EndBatch` the swap of `RESETTING`, `ResetDone`
the end of the detached thread, `Reopened` a replug.  Keys may be held when the
daemon starts.

### Context
State: reference counts, the objects made and freed, the queue, the device
objects the backend maps to, and what the client owns, knows, holds and was
told.  `libinput_dispatch` is one step here (its inside is `Hotplug`): new
devices, input, removals, in this order; a keyboard that the same call removes may
still have sent a repeat.  The client is a correct one: it uses
what it was given while the context exists, drops only references it took, and
drops them before the context's last.

### Hotplug
State: what is behind each node (`present`, by incarnation), which nodes udev
has made accessible, the inotify queue, the map of fds, the number of device
objects, and the locals of a drain or a scan.  `AssignSeat` scans the directory;
`Dispatch` reads the inotify queue, `FilterName` is one iteration of the loop of
`handle_hotplug`, `StartOpening`, `TryOpen`, `StartReading`, `Fetch`,
`RemoveDead` and `EndDrain` the rest of the call in the code's order; `Plug`,
`Chmod`, `Unplug` are the kernel and udev.  Opening fails when
the node is gone, and may fail when udev is not done, when the same client
already has the device, or when there is no fd.  Closing an fd is one step:
that the code closes it twice matters only to other threads of the client,
which are not modelled.

## 3. Runs

| Run | Instance | Shows |
|---|---|---|
| `keyboard_one` | 1 keyboard, 2 keys, batches of 2, queue of 3, delay 2, interval 1, fairness | `KeyboardInv` (with `TypeOK` and `HeldMatchesSent`), `ClientCatchesUp`, refinement of `KeyStream`; `NoStuckKey`, `UnpluggedIsRemoved`, `AutorepeatedKeyRepeats` |
| `touchpad_safety` | 3 fingers that land and lift in any number, 2 buttons, DWT switched between frames | `TouchpadInv` (`TypeOK`, `FrameOK`, `InOrder`, `TrackerFollowsPad`, `FingersTold`, `ButtonsBalanced`, `TapIsRuledOut`), `ClickMatchesFingers`, `NoTapAfterTravelOrTyping`, `DwtStopsMotion` |
| `touchpad_pinch` | 3 fingers | fails: `PinchBeginsWithTwoFingers` |
| `motion` | 3 slots of which the table has 2, two places per slot, 2 slots change per frame, scales 0.18 and 0.02 | `MotionInv` (`TypeOK`, `ContactsOK`, `TableFollows`, `PositionsFollow`, `PinchFollows`), `NothingLostByRounding`, `SlotTableAgrees`, `MovesWithOldest`, `PinchIsMeasured` |
| `pipeline` | a keyboard, a mouse, a pad that is replugged and has its taps, scrolling, DWT and acceleration set; queues of 1, 2 and 2 | `PipelineInv` (with `NothingLost`), `OneFamilyAnswers`, `DwtMutesPad`, `SettingsInEffect`, `EveryDeviceIsServed` |
| `pipeline_axes` | same | fails: `ScrollHasItsAxis` |
| `daemon_pad` | 3 fingers, the physical left button, 2 keyboards that are alike, one axis, any write may fail | `TouchpadInv` (with `MotionIsLast` and what failed writes lose), and the other three for the daemon |
| `daemon_loop` | a keyboard with a queue of 3 and a pointer with one of 1 that epoll may refuse, batches of 2, 3 plugs, 2 names in the inotify queue, fairness | `TypeOK`, `LoopInv` (with `OnePerNode`, `ReportedIsReadable`), `TokenKeepsDevice`, `DeadIsRemoved`, `FreshNodeIsOpened`, `SmallBacklogForwarded` |
| `daemon_keys` | 2 keyboards with 3 keys and 1, batches of 2, 2 frames queued in all | `KeysInv` (with `TypeOK`, `StreamsFit` and `ModifiersAreHeld`), `TypingIsLatest`, `ResetNeedsChord` |
| `hotplug_one` | 1 node, 3 incarnations, 2 fds, fairness | `HotplugInv` (with `TypeOK` and `AnnouncedIsTracked`), refinement of `DeviceStream`; `DeadIsRemoved`, `FreshNodeIsOpened` |
| `hotplug_replug` | 1 node, 2 incarnations | fails: `PluggedIsOpened` |
| `context_api` | 2 device objects, queue of 4, one event held | `ContextInv` (with `References`, `RemovalIsTold`), `PointersValid`, `LivesInOrder` |

The failing runs are disagreements between the code and what its README or
comments say; `findings` in `PROJECT.json` quotes both sides.

Bounds.  Times keep their order, not their size: delay > interval.  A tap lasts
one tick and DWT two in `touchpad_safety`, the ratio of their 250 and 500 ms, so
that either may expire while the other runs; one tick each in `daemon_pad`,
whose failing writes and two keyboards multiply its states: a time there is
running or over, which is what setting it back changes.  Its physical button is
the left one, the only one that is remapped; the right one is forwarded like
anything else, and the theorems are of both.  Its keyboards are interchangeable in
every definition, and the run checks safety only, so that symmetry is sound.
Batches of two from a queue of two or three make batches end between a press and
its release and leave events behind, which is all that the batch size of 32
does.  One keyboard and one node are enough for `keyboard_one` and
`hotplug_one`, because their safety properties are proved for any number (section
4); three incarnations and two fds make a node be opened twice, fail for want of
an fd and reuse fd numbers.  Three fingers reach every branch on the finger
count (`BTN_TOOL_QUADTAP` differs from `TRIPLETAP` by one only).  `daemon_loop`
has both kinds of device, and an inotify queue that holds two names, of one node
or of both (only pointers are grabbed, which may fail), and three
plugs let one node be replugged while the other is there.  The keyboard's queue
holds three frames and a batch two: a frame may come between poll's report and the
read, and more than a batch may wait, which the premise of `SmallBacklogForwarded`
excludes; without the premise the property fails of this run.  The pointer, of
which epoll may refuse the file (`Unregistrable`), sends one frame at a time and is
plugged in twice at most (`LastPlug`).  The daemon's reset
chord needs one key of each kind; that one flag stands for two keys is covered by
the theorems of `DaemonKeysProofs`, which are of any keys, and not by the run.  In `motion` three contacts on three
slots reach one pointing, two scrolling, three swiping and a pinch whose
contacts are not the oldest; a table of two instead of ten slots is too small
for the pad as the real one may be; one frame after a slip (`MaxAstray`) is
enough for its effect to show.  Displacements of 25 and 20 units times 9/50 or
1/50 leave every kind of rest: below, at and above a half.  In `pipeline`, queues
of two let a batch end between two events, and three devices let one be read
before and one after another; the client sets each option that a batch copies, the
acceleration beyond its range.

Fairness (`FairSpec`).  The compositor dispatches when the epoll fd is readable,
which is what a compositor's main loop does, and a call runs to its end (one
thread, no blocking read).  The clock ticks and the kernel's autorepeat timer
fires.  Dispatching an fd that is not readable is never assumed.  The daemon is
one thread that runs whenever it has something to do (`WF_vars(Run)` in
`DaemonLoop`).  The properties of the pads, of `Motion`, `Pipeline`, `DaemonKeys`
and `Context` need no fairness: that a device is served is stated per drain.

## 4. Proofs

`KeyboardProofs` needs `KeyboardAssumption` only (delays, batch size and queue
bound are positive, `None` is neither a keyboard nor a key).  The inductive
invariant `KeyboardInv` is `TypeOK`, `HeldMatchesSent`, `GoneIsUntracked` and
`StreamsAlternate`.  The last is the strengthening: `HeldMatchesSent` alone is
not inductive, because a second press of a key in the queue would push a second
entry.  It says that the unprocessed presses and releases of a key, put between
what the client knows of it and whether it is down, form one alternating
sequence; the lemmas `Alternates...` show that appending to the queue, taking
its head and sending the head to the client keep it so.  One lemma per action
follows, then:

| Theorem | Shows |
|---|---|
| `KeyboardInvariant` | `Spec => []KeyboardInv` |
| `KeyboardTypes` | `TypeOK` |
| `HeldKeysAreTheClients` | `held_keys` is what the client holds, with its age |
| `NoKeyEventIsLost` | `ClientCatchesUp` |
| `KeyboardImplementsKeyStream` | `Spec => Refines`: every step is one of `KeyStream` or a stutter |

`HotplugProofs` needs `HotplugAssumption` (finitely many nodes; `None` is no
record).  `HotplugInv` is `TypeOK`, `AnnouncedIsTracked`, `ListsOfTheCall` and
`DeadStayDead`.  Removal sends the REMOVED of whatever the fd maps to, so that
agreement of map and client needs that an fd in `dead_fds` is open
(`TypeOK`), that no fd is opened or read again after it was judged
(`ListsOfTheCall`) and that what was found dead cannot come back to life by a
replug (`DeadStayDead`: incarnations only grow).

| Theorem | Shows |
|---|---|
| `RegistryInvariant` | `Spec => []HotplugInv` |
| `RegistryTypes` | `TypeOK` |
| `RegistryAgreesWithClient` | `AnnouncedIsTracked` |
| `RegistryImplementsDeviceStream` | `Spec => Refines` |

`DaemonLoopProofs` needs `DaemonLoopAssumption` (the two kinds of node are
disjoint and finitely many, the bounds are numbers and mostly positive, `Notices` and `None` are no
tokens).  `LoopInv` is the types it needs, `TokensBelowNext`,
`OnePerNode` and `ReportedIsReadable`.  A new device gets `next_token`, which no
tracked device has because all tokens are below it; a node that is tracked is not
opened again; and an event that poll() reported stays readable because only the
loop itself takes from a queue, and a device that was found gone, which also
counts as readable, cannot come back: a replug is another incarnation.

`TokensAreForNames` is an account: a plug earns two names, one when the node
appears (or is listed by the scan) and one when udev settles it.  The lemmas
`PlugIsCounted`, `ChmodIsCounted` and `ScanIsCounted` say where they go,
`NamesAreCounted` that looking at one costs a token at most, also if the device
cannot be registered, and `NothingNamed` serves all steps that name nothing.  As
no step earns more, `TokenIsLeft`: a name to be looked at finds `next_token` in
`Token`, so that this bound of the model hides nothing.

| Theorem | Shows |
|---|---|
| `LoopInvariant` | `Spec => []LoopInv` |
| `TokensAreForNames` | `TypeOK`, with `TokensAreNamed`: a token at most for each time a node is listed or named, twice a plug |
| `NodeIsOpenedOnce` | `OnePerNode` |
| `NoReadBlocks` | `ReportedIsReadable` |
| `TokensKeepDevices` | `TokenKeepsDevice`, a property of steps |

`ContextProofs` needs `ContextAssumption` (the bounds are positive).
`ContextInv` is `TypeOK`, `References` (a count is the client's references plus
one, so nothing is freed while the context exists), `OnlyOfMade`,
`RemovedIsLast` and `RemovalIsTold`.  The last is not inductive without
`RemovedIsLast`: if something were queued after a REMOVED, reading it would make
the client forget that the device is gone.  One lemma (`CallKeepsInv`) states when
what a call appends keeps the invariant; opening by path, by seat and the drain
are its three uses.  `LivesInOrder` is inductive with it, since a drain sends
input only of devices the backend has, and before their REMOVED: by `RemovalIsTold` nothing of them was
removed, and a new object is one of which nothing was told yet.

| Theorem | Shows |
|---|---|
| `ContextInvariant` | `Spec => []ContextInv` |
| `ContextTypes` | `TypeOK` |
| `OnlyTheContextFrees` | `ContextHoldsOne` |
| `NoDanglingDevice` | `PointersValid` |
| `RemovalsAreTold` | `RemovalIsTold` |
| `LivesAreInOrder` | `LivesInOrder` |

`DaemonKeysProofs` needs `DaemonKeysAssumption` (a keyboard has keys, the bounds
are positive, `None` is neither a keyboard nor a number).  `KeysInv` is `TypeOK`,
`StreamsFit` and `ModifiersAreHeld`.  A flag stands for a key that was held
before the frames still to be processed; for this to last when the next of them
is processed, a key that was pressed must be held by the frames after it, which
is `StreamsFit`.  The lemmas on `HeldFrom` and `Fits` say what appending a frame
and taking the head do, the lemmas `Unprocessed...` that each step of the model
does one of these to one keyboard.  `TypingInv` relates the shared typing time to
the time of the keyboard that typed last.

| Theorem | Shows |
|---|---|
| `KeysInvariant` | `Spec => []KeysInv` |
| `FlagsStandForKeys` | `ModifiersAreHeld` |
| `ResetsNeedTheChord` | `ResetNeedsChord`, a property of steps |
| `TypingTimeIsTheLatest` | `TypingIsLatest` |

`MotionProofs` needs `MotionAssumption` and `ContactsAssumption` (the pad has
finitely many slots, 0 among them, and whole coordinates; the table has at least
one slot, the denominator is positive, scales are natural numbers; `None` is no
number).  The number of slots on either side, the places, the scales and how much
changes in a frame are free.  `MotionInv` has four parts beyond types and
`NothingLostByRounding`:

- `ContactsOK` with `FrameOK`: what is left of a frame tells the truth (`Truths`),
  in the order of `Rank`, each group but the first beginning with its slot;
- `TableFollows`: of a slot of which no event is pending the table has the contact
  and its place, and the current slot is that of the first group once it was
  named.  Between frames this is `SlotTableAgrees`; it holds from slot event to
  slot event only because each goes to the entry of its own slot;
- `PositionsFollow`: an axis not yet reported in this frame is measured from where
  the oldest contact was before it (`last[a] = abs[a] - travel[a]`), unless it
  was forgotten; then the frame moves nothing along it, and the pause that made
  the code forget can have taken only the axis that came first (`Dropped`);
- `PinchFollows`: the base of the pinch is the distance at its BEGIN, when the
  table had the contacts of the pad.

That no two handlers disagree on which two contacts are "primary" needs the
lowest two of a finite set of numbers to be at most two and at least one
(`FirstTwoAreTwo`), and that a least number exists follows from well-founded
induction on the finite subsets (`LeastElement`).  `AtThePad` and `TakenAtPad`
say what is still pending while the pad's own events are processed, `Joined` that
a group that is used up leaves the next one first.

`RoundingInv` is the arithmetic by itself.  `RoundIsNear` says that rounding is
off by half a unit at most, `PaidForMotion` and `PaidForScroll` that the events of
a report move what was rounded, whatever natural scrolling turns, and
`RestIsDebt` that the rest kept is then what has not been sent.  The proof is of
the arithmetic the code means; the error of `f32` comes on top of it.

| Theorem | Shows |
|---|---|
| `MotionInvariant` | `Spec => []MotionInv` |
| `RoundingLosesNothing` | `NothingLostByRounding` |
| `SlotTableIsThePads` | `SlotTableAgrees` |
| `FramesMoveTheOldest` | `MovesWithOldest` |
| `PinchesAreMeasured` | `PinchIsMeasured`, a property of steps |

`TouchpadProofs` needs `PadAssumption` and `TouchpadAssumption` (there is room
for a finger; a tap may not last longer than DWT).  Between two frames the
tracker agrees with the pad and the client's buttons with those held; to be
inductive the invariant must say what holds within a frame.  `FrameOK` says what
the rest of a frame tells of the pad, `TrackerFollowsPad` that what it does not
tell of is settled, and `ButtonsBalanced` relates the client's buttons to
`Handled`, the buttons held before the rest of the frame.  `TapIsRuledOut` is for
the taps: `tap_emitted` remembers a travel, and a key typed during the touch is
not older than the touch, so that a touch short enough to tap finds DWT still
active; this is why the tap's timeout may not exceed DWT's.  These are
`TrackerInv`.  For the remapped clicks `FingersTold` is added, with `InOrder`:
`BTN_TOUCH` and the tool bits each set the count of fingers, most of them wrongly,
but they come in the order of `Rank`, and the last of them that a frame has
leaves the number of contacts there are; when none is left the count is right.
The lemmas on `Part`, `Body` and `Whole` say what a frame is made of,
`EventIsTaken` and `ButtonsTaken` what processing its head leaves.

| Theorem | Shows |
|---|---|
| `TouchpadInvariant` | `Spec => []TouchpadInv` |
| `TrackerAgreesWithPad` | `TrackerFollowsPad` |
| `ButtonsAreBalanced` | `ButtonsBalanced` |
| `ClicksAreOfFingers` | `ClickMatchesFingers`, a property of steps |
| `TapsAreStill` | `NoTapAfterTravelOrTyping`, a property of steps |
| `DwtStopsThePad` | `DwtStopsMotion`, a property of steps |

The theorems of `DaemonPad` are in `TouchpadProofs` as well, of its instance
`Daemon`: both backends are sent the frames of `PadFrames` (`SameFrames`,
`SameSteps`), so that the lemmas about frames serve both.  They are proved from
the same two assumptions, for any number of fingers, and for any values of the
daemon's settings.  The invariant has the parts of `Touchpad`'s and what failed
writes add to them:

- `ButtonsBalanced` is of the buttons whose writes all succeeded.  `Emit` cuts a
  sequence of writes off anywhere; `EmitWrites` says what is written and lost of
  any sequence, `QuietEmits`, `KeyEmits` and `TapEmits` what that does to the
  balance when it has no key, one, or the press and release of a tap;
- `TrackerFollowsPad` says that a displacement never outlives its touch, and
  outlives a frame only with `failed` and `tap_emitted`.  The `?` in the middle
  of `TouchUp` skips the line that clears the displacement; there is none to
  clear, since a tap is written only if `tap_emitted` is not set.  This
  needs that axes move last in a frame and only of a touched pad
  (`MotionIsLast`; `FrameMovesLast` proves it of what is sent);
- `TapIsRuledOut` is of the time of each keyboard typed on during the touch, which
  is not older than the touch, and not of the shared time, which may be older.
  `DaemonTapsAreStill` follows where the two are equal;
- `FingersTold` is of three fingers, as the daemon follows no fourth bit
  (`LastOfThreeTells`), and says nothing of a lifted pad once a tap was not
  written, where `touch_fingers` keeps the count of the touch that ended.

| Theorem | Shows, of `DaemonPad` |
|---|---|
| `DaemonPadInvariant` | `Spec => []TouchpadInv`, for any number of keyboards |
| `DaemonTapsAreStill` | `NoTapAfterTravelOrTyping`, a property of steps |
| `DwtStopsTheDaemonsPad` | `DwtStopsMotion`, a property of steps |
| `DaemonClicksAreOfFingers` | `ClickMatchesFingers`, a property of steps |

`PipelineProofs` needs `PipelineAssumption` (finitely many devices, each a
keyboard or a pointer; positive bounds; `None` is no device).  `PipelineInv` is
`TypeOK`, `NothingLost`, `CopiesAreCurrent` and `UnservedIsWaiting`.
`NothingLost` compares sequences: what the client is still to be told of a mouse
is the `Effect` of each event of the batch in hand followed by those of the
queue.  The lemmas `Effects...` and `Joined` say what appending an event, cutting
a batch off and processing its head do to that; `MouseTells` that each event of a
mouse makes exactly the one event that tells of it, through the accessors of
`EventAccessors`.  A pad tests the copy of the typing time that was made before
its batch, so `DwtMutesPad` compares two ages: that of the copy, and that of the
last key the client had been told of at the same moment.  `PressedIsKey` says
that only an event which resets the shared time tells the client of a press,
hence the shared time is never the older of the two; copying and ageing keep the
order.  `SettingsInEffect` follows from the copies (`cfg` is `ConfigOf` of the
settings of the device in hand, since no setter runs inside a drain) and from
`OptionsKept` and `SetKeepsTypes`: a pad obeys fields of its own, and setters keep
values within the option's range.  That a drain
serves everyone needs that a device with events can only be one it opened before
it began to visit.

| Theorem | Shows |
|---|---|
| `PipelineInvariant` | `Spec => []PipelineInv` |
| `SettingsTakeEffect` | `SettingsInEffect`, a property of steps |
| `EveryDeviceGetsItsTurn` | `EveryDeviceIsServed`, a property of steps |
| `TypingMutesPads` | `DwtMutesPad`, a property of steps |
| `OneFamilyIsEnough` | `OneFamilyAnswers` |

Model-checked only: everything under fairness (`NoStuckKey`,
`UnpluggedIsRemoved`, `AutorepeatedKeyRepeats`, `DeadIsRemoved`,
`FreshNodeIsOpened`, `SmallBacklogForwarded`), because liveness and ENABLED are
out of the prover's reach.  Every other property of a passing run is a theorem.

## 5. Limits

- `evdev`, `nix` and the kernel are external: queues, `ENODEV`, lowest free fd,
  inotify.  Queue overflow (`SYN_DROPPED`, `IN_Q_OVERFLOW`) is not modelled.
- Every key is up for the client when a keyboard is opened; keys that are down
  then are in `Init` (their RELEASED comes without a PRESSED, as in the code).
- A touchpad is opened untouched.  `BTN_TOOL_FINGER` and unknown keys change no
  state and are left out.  A frame's slot events are one step.
- `Pipeline` has pure keyboards, mice and pads.  Floating point is exact in
  `Motion`; the angle of a pinch is left out there and everywhere.
- The daemon's loop and its pipelines are separate modules: that a device
  unplugged with a button held leaves the virtual button pressed is not seen.
  Errors of poll() (a signal ends the daemon) are not modelled, nor is a device of
  the scan that epoll refuses, which ends the daemon as well.
- `Context` has no callbacks of the client under the mutex, and no client that
  uses what it gave back.  `libinput_path_remove_device`, `libinput_suspend` and
  `libinput_resume` change nothing the models have.
- Known and not kept as a run, of the library: clicks and PINCH_BEGIN pass
  while DWT is active; a click after several fingers lifted in one frame may be
  remapped wrongly, and five fingers that replace one count as one for a click
  (in the daemon a fourth finger on three makes two);
  a pinch that moved may end in a tap; `PINCH_END` carries
  scale 1.0 when all fingers lift in one frame, where the README promises the
  final scale; a late dispatch sends one repeat for a key whose release is still
  in the kernel queue, and a held key stops repeating once the kernel's own
  autorepeat has moved to another key, since nothing else wakes the compositor;
  a node whose IN_CREATE and IN_ATTRIB are read together is opened twice unless
  the second open fails.  A pad that is opened while the kernel's current slot is
  not 0 is tracked in the wrong slot until the kernel names one.
- Known, of the configuration: `left_handed`, `scroll_method`, `click_method`,
  `middle_emulation`, `tap_button_map`, `accel_profile` and the calibration are
  stored, read back and never used; a mouse ignores natural scrolling and
  acceleration; the getter of the default of natural scrolling answers 0 although
  a new device has it on; acceleration -1 makes the factor 0 and the pad still.
- Known, of classes: a keyboard that also has relative axes loses its motion, one
  that has absolute axes its keys, because `drain_into_queue` (371-391) picks one
  path for all events of a device.
- Known, of the daemon: `run()` reads one batch per edge of epoll, so that what a
  device sent beyond a batch waits until it sends again; a release on one
  keyboard sets the shared typing time back to that keyboard's own last press, so
  that DWT ends early, within a touch too, and a touch that was typed over may
  tap; a hotplugged device that could not be registered is tried again only if its
  node is named again; devices plugged in between the scan and the watch wait for
  udev to touch them again.
- Device classification (`is_keyboard`, `is_pointer`, `is_absolute`) is fixed.

## 6. Plan

Done: the modules of section 2 and the proofs of section 4.  Next, in this
order:

1. The daemon's loop and its pipelines composed, for a device that is unplugged
   while a button is held.
2. Callbacks of the client under the mutex, and other threads of the client
   between the two closes of an fd.

Not modelled and not planned: entry points that return a constant, seat names
and logging, which touch nothing the event path reads; the configuration file,
which is read once; build files and vendored crates.
