------------------------------- MODULE DaemonPad -------------------------------
(***************************************************************************)
(* DeviceWrapper::process_event (src/device.rs) for a touchpad: the        *)
(* daemon's pipeline from the pad's frames to the events it writes to its  *)
(* uinput device.  Every write may fail, and a failed write ends the       *)
(* handling of the event at once (`?`); the event loop logs it and goes    *)
(* on.                                                                     *)
(*                                                                         *)
(* Contacts, displacements and instants are abstracted as in Touchpad.     *)
(***************************************************************************)
EXTENDS PadFrames, FiniteSets

CONSTANTS
  TapTimeout,     \* the 250 ms a tap may last, in ticks
  DwtTimeout,     \* the 500 ms of disable-while-typing, in ticks
  tap_to_click, disable_while_typing,   \* InputConfig, read at start
  EmitMayFail,    \* writes to uinput may fail
  Keyboards,      \* wrappers of keyboards; one opened anew is another
  None

ASSUME DaemonPadAssumption ==
  /\ TapTimeout \in Nat \ {0}
  /\ DwtTimeout \in Nat /\ TapTimeout <= DwtTimeout
  /\ {tap_to_click, disable_while_typing, EmitMayFail} \subseteq BOOLEAN
  /\ None \notin Button \cup Nat

VARIABLES
  \* DeviceWrapper
  touch_active,
  touch_fingers,
  known,             \* which of last_x, last_y is Some
  moved,             \* current_dx # 0 \/ current_dy # 0
  tap_emitted,
  touch_start,       \* age of touch_start_time, or None
  active_click_button,
  \* DeviceWrapper, of the keyboards
  last_typing_time,  \* its age, or None; DwtTimeout: expired
  \* event_loop::run
  typing,            \* age of last_global_typing_time; DwtTimeout also for None
  \* history
  out,               \* what the last step wrote to uinput
  balance,           \* presses minus releases written, per button
  lost,              \* buttons of which a press or release could not be written
  failed,            \* a write failed since the last touch began
  travelled,         \* motion or a wheel step was written during this touch
  typed_on           \* keyboards on which a key was typed during this touch

wrapperVars == <<touch_active, touch_fingers, known, moved, tap_emitted,
                 touch_start, active_click_button>>
typingVars == <<last_typing_time, typing>>
historyVars == <<balance, lost, failed, travelled, typed_on>>
vars == <<contacts, pressed, frame, skipped, touch_active, touch_fingers,
          known, moved, tap_emitted, touch_start, active_click_button,
          last_typing_time, typing, out, balance, lost, failed, travelled, typed_on>>

dwt_active == disable_while_typing /\ typing < DwtTimeout

Init ==
  /\ PadInit
  /\ touch_active = FALSE
  /\ touch_fingers = 0
  /\ known = {}
  /\ moved = FALSE
  /\ tap_emitted = FALSE
  /\ touch_start = None
  /\ active_click_button = None
  /\ last_typing_time = [k \in Keyboards |-> None]
  /\ typing = DwtTimeout
  /\ out = <<>>
  /\ balance = [b \in Button |-> 0]
  /\ lost = {}
  /\ failed = FALSE
  /\ travelled = FALSE
  /\ typed_on = {}
-----------------------------------------------------------------------------
Aged(age, limit) == IF age \in {None, limit} THEN age ELSE age + 1

Tick ==
  /\ touch_start' = Aged(touch_start, TapTimeout)
  /\ typing' = Aged(typing, DwtTimeout)
  /\ last_typing_time' =
       [k \in Keyboards |-> Aged(last_typing_time[k], DwtTimeout)]
  /\ out' = <<>>
  /\ UNCHANGED <<padVars, touch_active, touch_fingers, known, moved,
                 tap_emitted, active_click_button, historyVars>>

\* The keyboard just read gives its time to all devices.
ShareTime(k) ==
  /\ typing' = last_typing_time'[k]
  /\ out' = <<>>
  /\ UNCHANGED <<padVars, wrapperVars, balance, lost, failed, travelled>>

\* One event of keyboard k, between two frames of the pad: a press or repeat.
KeyTyped(k) ==
  /\ frame = <<>>
  /\ last_typing_time' = [last_typing_time EXCEPT ![k] = 0]
  /\ typed_on' = IF touch_active THEN typed_on \cup {k} ELSE typed_on
  /\ ShareTime(k)

\* A release, or an event of no key: k's own time, which may be older than the
\* shared one, replaces it.  A keyboard never typed on has none to give.
KeyReleased(k) ==
  /\ frame = <<>>
  /\ last_typing_time[k] # None
  /\ UNCHANGED <<last_typing_time, typed_on>>
  /\ ShareTime(k)

PadFrame ==
  /\ Frame
  /\ out' = <<>>
  /\ UNCHANGED <<wrapperVars, typingVars, historyVars>>
-----------------------------------------------------------------------------
(* process_event *)

Key(b, value) == [type |-> "button", button |-> b, state |-> value]
Written(type) == [type |-> type, button |-> None, state |-> 0]
Syn == Written("syn")

Consumes(code, V) == Takes(code, V) /\ UNCHANGED typingVars

Muted == tap_emitted \/ dwt_active

\* emit_raw()?, once for each of the events s; the last n did not succeed.  An
\* emit writes its event and a report of its own, either of which may fail, so
\* the first of the n may have been written.
Emit(s, n) ==
  LET Count(b, v) ==
        Cardinality({i \in DOMAIN out' : out'[i].button = b /\ out'[i].state = v})
  IN  /\ n \in 0..Len(s)
      /\ n = 0 \/ EmitMayFail
      /\ \E written \in Len(s) - n..Len(s) - n + Bit(n > 0) :
           /\ out' = SubSeq(s, 1, written)
           /\ lost' = lost \cup
                        ({s[i].button : i \in (written + 1)..Len(s)} \ {None})
      /\ balance' = [b \in Button |-> IF b \in lost' THEN 0
                                      ELSE balance[b] + Count(b, 1) - Count(b, 0)]

EmitNothing == Emit(<<>>, 0)

\* BTN_TOUCH 1
TouchDown ==
  /\ Consumes("touch", {1})
  /\ touch_active' = TRUE
  /\ touch_start' = 0
  /\ tap_emitted' = FALSE
  /\ touch_fingers' = 1
  /\ known' = {}
  /\ EmitNothing
  /\ failed' = FALSE
  /\ travelled' = FALSE
  /\ typed_on' = {}
  /\ UNCHANGED <<moved, active_click_button>>

\* Fault: tap_emitted and DWT are not consulted.
TapsUnmuted == tap_to_click /\ touch_start # None /\ touch_start < TapTimeout

\* A tap of any number of fingers.
Taps == tap_to_click /\ ~Muted /\ touch_start # None /\ touch_start < TapTimeout

TapEvents == IF Taps THEN <<Key("left", 1), Syn, Key("left", 0)>> ELSE <<>>

\* BTN_TOUCH 0; a tap that cannot be written leaves the touch as it is.
TouchUp ==
  /\ Consumes("touch", {0})
  /\ touch_active' = FALSE
  /\ tap_emitted' = Muted
  /\ \E n \in 0..3 :
       /\ Emit(TapEvents, n)
       /\ IF n > 0
          THEN failed' = TRUE /\ UNCHANGED <<known, moved, touch_start,
                                             touch_fingers>>
          ELSE /\ known' = {}
               /\ moved' = FALSE
               /\ touch_start' = None
               /\ touch_fingers' = 0
               /\ UNCHANGED failed
  /\ travelled' = FALSE
  /\ typed_on' = {}
  /\ UNCHANGED active_click_button

ToolFingers(n, v) == IF v = 1 THEN n ELSE n - 1

\* BTN_TOOL_DOUBLETAP and TRIPLETAP
ToolTap ==
  /\ \E n \in 2..3 :
       /\ Consumes(<<"doubletap", "tripletap">>[n - 1], {0, 1})
       /\ touch_fingers' = ToolFingers(n, Head(frame).value)
  /\ tap_emitted' = Muted
  /\ EmitNothing
  /\ UNCHANGED <<touch_active, known, moved, touch_start, active_click_button,
                 failed, travelled, typed_on>>

\* Other keys, and the multi-touch axes.
Ignored ==
  /\ Consumes("quadtap", {0, 1}) \/ Consumes("mt", 0..MaxFingers)
  /\ tap_emitted' = Muted
  /\ EmitNothing
  /\ UNCHANGED <<touch_active, touch_fingers, known, moved, touch_start,
                 active_click_button, failed, travelled, typed_on>>

ClickButtonOffByOne == CASE touch_fingers > 2 -> "middle"  \* fault: > for =
                         [] OTHER -> "left"

ClickButton == CASE touch_fingers = 2 -> "right"
                 [] touch_fingers = 3 -> "middle"
                 [] OTHER -> "left"

ReleasedButton == active_click_button

\* The physical button: which one is meant is noted before it is written.
PhysicalButton ==
  /\ \E b \in Button, n \in {0, 1} :
       /\ Consumes(b, {0, 1})
       /\ LET v == Head(frame).value IN
          \/ /\ b = "left" /\ v = 1
             /\ active_click_button' = ClickButton
             /\ Emit(<<Key(ClickButton, 1)>>, n)
          \/ /\ b = "left" /\ v = 0 /\ active_click_button # None
             /\ active_click_button' = None
             /\ Emit(<<Key(ReleasedButton, 0)>>, n)
          \/ /\ b # "left" \/ (v = 0 /\ active_click_button = None)
             /\ Emit(<<Key(b, v)>>, n)
             /\ UNCHANGED active_click_button
       /\ failed' = (failed \/ n > 0)
  /\ tap_emitted' = Muted
  /\ UNCHANGED <<touch_active, touch_fingers, known, moved, touch_start,
                 travelled, typed_on>>

\* ABS_X, ABS_Y: after 50 ms without either, both positions are forgotten.
AbsAxis ==
  /\ \E axis \in {"x", "y"}, stalled \in BOOLEAN :
       LET before == IF stalled THEN {} ELSE known IN
       /\ Consumes(IF axis = "x" THEN "abs_x" ELSE "abs_y", {0})
       /\ IF axis \in before THEN moved' \in BOOLEAN ELSE UNCHANGED moved
       /\ known' = before \cup {axis}
  /\ tap_emitted' = Muted
  /\ EmitNothing
  /\ UNCHANGED <<touch_active, touch_fingers, touch_start, active_click_button,
                 failed, travelled, typed_on>>

\* What a displacement may round to: motion of one finger, a wheel step of
\* two, nothing of more.
Pulses ==
  CASE touch_fingers <= 1 -> {<<>>, <<"rel_x">>, <<"rel_y">>, <<"rel_x", "rel_y">>}
    [] touch_fingers = 2 -> {<<>>, <<"wheel">>}
    [] OTHER -> {<<>>}

\* SYN_REPORT under DWT: the displacement is dropped.
SynTyped ==
  /\ dwt_active
  /\ moved' = FALSE
  /\ tap_emitted' = TRUE
  /\ \E n \in {0, 1} :
       /\ Emit(IF moved THEN <<Syn>> ELSE <<>>, n)
       /\ failed' = (failed \/ n > 0)
  /\ UNCHANGED travelled

MovesTyped == moved                               \* fault: DWT forgotten
Moves == moved /\ ~dwt_active

\* The displacement outlives a report of which n writes were not made unless
\* only the closing SYN_REPORT is missing.
KeptForEver(n) == TRUE                            \* fault: never cleared
Kept(n) == n > 1

\* SYN_REPORT with a displacement
SynMotion ==
  /\ Moves
  /\ tap_emitted' = TRUE
  /\ \E pulses \in Pulses, n \in 0..3 :
       LET s == [i \in 1..Len(pulses) |-> Written(pulses[i])] \o <<Syn>> IN
       /\ Emit(s, n)
       /\ moved' = Kept(n)
       /\ travelled' = (travelled \/ \E i \in DOMAIN out' : out'[i] # Syn)
       /\ failed' = (failed \/ n > 0)

\* SYN_REPORT without
SynStill ==
  /\ ~dwt_active
  /\ ~moved
  /\ tap_emitted' = Muted
  /\ \E n \in {0, 1} : Emit(<<Syn>>, n) /\ failed' = (failed \/ n > 0)
  /\ UNCHANGED <<moved, travelled>>

SynReport ==
  /\ Consumes("syn", {0})
  /\ SynTyped \/ SynMotion \/ SynStill
  /\ UNCHANGED <<touch_active, touch_fingers, known, touch_start,
                 active_click_button, typed_on>>

Process == TouchDown \/ TouchUp \/ ToolTap \/ Ignored \/ PhysicalButton
             \/ AbsAxis \/ SynReport

Next == PadFrame \/ Process \/ Tick
          \/ \E k \in Keyboards : KeyTyped(k) \/ KeyReleased(k)

Spec == Init /\ [][Next]_vars
-----------------------------------------------------------------------------
(* Properties *)

TypeOK ==
  /\ contacts \in 0..MaxFingers
  /\ pressed \subseteq Button
  /\ touch_active \in BOOLEAN
  /\ touch_fingers \in 0..3
  /\ known \subseteq {"x", "y"}
  /\ moved \in BOOLEAN
  /\ tap_emitted \in BOOLEAN
  /\ touch_start \in {None} \cup 0..TapTimeout
  /\ active_click_button \in Button \cup {None}
  /\ last_typing_time \in [Keyboards -> {None} \cup 0..DwtTimeout]
  /\ typing \in 0..DwtTimeout
  /\ balance \in [Button -> {0, 1, 2}]
  /\ lost \subseteq Button
  /\ {failed, travelled} \subseteq BOOLEAN
  /\ typed_on \subseteq Keyboards

\* What the rest of a frame does not change is settled: the tracker agrees with
\* the pad, and a write that failed has no effect on it beyond the next touch.  A
\* displacement never outlives its touch, and outlives a frame only if it could
\* not be written.
TrackerFollowsPad ==
  /\ ~Unread("touch") => (touch_active <=> contacts > 0)
  /\ ~failed => (touch_start # None <=> touch_active)
  /\ moved => touch_active
  /\ moved /\ (frame = <<>> \/ Unread("touch")) => failed /\ tap_emitted

\* Whatever the fingers did between a press and its release, the virtual
\* device has seen one more press than releases exactly for each physical
\* button still held, of those whose writes all succeeded.
ButtonsBalanced ==
  /\ active_click_button # None <=> "left" \in Handled
  /\ \A b \in Button :
       balance[b] = IF b \in lost THEN 0
                    ELSE Bit(active_click_button = b) + Bit(b # "left" /\ b \in Handled)

\* What keeps a touch from being a tap lasts until it ends: the flag if it
\* travelled; of each keyboard typed on meanwhile, its time or else the age of
\* the touch.
TapIsRuledOut ==
  /\ travelled => tap_emitted
  /\ touch_start \in 0..TapTimeout - 1 =>
       \A k \in typed_on : last_typing_time[k] \in 0..touch_start

\* The events process_event follows: the last one of a frame leaves the count of
\* up to three fingers right, unless several lifted at once or the end of the
\* last touch could not be written.
Followed == {"touch", "doubletap", "tripletap"}

FingersTold ==
  (~skipped /\ contacts <= 3 /\ (failed => contacts > 0)) =>
    /\ (\A i \in DOMAIN frame : frame[i].code \notin Followed) => touch_fingers = contacts
    /\ \A i \in DOMAIN frame :
         (/\ frame[i].code \in Followed
          /\ \A j \in DOMAIN frame : frame[j].code \in Followed => j <= i)
           => ToolFingers(Rank[frame[i].code], frame[i].value) = contacts

\* What holds of the tracker and of the client's buttons, inductive, and with it
\* what holds of the count of fingers.
TrackerInv ==
  TypeOK /\ FrameOK /\ InOrder /\ MotionIsLast /\ TrackerFollowsPad
    /\ ButtonsBalanced /\ TapIsRuledOut
TouchpadInv == TrackerInv /\ FingersTold

\* Comment device.rs:181, "map physical clickpad clicks to right/middle click
\* based on finger count".  As in Touchpad, unless several fingers lifted in one
\* frame, or a tap that failed was the last the pad saw.  A fourth finger is
\* outside the claim: it clears BTN_TOOL_TRIPLETAP and sets a bit process_event
\* does not follow, and the wrapper then counts two.
ClickMatchesFingers ==
  [][(/\ frame # <<>> /\ Head(frame) = Event("left", 1) /\ ~skipped
      /\ contacts <= 3
      /\ failed => contacts > 0
      /\ \A i \in 1..Len(frame) :
           frame[i].code \in {"left", "abs_x", "abs_y", "syn"})
     => \A i \in 1..Len(out') :
          out'[i].button = CASE contacts = 2 -> "right"
                             [] contacts = 3 -> "middle"
                             [] OTHER -> "left"]_vars

\* The step writes the press of a tap.
Tapped ==
  /\ frame # <<>> /\ frame' = Tail(frame) /\ Head(frame).code = "touch"
  /\ out' # <<>>

\* A touch that moved the pointer, scrolled or swiped never ends in a tap, and
\* with DWT on neither does one during which a key was typed on a keyboard whose
\* time is still the shared one, whenever the movement, the keys of all
\* keyboards, the expiry of DWT and the lift fall, and whichever writes failed.
\* An event of a keyboard last typed on before the touch sets the shared time
\* back and may end DWT before the lift: such a touch is outside the claim.
NoTapAfterTravelOrTyping ==
  [][Tapped => /\ ~travelled
               /\ disable_while_typing =>
                    \A k \in typed_on : typing # last_typing_time[k]]_vars

\* While DWT is active nothing but physical buttons and reports is written.
DwtStopsMotion ==
  [][dwt_active => /\ ~Tapped
                   /\ \A i \in 1..Len(out') : out'[i].type \in {"button", "syn"}]_vars
=============================================================================
