------------------------------- MODULE Touchpad -------------------------------
(***************************************************************************)
(* process_absolute_event (src/backend.rs): how one touchpad's event stream *)
(* becomes motion, scroll, swipe, pinch, tap and click events.             *)
(*                                                                         *)
(* The kernel sends frames (PadFrames); the backend handles one event at a *)
(* time.  Keys are typed, and the configuration changes, between frames;   *)
(* time may also pass within one.                                          *)
(*                                                                         *)
(* Abstracted: contacts are counted (the code asks the MT slots only how   *)
(* many are active, and for a distance when there are two); a displacement *)
(* is zero or not; whether it rounds to an emitted event is left open      *)
(* (Motion.tla has the arithmetic).  Instants are ages, saturated at the   *)
(* timeout they are compared with.                                         *)
(***************************************************************************)
EXTENDS PadFrames

CONSTANTS
  TapTimeout,   \* the 250 ms a tap may last, in ticks
  DwtTimeout,   \* the 500 ms of disable-while-typing, in ticks
  Configs,      \* device configurations the compositor may set
  None

ASSUME TouchpadAssumption ==
  /\ TapTimeout \in Nat \ {0}
  /\ DwtTimeout \in Nat /\ TapTimeout <= DwtTimeout
  /\ Configs \subseteq [tap_enabled : BOOLEAN, dwt_enabled : BOOLEAN]
  /\ Configs # {}
  /\ None \notin Button \cup Nat

VARIABLES
  \* TrackedDevice
  slots,             \* active_slot_count()
  touch_active,
  touch_fingers,
  known,             \* which of last_x, last_y is Some
  moved,             \* current_dx # 0 \/ current_dy # 0
  tap_emitted,
  touch_start,       \* age of touch_start_time, or None
  active_click_button,
  pinch_active,
  \* the rest of the backend
  config,            \* tap_enabled and dwt_enabled of the LibinputDevice
  typing,            \* age of global_typing_time; DwtTimeout: None or expired
  \* history
  out,               \* events the last step queued for the client
  balance,           \* presses minus releases sent, per button
  travelled,         \* motion, scroll or swipe was sent during this touch
  typed              \* a key was typed during this touch

touchVars == <<slots, touch_active, touch_fingers, known, moved, tap_emitted,
               touch_start, active_click_button, pinch_active>>
vars == <<contacts, pressed, frame, skipped, slots, touch_active,
          touch_fingers, known, moved, tap_emitted, touch_start,
          active_click_button, pinch_active, config, typing, out, balance,
          travelled, typed>>

dwt_active == config.dwt_enabled /\ typing < DwtTimeout

Init ==
  /\ PadInit
  /\ slots = 0
  /\ touch_active = FALSE
  /\ touch_fingers = 0
  /\ known = {}
  /\ moved = FALSE
  /\ tap_emitted = FALSE
  /\ touch_start = None
  /\ active_click_button = None
  /\ pinch_active = FALSE
  /\ config \in Configs
  /\ typing = DwtTimeout
  /\ out = <<>>
  /\ balance = [b \in Button |-> 0]
  /\ travelled = FALSE
  /\ typed = FALSE
-----------------------------------------------------------------------------
(* The world around the touchpad. *)

Tick ==
  /\ touch_start' = IF touch_start = None \/ touch_start = TapTimeout
                    THEN touch_start ELSE touch_start + 1
  /\ typing' = IF typing = DwtTimeout THEN typing ELSE typing + 1
  /\ out' = <<>>
  /\ UNCHANGED <<padVars, slots, touch_active, touch_fingers, known, moved,
                 tap_emitted, active_click_button, pinch_active, config,
                 balance, travelled, typed>>

\* The keyboard path processes a key press.  A frame is processed in one
\* batch, with the typing time and the configuration read before it.
KeyTyped ==
  /\ frame = <<>>
  /\ typing' = 0
  /\ typed' = touch_active
  /\ out' = <<>>
  /\ UNCHANGED <<padVars, touchVars, config, balance, travelled>>

\* The compositor changes the device's configuration between two batches.
Configure ==
  /\ frame = <<>>
  /\ config' \in Configs
  /\ out' = <<>>
  /\ UNCHANGED <<padVars, touchVars, typing, balance, travelled, typed>>

PadFrame ==
  /\ Frame
  /\ out' = <<>>
  /\ UNCHANGED <<touchVars, config, typing, balance, travelled, typed>>
-----------------------------------------------------------------------------
(* process_absolute_event *)

Sent(type) == [type |-> type, button |-> None, state |-> 0]
SentButton(b, s) == [type |-> "button", button |-> b, state |-> s]

\* One event of the frame.  Every event that finds DWT active marks the touch
\* as one that cannot tap any more.
Consumes(code, V) == Takes(code, V) /\ UNCHANGED <<config, typing>>

\* primary_slot_distance() and primary_slot_angle() are of two active slots.
HasDistance == slots >= 2

MutedByTravelOnly == tap_emitted                  \* fault: DWT forgotten
Muted == tap_emitted \/ dwt_active

\* ABS_MT_TRACKING_ID of the slots that changed
MtSlots ==
  /\ Consumes("mt", 0..MaxFingers)
  /\ slots' = Head(frame).value
  /\ tap_emitted' = Muted
  /\ out' = <<>>
  /\ UNCHANGED <<touch_active, touch_fingers, known, moved, touch_start,
                 active_click_button, pinch_active, balance, travelled, typed>>

\* BTN_TOUCH 1
TouchDown ==
  /\ Consumes("touch", {1})
  /\ touch_active' = TRUE
  /\ touch_start' = 0
  /\ tap_emitted' = FALSE
  /\ touch_fingers' = IF slots > 1 THEN slots ELSE 1
  /\ known' = {}
  /\ IF HasDistance /\ ~pinch_active
     THEN pinch_active' = TRUE /\ out' = <<Sent("pinch_begin")>>
     ELSE UNCHANGED pinch_active /\ out' = <<>>
  /\ travelled' = FALSE
  /\ typed' = FALSE
  /\ UNCHANGED <<slots, moved, active_click_button, balance>>

Taps ==
  /\ config.tap_enabled
  /\ ~Muted
  /\ touch_start # None
  /\ touch_start < TapTimeout
  /\ touch_fingers <= 1

\* BTN_TOUCH 0.  The END is "measured" when two slots still have a distance.
TouchUp ==
  /\ Consumes("touch", {0})
  /\ touch_active' = FALSE
  /\ pinch_active' = FALSE
  /\ out' = (IF ~pinch_active THEN <<>>
             ELSE IF HasDistance THEN <<Sent("pinch_end_measured")>>
                                 ELSE <<Sent("pinch_end_default")>>)
            \o (IF Taps THEN <<SentButton("left", 1), SentButton("left", 0)>>
                        ELSE <<>>)
  /\ tap_emitted' = Muted
  /\ known' = {}
  /\ moved' = FALSE
  /\ touch_start' = None
  /\ touch_fingers' = 0
  /\ travelled' = FALSE
  /\ typed' = FALSE
  /\ UNCHANGED <<slots, active_click_button, balance>>

\* A tool bit that rises means its count of fingers, one that falls means one
\* finger fewer, whatever the other bits say.
ToolFingers(n, v) == IF v = 1 THEN n ELSE n - 1

\* BTN_TOOL_DOUBLETAP, TRIPLETAP and QUADTAP, each on its own.
ToolTap ==
  /\ \E n \in 2..4 :
       /\ Consumes(ToolBit[n - 1], {0, 1})
       /\ touch_fingers' = ToolFingers(n, Head(frame).value)
  /\ tap_emitted' = Muted
  /\ out' = <<>>
  /\ UNCHANGED <<slots, touch_active, known, moved, touch_start,
                 active_click_button, pinch_active, balance, travelled, typed>>

ClickButtonOffByOne == CASE touch_fingers = 2 -> "right"  \* fault: > for >=
                         [] touch_fingers > 3 -> "middle"
                         [] OTHER -> "left"

\* The button a press of BTN_LEFT stands for.
ClickButton == CASE touch_fingers = 2 -> "right"
                 [] touch_fingers >= 3 -> "middle"
                 [] OTHER -> "left"

\* The button a release of BTN_LEFT stands for: the one that was pressed.
ReleasedByFingers == ClickButton                  \* fault: remapped anew
ReleasedButton == active_click_button

SendButton(b, s) ==
  /\ out' = <<SentButton(b, s)>>
  /\ balance' = [balance EXCEPT ![b] = @ + (IF s = 1 THEN 1 ELSE -1)]

\* Physical click: BTN_LEFT is remapped by the fingers, the release goes to
\* whatever button the press went to.
PhysicalButton ==
  /\ \E b \in Button :
       /\ Consumes(b, {0, 1})
       /\ LET v == Head(frame).value IN
          \/ /\ b = "left" /\ v = 1
             /\ active_click_button' = ClickButton
             /\ SendButton(ClickButton, 1)
          \/ /\ b = "left" /\ v = 0 /\ active_click_button # None
             /\ active_click_button' = None
             /\ SendButton(ReleasedButton, 0)
          \/ /\ b # "left" \/ (v = 0 /\ active_click_button = None)
             /\ SendButton(b, v)
             /\ UNCHANGED active_click_button
  /\ tap_emitted' = Muted
  /\ UNCHANGED <<slots, touch_active, touch_fingers, known, moved, touch_start,
                 pinch_active, travelled, typed>>

\* ABS_X, ABS_Y: a displacement is measured from the last position unless it
\* is unknown or (stalled) older than 50 ms.
AbsAxis ==
  /\ \E axis \in {"x", "y"} :
       /\ Consumes(IF axis = "x" THEN "abs_x" ELSE "abs_y", {0})
       /\ \E stalled \in BOOLEAN :
            IF axis \in known /\ ~stalled THEN moved' \in BOOLEAN
                                          ELSE UNCHANGED moved
       /\ known' = known \cup {axis}
  /\ tap_emitted' = Muted
  /\ out' = <<>>
  /\ UNCHANGED <<slots, touch_active, touch_fingers, touch_start,
                 active_click_button, pinch_active, balance, travelled, typed>>

Travel(type) ==
  \/ travelled' = TRUE /\ out' = <<Sent(type)>>
  \/ type # "swipe" /\ UNCHANGED travelled /\ out' = <<>>   \* rounds to zero

n_fingers == IF slots > touch_fingers THEN slots ELSE touch_fingers

\* A pinch turns the whole frame into one PINCH_UPDATE.
PinchTakesTypedFrame == pinch_active              \* fault: DWT forgotten
PinchTakesFrame == pinch_active /\ ~dwt_active

\* SYN_REPORT: a pinch takes the frame, DWT drops it, otherwise the fingers
\* choose between motion, scroll and swipe.
SynReport ==
  /\ Consumes("syn", {0})
  /\ moved' = FALSE
  /\ \/ /\ PinchTakesFrame
        /\ out' = IF HasDistance THEN <<Sent("pinch_update")>> ELSE <<>>
        /\ UNCHANGED <<tap_emitted, travelled>>
     \/ /\ dwt_active
        /\ tap_emitted' = TRUE
        /\ out' = <<>>
        /\ UNCHANGED travelled
     \/ /\ ~pinch_active /\ ~dwt_active /\ ~moved
        /\ out' = <<>>
        /\ UNCHANGED <<tap_emitted, travelled>>
     \/ /\ ~pinch_active /\ ~dwt_active /\ moved
        /\ tap_emitted' = TRUE
        /\ Travel(CASE n_fingers <= 1 -> "motion"
                    [] n_fingers = 2 -> "scroll"
                    [] OTHER -> "swipe")
  /\ UNCHANGED <<slots, touch_active, touch_fingers, known, touch_start,
                 active_click_button, pinch_active, balance, typed>>

Process == MtSlots \/ TouchDown \/ TouchUp \/ ToolTap \/ PhysicalButton
             \/ AbsAxis \/ SynReport

Next == PadFrame \/ Process \/ Tick \/ KeyTyped \/ Configure

Spec == Init /\ [][Next]_vars
-----------------------------------------------------------------------------
(* Properties *)

TypeOK ==
  /\ contacts \in 0..MaxFingers
  /\ pressed \subseteq Button
  /\ slots \in 0..MaxFingers
  /\ touch_active \in BOOLEAN
  /\ touch_fingers \in 0..MaxFingers
  /\ known \subseteq {"x", "y"}
  /\ moved \in BOOLEAN
  /\ tap_emitted \in BOOLEAN
  /\ touch_start \in {None} \cup 0..TapTimeout
  /\ active_click_button \in Button \cup {None}
  /\ pinch_active \in BOOLEAN
  /\ config \in Configs
  /\ typing \in 0..DwtTimeout
  /\ balance \in [Button -> Int]
  /\ travelled \in BOOLEAN
  /\ typed \in BOOLEAN

\* What the rest of a frame does not change is settled: the tracker agrees with
\* the pad, and between two frames no displacement is carried over; a pinch
\* lives only as long as a finger stays down.
TrackerFollowsPad ==
  /\ ~Unread("mt") => slots = contacts
  /\ ~Unread("touch") => (touch_active <=> contacts > 0)
  /\ touch_start # None <=> touch_active
  /\ pinch_active => touch_active
  /\ frame = <<>> => ~moved

\* Whatever the fingers did between a press and its release, and even if the
\* remapped button is also held by itself, the client has seen one more press
\* than releases exactly for each physical button still held.
ButtonsBalanced ==
  /\ active_click_button # None <=> "left" \in Handled
  /\ \A b \in Button :
       balance[b] = Bit(active_click_button = b) + Bit(b # "left" /\ b \in Handled)

\* What keeps a touch from being a tap lasts until it ends: the flag if it
\* travelled; if a key was typed, DWT or else the age of the touch.
TapIsRuledOut ==
  /\ travelled => tap_emitted
  /\ typed /\ touch_start # None => touch_start = TapTimeout \/ typing <= touch_start

\* The last event of a frame that tells of fingers leaves the count
\* right, whatever those before it made of it.
FingersTold ==
  (~skipped /\ contacts <= 4) =>
    /\ (\A i \in DOMAIN frame : frame[i].code \notin Telling) => touch_fingers = contacts
    /\ \A i \in DOMAIN frame :
         (/\ frame[i].code \in Telling
          /\ \A j \in DOMAIN frame : frame[j].code \in Telling => j <= i)
           => ToolFingers(Rank[frame[i].code], frame[i].value) = contacts

\* What holds of the tracker and of the client's buttons, inductive, and with it
\* what holds of the count of fingers.
TrackerInv ==
  TypeOK /\ FrameOK /\ TrackerFollowsPad /\ ButtonsBalanced /\ TapIsRuledOut
TouchpadInv == TrackerInv /\ InOrder /\ FingersTold

\* Comment backend.rs:782, "Physical click with finger-count remapping": a
\* click in a frame that changes no contact any more is sent as the button of
\* the number of fingers on the pad, although the code only follows BTN_TOOL_*
\* bits, unless several fingers lifted in one frame: a falling bit then means
\* "one finger fewer" although more are gone.  The code follows no bit of five
\* fingers (BTN_TOOL_QUINTTAP): if they land where one was, it counts one.
ClickMatchesFingers ==
  [][(/\ frame # <<>> /\ Head(frame) = Event("left", 1) /\ ~skipped
      /\ contacts <= 4
      /\ \A i \in 1..Len(frame) :
           frame[i].code \in {"left", "abs_x", "abs_y", "syn"})
     => \A i \in 1..Len(out') :
          out'[i].button = CASE contacts = 2 -> "right"
                             [] contacts >= 3 -> "middle"
                             [] OTHER -> "left"]_vars

\* The step sends the press of a tap.
Tapped ==
  /\ frame # <<>> /\ frame' = Tail(frame) /\ Head(frame).code = "touch"
  /\ \E i \in 1..Len(out') : out'[i] = SentButton("left", 1)

\* A touch that moved the pointer, scrolled or swiped, or, with DWT on, during
\* which a key was typed never ends in a tap, whenever the movement, the key,
\* the expiry of DWT and the lift fall.
NoTapAfterTravelOrTyping ==
  [][Tapped => ~travelled /\ ~(config.dwt_enabled /\ typed)]_vars

\* While DWT is active no motion, scroll, swipe, pinch update or tap is sent.
DwtStopsMotion ==
  [][dwt_active =>
       /\ ~Tapped
       /\ \A i \in 1..Len(out') :
            out'[i].type \in {"button", "pinch_begin", "pinch_end_default",
                              "pinch_end_measured"}]_vars

\* README "Pinch Gesture": BEGIN is "emitted when 2+ fingers contact the
\* surface".
PinchBeginsWithTwoFingers == (frame = <<>> /\ slots >= 2) => pinch_active
=============================================================================
