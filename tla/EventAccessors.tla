---------------------------- MODULE EventAccessors ----------------------------
(***************************************************************************)
(* How a client reads an event (src/lib.rs): libinput_event_get_..._event  *)
(* converts it by its type to an event of one family, whose accessors then *)
(* look at the payload, each answering for some kinds of payload and with  *)
(* a neutral value for all others.                                         *)
(***************************************************************************)
EXTENDS Integers, FiniteSets

NotifyTypes == {"device_added", "device_removed"}

\* Fault: the list was not extended when scrolling got types of its own.
PointerTypesOld ==
  {"pointer_motion", "pointer_motion_absolute", "pointer_button", "pointer_axis"}
PointerTypes ==
  {"pointer_motion", "pointer_motion_absolute", "pointer_button", "pointer_axis",
   "scroll_wheel", "scroll_finger", "scroll_continuous"}
KeyboardTypes == {"keyboard_key"}
TouchTypes == {"touch_down", "touch_up", "touch_motion", "touch_cancel", "touch_frame"}
GestureTypes ==
  {"swipe_begin", "swipe_update", "swipe_end",
   "pinch_begin", "pinch_update", "pinch_end"}
SwitchTypes == {"switch_toggle"}

FamilyTypes ==
  [notify |-> NotifyTypes, pointer |-> PointerTypes, keyboard |-> KeyboardTypes,
   touch |-> TouchTypes, gesture |-> GestureTypes, switch |-> SwitchTypes]

Family == DOMAIN FamilyTypes

Converts(family, e) == e.type \in FamilyTypes[family]

\* The payloads for which an accessor answers.
Pointer ==
  [time |-> {"PointerMotion", "PointerMotionAbsolute", "PointerButton", "PointerAxis"},
   dx |-> {"PointerMotion"}, dy |-> {"PointerMotion"},
   absolute_x |-> {"PointerMotionAbsolute"}, absolute_y |-> {"PointerMotionAbsolute"},
   button |-> {"PointerButton"}, button_state |-> {"PointerButton"},
   seat_button_count |-> {"PointerButton"},
   axis_value |-> {"PointerAxis"}, axis_value_discrete |-> {"PointerAxis"},
   axis_source |-> {"PointerAxis"}]

Keyboard ==
  [time |-> {"KeyboardKey"}, key |-> {"KeyboardKey"}, key_state |-> {"KeyboardKey"},
   seat_key_count |-> {"KeyboardKey"}]

Contact == {"TouchDown", "TouchMotion"}
Touch ==
  [time |-> Contact \cup {"TouchUp", "TouchCancel", "TouchFrame"},
   slot |-> Contact, seat_slot |-> Contact, x |-> Contact, y |-> Contact]

Swipes == {"GestureSwipeBegin", "GestureSwipeUpdate", "GestureSwipeEnd"}
Pinches == {"GesturePinchBegin", "GesturePinchUpdate", "GesturePinchEnd"}
Updates == {"GestureSwipeUpdate", "GesturePinchUpdate"}
Gesture ==
  [time |-> Swipes \cup Pinches, finger_count |-> Swipes \cup Pinches,
   dx |-> Updates, dy |-> Updates,
   scale |-> {"GesturePinchUpdate", "GesturePinchEnd"},
   angle_delta |-> {"GesturePinchUpdate"},
   cancelled |-> {"GestureSwipeEnd", "GesturePinchEnd"}]

Switch ==
  [time |-> {"SwitchToggle"}, switch |-> {"SwitchToggle"}, switch_state |-> {"SwitchToggle"}]

Accessor ==
  [notify |-> <<>>, pointer |-> Pointer, keyboard |-> Keyboard, touch |-> Touch,
   gesture |-> Gesture, switch |-> Switch]

\* The accessors of a family that have something to say of e.
Answers(family, e) ==
  {a \in DOMAIN Accessor[family] : e.payload \in Accessor[family][a]}

\* libinput_event_pointer_has_axis, whatever axis is asked for
HasAxis(e, axis) == e.payload = "PointerAxis"
=============================================================================
