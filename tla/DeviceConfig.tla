----------------------------- MODULE DeviceConfig -----------------------------
(***************************************************************************)
(* The configuration of a LibinputDevice (src/lib.rs, src/ffi_types.rs):   *)
(* for each option what a new device object holds, what its setter does    *)
(* and what its getters answer.  Pointers are not null; a number stands    *)
(* for a constant of the C interface, and a truth value for 0 and 1.       *)
(***************************************************************************)
EXTENDS Integers

\* A field of the device object.  `default` is what the getter of the default
\* answers, which is a constant of its own.
Stored(initial, default) ==
  [kind |-> "stored", initial |-> initial, default |-> default]

\* The setter succeeds and keeps nothing; the getters answer a constant.
Accepted(answer) == [kind |-> "accepted", initial |-> answer, default |-> answer]

\* The setter fails.
Refused(answer) == [kind |-> "refused", initial |-> answer, default |-> answer]

Tap ==
  [tap_enabled |-> Stored(TRUE, TRUE),
   drag_enabled |-> Accepted(TRUE),
   drag_lock_enabled |-> Accepted(FALSE),
   tap_button_map |-> Stored(0, 0),
   drag_3fg |-> Refused(FALSE)]

\* accel_profile is set by itself or by an accel config that is applied.
Accel ==
  [accel_speed |-> Stored(0, 0),
   accel_profile |-> Stored(1, 1)]

NaturalScroll == [natural_scroll |-> Stored(TRUE, FALSE)]
LeftHanded == [left_handed |-> Stored(FALSE, FALSE)]

Scroll ==
  [scroll_method |-> Stored(2, 2),
   scroll_button |-> Accepted(0),
   button_lock |-> Refused(0)]

Click ==
  [click_method |-> Stored(1, 1),
   clickfinger_button_map |-> Refused(0)]

MiddleEmulation == [middle_emulation |-> Stored(FALSE, FALSE)]

Dwt ==
  [dwt_enabled |-> Stored(TRUE, TRUE),
   dwt_timeout |-> Refused(500),
   dwtp_enabled |-> Refused(FALSE),
   dwtp_timeout |-> Refused(500)]

Identity == <<1, 0, 0, 0, 1, 0>>
Calibration == [matrix |-> Stored(Identity, Identity)]

Compatibility ==
  [area_rectangle |-> Accepted(<<0, 0, 1, 1>>),
   rotation_angle |-> Accepted(0),
   send_events_mode |-> Accepted(0)]

Groups ==
  {Tap, Accel, NaturalScroll, LeftHanded, Scroll, Click, MiddleEmulation, Dwt,
   Calibration, Compatibility}

\* No two groups have an option in common.
Option == [o \in UNION {DOMAIN g : g \in Groups} |->
             (CHOOSE g \in Groups : o \in DOMAIN g)[o]]

Fields == {o \in DOMAIN Option : Option[o].kind = "stored"}

\* LibinputDevice::new
NewSettings == [o \in Fields |-> Option[o].initial]

\* speed.clamp(-1.0, 1.0)
Clamped(v) == IF v < -1 THEN -1 ELSE IF v > 1 THEN 1 ELSE v

Kept(o, v) == IF o = "accel_speed" THEN Clamped(v) ELSE v

\* The fields of the device object after a setter was called.
Set(settings, o, v) ==
  IF o \in Fields THEN [settings EXCEPT ![o] = Kept(o, v)] ELSE settings

\* The setter reports success, whether or not it kept anything.
Succeeds(o) == Option[o].kind # "refused"

Get(settings, o) == IF o \in Fields THEN settings[o] ELSE Option[o].initial
=============================================================================
