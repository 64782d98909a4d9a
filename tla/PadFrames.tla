------------------------------ MODULE PadFrames ------------------------------
(***************************************************************************)
(* What the kernel sends for a touchpad (external): frames of events, each *)
(* closed by SYN_REPORT.  evdev hands a frame to its user as a whole, in   *)
(* this order: multi-touch slots, BTN_TOUCH, the BTN_TOOL_* bits, the      *)
(* single-touch axes, SYN_REPORT; drivers report physical buttons before   *)
(* or after these.  A key event is sent only when its value changes.       *)
(* BTN_TOOL_FINGER changes no state of the backends and is left out.       *)
(***************************************************************************)
EXTENDS Integers, Sequences

CONSTANTS
  MaxFingers,   \* bound: contacts on the pad
  Clicks,       \* the physical buttons it has
  Axes          \* bound: the axes along which contacts move

Button == {"left", "right", "middle"}

ASSUME PadAssumption ==
  /\ MaxFingers \in Nat \ {0}
  /\ Clicks \subseteq Button
  /\ Axes \subseteq {"x", "y"}

VARIABLES
  contacts,   \* fingers on the pad
  pressed,    \* physical buttons held
  frame,      \* events of the current frame not yet processed
  skipped     \* since the last touch began, several fingers lifted in a frame

padVars == <<contacts, pressed, frame, skipped>>

Event(code, value) == [code |-> code, value |-> value]

Bit(b) == IF b THEN 1 ELSE 0

Changed(code, before, after) ==
  IF before = after THEN <<>> ELSE <<Event(code, Bit(after))>>

Touches(n, m) ==
  (IF n = m THEN <<>> ELSE <<Event("mt", m)>>)
    \o Changed("touch", n > 0, m > 0)
    \o Changed("doubletap", n = 2, m = 2)
    \o Changed("tripletap", n = 3, m = 3)
    \o Changed("quadtap", n = 4, m = 4)

Motion(A) == (IF "x" \in A THEN <<Event("abs_x", 0)>> ELSE <<>>)
               \o (IF "y" \in A THEN <<Event("abs_y", 0)>> ELSE <<>>)

Click(b) == <<Event(b, Bit(b \notin pressed))>>

PadInit ==
  /\ contacts = 0
  /\ pressed = {}
  /\ frame = <<>>
  /\ skipped = FALSE

\* The pad has m contacts now, those at the axes A moved, and b was clicked.
SendFrame(m, A, b) ==
  /\ frame = <<>>
  /\ m = 0 => A = {}
  /\ LET touch == Touches(contacts, m) \o Motion(A)
         syn == <<Event("syn", 0)>>
     IN  IF b \notin Button
         THEN /\ touch # <<>>
              /\ frame' = touch \o syn
              /\ UNCHANGED pressed
         ELSE /\ frame' \in {Click(b) \o touch \o syn, touch \o Click(b) \o syn}
              /\ pressed' = IF b \in pressed THEN pressed \ {b}
                                             ELSE pressed \cup {b}
  /\ contacts' = m
  /\ skipped' = (m < contacts - 1 \/ (skipped /\ (contacts > 0 \/ m = 0)))

Frame ==
  \E m \in 0..MaxFingers, A \in SUBSET Axes, b \in Clicks \cup {"none"} :
    SendFrame(m, A, b)

\* The next event of the frame is `code` with a value in V.
Takes(code, V) ==
  /\ frame # <<>>
  /\ Head(frame).code = code
  /\ Head(frame).value \in V
  /\ frame' = Tail(frame)
  /\ UNCHANGED <<contacts, pressed, skipped>>
-----------------------------------------------------------------------------
(* The rest of a frame *)

ToolBit == <<"doubletap", "tripletap", "quadtap">>
Codes == {"mt", "touch", "abs_x", "abs_y", "syn"} \cup {"doubletap", "tripletap", "quadtap"} \cup Button
Events == [code : Codes, value : 0..MaxFingers]

\* What an event of the frame says of the pad as it is now.
Says(e) ==
  /\ e.code = "mt" => e.value = contacts
  /\ e.code = "touch" => e.value = Bit(contacts > 0)
  /\ e.code \in Button => e.value = Bit(e.code \in pressed)
  /\ \A n \in 2..4 : e.code = ToolBit[n - 1] => e.value \in {0, 1} /\ n <= MaxFingers

\* One physical button at most is in a frame, and a report closes it.
FrameOK ==
  /\ frame \in Seq(Events)
  /\ \A i \in DOMAIN frame : Says(frame[i])
  /\ \A i, j \in DOMAIN frame :
       {frame[i].code, frame[j].code} \subseteq Button => i = j
  /\ frame # <<>> => frame[Len(frame)].code = "syn"

\* An event with this code is still to be processed.
Unread(code) == \E i \in DOMAIN frame : frame[i].code = code

\* The events of contacts in the order in which they are sent; BTN_TOUCH tells
\* of the first finger and the tool bits of so many.
Rank == [mt |-> 0, touch |-> 1, doubletap |-> 2, tripletap |-> 3, quadtap |-> 4]
Telling == {"touch", "doubletap", "tripletap", "quadtap"}

InOrder ==
  \A i, j \in DOMAIN frame :
    (i < j /\ {frame[i].code, frame[j].code} \subseteq DOMAIN Rank)
      => Rank[frame[i].code] < Rank[frame[j].code]

\* Axes move after all that, and only of a pad that is touched.
MotionIsLast ==
  \A j \in DOMAIN frame : frame[j].code \in {"abs_x", "abs_y"} =>
    /\ contacts > 0
    /\ \A i \in DOMAIN frame : frame[i].code \in DOMAIN Rank => i < j

\* The buttons that were held before the rest of the frame.
Handled == {b \in Button : b \in pressed <=> ~Unread(b)}
=============================================================================
