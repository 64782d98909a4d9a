-------------------------------- MODULE Motion --------------------------------
(***************************************************************************)
(* process_absolute_event (src/backend.rs) once more, for what Touchpad    *)
(* leaves out: the table of multi-touch slots, positions, displacements    *)
(* and the arithmetic that makes motion, scroll, swipe and pinch of them.  *)
(*                                                                         *)
(* The f32 arithmetic is exact here, in fractions of Den; a distance is    *)
(* its square, since only ratios of distances are sent; angles, taps and   *)
(* clicks are left out.  Whether DWT is active and what the configuration  *)
(* says is open in every SYN_REPORT (Touchpad, Pipeline).                  *)
(***************************************************************************)
EXTENDS Contacts

CONSTANTS
  NumSlots,      \* mt_slots.len(), 10
  Den,           \* denominator of the scales
  MotionScales,  \* 0.18 times the accelerations that may be set, times Den
  ScrollScale,   \* 0.02 times Den
  MaxAstray,     \* bound: frames sent after a contact strayed
  None

ASSUME MotionAssumption ==
  /\ NumSlots \in Nat \ {0}
  /\ Den \in Nat \ {0}
  /\ MotionScales \subseteq Nat
  /\ ScrollScale \in Nat
  /\ MaxAstray \in Nat
  /\ None \notin Int

VARIABLES
  \* TrackedDevice
  mt_slots,        \* active, x and y of each MtSlot
  current_slot,
  touch_fingers,
  last,            \* last_x and last_y
  current,         \* current_dx and current_dy
  remainder,       \* remainder_x and remainder_y, times Den
  stale,           \* last_movement_time is more than 50 ms ago
  pinch_active,
  pinch_base_dist, \* its square
  \* history
  out,             \* events the last step queued for the client
  debt,            \* displacement to be sent minus what was sent, times Den
  strayed,         \* frames since a contact's events went to the entry of
                   \* another slot, or 0
  paused,          \* more than 50 ms passed before this frame
  begun            \* the contacts a pinch began with and their distance

trackVars == <<mt_slots, current_slot, touch_fingers, last, current, remainder,
               stale, pinch_active, pinch_base_dist>>
vars == <<padVars, mt_slots, current_slot, touch_fingers, last, current,
          remainder, stale, pinch_active, pinch_base_dist, out, debt, strayed,
          paused, begun>>

Slots == 0..NumSlots - 1
Unknown == [a \in Axis |-> None]
NoPinch == [pair |-> {}, dist |-> 0]

Init ==
  /\ ContactsInit
  /\ mt_slots = [s \in Slots |-> [active |-> FALSE, x |-> 0, y |-> 0]]
  /\ current_slot = 0
  /\ touch_fingers = 0
  /\ last = Unknown
  /\ current = Still
  /\ remainder = Still
  /\ stale = FALSE
  /\ pinch_active = FALSE
  /\ pinch_base_dist = 0
  /\ out = <<>>
  /\ debt = Still
  /\ strayed = 0
  /\ paused = FALSE
  /\ begun = NoPinch
-----------------------------------------------------------------------------
(* The pad *)

\* More than 50 ms pass; a frame is processed faster than that.
Pause ==
  /\ frame = <<>>
  /\ stale' = TRUE
  /\ out' = <<>>
  /\ UNCHANGED <<padVars, mt_slots, current_slot, touch_fingers, last, current,
                 remainder, pinch_active, pinch_base_dist, debt, strayed, paused,
                 begun>>

\* The backend cannot follow slots its table lacks, nor one the kernel named
\* before the pad was opened.
Strays(D, to) ==
  \E s \in ChangedSlots(D, to) :
    \/ s >= NumSlots
    \/ s = mt_slot /\ s # current_slot /\ \A r \in ChangedSlots(D, to) : s <= r

PadFrame ==
  /\ frame = <<>> /\ strayed < MaxAstray
  /\ \E D \in SUBSET HwSlots : \E to \in Places(D) :
       /\ SendFrame(D, to)
       /\ strayed' = strayed + Bit(strayed > 0 \/ Strays(D, to))
  /\ paused' = stale
  /\ out' = <<>>
  /\ UNCHANGED <<trackVars, debt, begun>>
-----------------------------------------------------------------------------
(* The table of slots *)

Consumes(code, V) ==
  /\ Takes(code, V)
  /\ paused' = (paused /\ ~FrameEnds)
  /\ UNCHANGED strayed

MtUntouched == UNCHANGED <<touch_fingers, last, current, remainder, stale,
                           pinch_active, pinch_base_dist, debt, begun>>

SlotUnchecked(v) == v                             \* fault: any slot is taken
SlotOffByOne(v) == IF v < NumSlots - 1 THEN v ELSE current_slot  \* fault
SlotOf(v) == IF v < NumSlots THEN v ELSE current_slot

\* ABS_MT_SLOT: a slot beyond the table leaves the current one current.
MtSlot ==
  /\ Consumes("mt_slot", HwSlots)
  /\ current_slot' = SlotOf(Upcoming.value)
  /\ out' = <<>>
  /\ UNCHANGED mt_slots /\ MtUntouched

MtTrackingId ==
  /\ Consumes("mt_id", {-1, 1})
  /\ mt_slots' = [mt_slots EXCEPT ![current_slot].active = Upcoming.value >= 0]
  /\ out' = <<>>
  /\ UNCHANGED current_slot /\ MtUntouched

MtPosition ==
  /\ \/ /\ Consumes("mt_x", Coordinates)
        /\ mt_slots' = [mt_slots EXCEPT ![current_slot].x = Upcoming.value]
     \/ /\ Consumes("mt_y", Coordinates)
        /\ mt_slots' = [mt_slots EXCEPT ![current_slot].y = Upcoming.value]
  /\ out' = <<>>
  /\ UNCHANGED current_slot /\ MtUntouched

Active == {s \in Slots : mt_slots[s].active}
active_slot_count == Cardinality(Active)

Square(n) == n * n

\* The lowest two of some slots, and how far apart two slots are.
FirstTwo(S) == {s \in S : Cardinality({r \in S : r < s}) < 2}
Apart(places) ==
  LET s == CHOOSE s \in DOMAIN places : TRUE
      t == CHOOSE t \in DOMAIN places : DOMAIN places = {s, t}
  IN  Square(places[s]["x"] - places[t]["x"]) + Square(places[s]["y"] - places[t]["y"])

primary_slot_distance ==
  Apart([s \in FirstTwo(Active) |-> [a \in Axis |-> mt_slots[s][a]]])
-----------------------------------------------------------------------------
(* Touches and pinches *)

Pinch(type, dist, base) == [type |-> type, dist |-> dist, base |-> base]

\* Fault: the base in relation to the distance.
ScaledInverse(type) ==
  IF active_slot_count >= 2 /\ pinch_base_dist > 0
  THEN Pinch(type, pinch_base_dist, primary_slot_distance)
  ELSE Pinch(type, 1, 1)

\* dist / base as a pair of squares, 1 when it is not measured.
Scaled(type) ==
  IF active_slot_count >= 2 /\ pinch_base_dist > 0
  THEN Pinch(type, primary_slot_distance, pinch_base_dist)
  ELSE Pinch(type, 1, 1)

\* The same from the pad's point of view.
LowestTwo == FirstTwo(Down)
Distance(pair) == Apart([s \in pair |-> at[s]])

LastKept == UNCHANGED last                        \* fault: from touch to touch
LastForgotten == last' = Unknown

TouchDown ==
  /\ Consumes("touch", {1})
  /\ touch_fingers' = IF active_slot_count > 1 THEN active_slot_count ELSE 1
  /\ LastForgotten
  /\ IF active_slot_count >= 2 /\ ~pinch_active
     THEN /\ pinch_active' = TRUE
          /\ pinch_base_dist' = primary_slot_distance
          /\ out' = <<Pinch("pinch_begin", 1, 1)>>
          /\ begun' = [pair |-> LowestTwo, dist |-> Distance(LowestTwo)]
     ELSE /\ UNCHANGED <<pinch_active, pinch_base_dist, begun>>
          /\ out' = <<>>
  /\ UNCHANGED <<mt_slots, current_slot, current, remainder, stale, debt>>

TouchUp ==
  /\ Consumes("touch", {0})
  /\ pinch_active' = FALSE
  /\ out' = When(pinch_active, <<Scaled("pinch_end")>>)
  /\ begun' = NoPinch
  /\ LastForgotten
  /\ current' = Still
  /\ touch_fingers' = 0
  /\ UNCHANGED <<mt_slots, current_slot, remainder, stale, pinch_base_dist, debt>>

ToolTap ==
  /\ \E n \in 2..3 :
       /\ Consumes(<<"doubletap", "tripletap">>[n - 1], {0, 1})
       /\ touch_fingers' = IF Upcoming.value # 0 THEN n ELSE n - 1
  /\ out' = <<>>
  /\ UNCHANGED <<mt_slots, current_slot, last, current, remainder, stale,
                 pinch_active, pinch_base_dist, debt, begun>>

Previous(a) == IF stale THEN None ELSE last[a]

\* ABS_X, ABS_Y.  After 50 ms without either the axis that comes first forgets
\* its last value; the other does not, since the time was just renewed.
AbsAxis ==
  /\ \E a \in Axis :
       /\ Consumes(IF a = "x" THEN "abs_x" ELSE "abs_y", Coordinates)
       /\ current' = [current EXCEPT ![a] = IF Previous(a) = None THEN @
                                            ELSE @ + (Upcoming.value - Previous(a))]
       /\ last' = [last EXCEPT ![a] = Upcoming.value]
  /\ stale' = FALSE
  /\ out' = <<>>
  /\ UNCHANGED <<mt_slots, current_slot, touch_fingers, remainder, pinch_active,
                 pinch_base_dist, debt, begun>>
-----------------------------------------------------------------------------
(* SYN_REPORT *)

\* The integer nearest to n / Den, halves away from zero.
Round(n) == IF n >= 0 THEN (2 * n + Den) \div (2 * Den)
                      ELSE -((Den - 2 * n) \div (2 * Den))

n_fingers ==
  IF active_slot_count > touch_fingers THEN active_slot_count ELSE touch_fingers

total(scale) == [a \in Axis |-> current[a] * scale + remainder[a]]
emit(scale) == [a \in Axis |-> Round(total(scale)[a])]

MotionEvents(e) ==
  When(e["x"] # 0 \/ e["y"] # 0, <<[type |-> "motion", x |-> e["x"], y |-> e["y"]]>>)

Turned(natural, v) == IF natural THEN -v ELSE v

ScrollEvents(natural, e) ==
  When(e["y"] # 0, <<[type |-> "scroll", axis |-> "y", value |-> Turned(natural, e["y"])]>>)
    \o When(e["x"] # 0, <<[type |-> "scroll", axis |-> "x", value |-> Turned(natural, e["x"])]>>)

\* What an event moves along an axis, and what the two at most of a SYN_REPORT do.
Moved(e, natural, a) ==
  CASE e.type = "motion" -> e[a]
    [] e.type = "scroll" /\ e.axis = a -> Turned(natural, e.value)
    [] OTHER -> 0
Paid(s, natural, a) ==
  LET Of(i) == IF i \in DOMAIN s THEN Moved(s[i], natural, a) ELSE 0
  IN  Of(1) + Of(2)

\* Fault: what the rounding left over is dropped.
RestDropped(scale) == remainder' = Still

\* The rest of the rounding is kept for the next frame.
RestKept(scale) ==
  remainder' = [a \in Axis |-> total(scale)[a] - Den * emit(scale)[a]]

Owed(scale, natural) ==
  debt' = [a \in Axis |-> debt[a] + current[a] * scale - Den * Paid(out', natural, a)]

SynPinch ==
  /\ pinch_active
  /\ out' = When(active_slot_count >= 2, <<Scaled("pinch_update")>>)
  /\ UNCHANGED <<remainder, debt>>

SynTyped ==
  /\ out' = <<>>
  /\ remainder' = Still
  /\ debt' = Still

SynMotion ==
  /\ n_fingers <= 1
  /\ \E scale \in MotionScales :
       /\ out' = MotionEvents(emit(scale))
       /\ RestKept(scale)
       /\ Owed(scale, FALSE)

SynScroll ==
  /\ n_fingers = 2
  /\ \E natural \in BOOLEAN :
       /\ out' = ScrollEvents(natural, emit(ScrollScale))
       /\ RestKept(ScrollScale)
       /\ Owed(ScrollScale, natural)

SynSwipe ==
  /\ n_fingers >= 3
  /\ out' = <<[type |-> "swipe", dx |-> current["x"], dy |-> current["y"]]>>
  /\ UNCHANGED <<remainder, debt>>

SynStill ==
  /\ current = Still
  /\ out' = <<>>
  /\ UNCHANGED <<remainder, debt>>

\* A pinch takes the frame unless DWT is active, and DWT drops it.
SynReport ==
  /\ Consumes("syn", {0})
  /\ current' = Still
  /\ \/ SynPinch
     \/ SynTyped
     \/ ~pinch_active /\ SynStill
     \/ ~pinch_active /\ current # Still /\ (SynMotion \/ SynScroll \/ SynSwipe)
  /\ UNCHANGED <<mt_slots, current_slot, touch_fingers, last, stale,
                 pinch_active, pinch_base_dist, begun>>

Process == MtSlot \/ MtTrackingId \/ MtPosition \/ TouchDown \/ TouchUp
             \/ ToolTap \/ AbsAxis \/ SynReport

Next == PadFrame \/ Pause \/ Process

Spec == Init /\ [][Next]_vars
-----------------------------------------------------------------------------
(* Properties *)

TypeOK ==
  /\ mt_slots \in [Slots -> [active : BOOLEAN, x : Int, y : Int]]
  /\ Active \subseteq HwSlots
  /\ current_slot \in Slots \cap HwSlots
  /\ touch_fingers \in 0..Cardinality(HwSlots)
  /\ last \in [Axis -> Int \cup {None}]
  /\ current \in [Axis -> Int]
  /\ remainder \in [Axis -> Int]
  /\ stale \in BOOLEAN
  /\ pinch_active \in BOOLEAN
  /\ pinch_base_dist \in Nat
  /\ debt \in [Axis -> Int]
  /\ strayed \in Nat
  /\ paused \in BOOLEAN

\* However slowly fingers move, and however often two of them change between
\* scrolling and one pointing, whose scales differ while they share one rest,
\* all but half a unit of the scaled displacement that DWT let through was sent.
NothingLostByRounding ==
  \A a \in Axis : debt[a] = remainder[a] /\ 2 * debt[a] \in -Den..Den

\* Between two frames the table is what is on the pad, unless the pad has more
\* slots than the table or was opened with another current slot.
SlotTableAgrees ==
  (frame = <<>> /\ strayed = 0) =>
    \A s \in Slots :
      /\ mt_slots[s].active <=> s \in Down
      /\ s \in Down => \A a \in Axis : mt_slots[s][a] = at[s][a]

\* What a frame moves is what the oldest contact travelled in it, or nothing:
\* no position is compared with one of another touch or of before a pinch.  A
\* pause drops the travel of one axis at most.
MovesWithOldest ==
  (frame # <<>> /\ Upcoming.code = "syn" /\ steady) =>
    /\ \A a \in Axis : current[a] \in {0, travel[a]}
    /\ Cardinality({a \in seen : current[a] # travel[a]}) <= Bit(paused)

\* What makes these inductive.  Once the events of a slot are processed the
\* table has it as it is on the pad; those of the first group go to its slot.
TableFollows ==
  strayed = 0 =>
    /\ Down \subseteq Slots
    /\ \A i \in DOMAIN frame : frame[i].slot # Pad => frame[i].slot \in Slots
    /\ (frame # <<>> /\ frame[1].slot # Pad)
         => Upcoming.code = "mt_slot" \/ current_slot = frame[1].slot
    /\ \A s \in Slots :
         /\ ~Pending(s, "mt_id") => (mt_slots[s].active <=> s \in Down)
         /\ s \in HwSlots =>
              \A a \in Axis : ~Pending(s, MtCode[a]) => mt_slots[s][a] = at[s][a]

\* A position that was not reported yet is measured from where the oldest
\* contact was before the frame, unless it is new or was forgotten.
Due(a) == Pending(Pad, AbsCode[a])
Dropped == {a \in seen : ~Due(a) /\ current[a] # travel[a]}
PositionsFollow ==
  /\ frame = <<>> => current = Still
  /\ frame # <<>> /\ stale => paused
  /\ order = <<>> => \A a \in Axis : ~Due(a) /\ (frame # <<>> => travel[a] = 0)
  /\ order # <<>> /\ Pending(Pad, "touch") => seen = {} /\ \A a \in now : Due(a)
  /\ \A a \in Axis :
       /\ Due(a) => current[a] = 0
       /\ Due(a) /\ steady /\ ~Pending(Pad, "touch")
            => last[a] = abs[a] - travel[a] \/ (last[a] = None /\ a \notin seen)
       /\ ~Due(a) => last[a] \in {None, abs[a]}
       /\ ~Due(a) /\ order # <<>> /\ a \in now => last[a] = abs[a]
       /\ ~Due(a) /\ frame # <<>> /\ steady => current[a] \in {0, travel[a]}
  /\ frame # <<>> /\ steady => Cardinality(Dropped) <= Bit(paused /\ ~stale)

PinchFollows ==
  /\ begun.dist \in Nat
  /\ strayed = 0 /\ pinch_active => begun.dist = pinch_base_dist

MotionInv ==
  /\ TypeOK
  /\ ContactsOK
  /\ NothingLostByRounding
  /\ TableFollows
  /\ PositionsFollow
  /\ PinchFollows

\* README "Pinch Gesture": scale is "current distance / baseline distance".  The
\* base is the distance at the BEGIN as long as the same two contacts are meant.
PinchIsMeasured ==
  [][\A i \in DOMAIN out' :
       (out'[i].type = "pinch_update" /\ strayed = 0 /\ LowestTwo = begun.pair)
         => out'[i].dist * begun.dist = out'[i].base * (IF begun.dist > 0
                                                         THEN Distance(begun.pair)
                                                         ELSE 0)]_vars
=============================================================================
