------------------------------- MODULE Contacts -------------------------------
(***************************************************************************)
(* What the kernel sends for the contacts of a touchpad, slot by slot      *)
(* (external).  A frame names each slot that changed, unless it was the    *)
(* last one named, with its tracking id and the coordinates that differ    *)
(* from those the slot had last; then come BTN_TOUCH, the BTN_TOOL_* bits, *)
(* and ABS_X and ABS_Y, which follow the oldest contact; then SYN_REPORT.  *)
(***************************************************************************)
EXTENDS Integers, FiniteSets, Sequences, Functions

CONSTANTS
  HwSlots,      \* slots of the hardware
  Positions,    \* Positions[s]: where a contact in slot s may be
  MaxChanges    \* bound: slots that change in a frame

Axis == {"x", "y"}
Coordinates == UNION {{p[a] : p \in Positions[s], a \in Axis} : s \in HwSlots}

ASSUME ContactsAssumption ==
  /\ HwSlots \subseteq Nat /\ IsFiniteSet(HwSlots) /\ 0 \in HwSlots
  /\ Positions \in [HwSlots -> SUBSET [Axis -> Int]]
  /\ MaxChanges \in Nat \ {0}

VARIABLES
  order,     \* slots that have a contact, the oldest first
  at,        \* at[s]: the coordinates reported last for slot s
  mt_slot,   \* the slot named last
  abs,       \* ABS_X and ABS_Y as reported last
  frame,     \* what of the current frame was not yet processed, in groups:
             \* one for each slot that changed and one for the whole pad
  \* history
  steady,    \* the current frame left the oldest contact the oldest
  travel,    \* how far it moved in it
  seen, now  \* axes reported in this touch: in earlier frames, in any

padVars == <<order, at, mt_slot, abs, frame, steady, travel, seen, now>>

Down == Range(order)
Still == [a \in Axis |-> 0]

Event(code, value) == [code |-> code, value |-> value]

\* Only the events of a group are sent.
Group(slot, events) == [slot |-> slot, events |-> events]
Pad == -1
Bit(b) == IF b THEN 1 ELSE 0
When(b, s) == IF b THEN s ELSE <<>>
Changed(code, before, after) ==
  When(before # after, <<Event(code, Bit(after))>>)

\* A pad that was used before it is opened: any slot may have been named last.
\* That a first contact is exactly where the last one of its slot was, so that
\* the kernel does not tell, is left out.
ContactsInit ==
  /\ order = <<>>
  /\ at = [s \in HwSlots |-> Still]
  /\ mt_slot \in HwSlots
  /\ abs = Still
  /\ frame = <<>>
  /\ steady = TRUE
  /\ travel = Still
  /\ seen = {}
  /\ now = {}

\* The slots in which something changes if the contacts are D, at `to`.
ChangedSlots(D, to) ==
  {s \in HwSlots : (s \in D) # (s \in Down) \/ to[s] # at[s]}

SlotEvents(s, named, D, to) ==
  When(s # named, <<Event("mt_slot", s)>>)
    \o When((s \in D) # (s \in Down), <<Event("mt_id", IF s \in D THEN 1 ELSE -1)>>)
    \o When(to[s]["x"] # at[s]["x"], <<Event("mt_x", to[s]["x"])>>)
    \o When(to[s]["y"] # at[s]["y"], <<Event("mt_y", to[s]["y"])>>)

MtGroups(changed, D, to) ==
  [i \in 1..Len(changed) |->
     Group(changed[i],
           SlotEvents(changed[i], IF i = 1 THEN mt_slot ELSE changed[i - 1], D, to))]

Touches(n, m) ==
  Changed("touch", n > 0, m > 0)
    \o Changed("doubletap", n = 2, m = 2)
    \o Changed("tripletap", n = 3, m = 3)

SingleTouch(p) ==
  When(p["x"] # abs["x"], <<Event("abs_x", p["x"])>>)
    \o When(p["y"] # abs["y"], <<Event("abs_y", p["y"])>>)

\* Where the slots may be if the contacts are those of D: a slot that has none
\* keeps its coordinates.
Places(D) ==
  {[s \in HwSlots |-> IF s \in D THEN p[s] ELSE at[s]] :
     p \in {q \in [D -> UNION Range(Positions)] : \A s \in D : q[s] \in Positions[s]}}

\* The slots of S in ascending order.
Ascending(S) ==
  {s \in [1..Cardinality(S) -> S] : \A i, j \in DOMAIN s : i < j => s[i] < s[j]}

\* Slot s has had its contact for longer than slot t; of two that land in one
\* frame the lower is the older.
Older(s, t) ==
  IF s \in Down
  THEN t \in Down => \E i, j \in DOMAIN order : i < j /\ order[i] = s /\ order[j] = t
  ELSE t \notin Down /\ s < t

\* The slots of D, the oldest contact first.
ByAge(D) ==
  {s \in [1..Cardinality(D) -> D] : \A i, j \in DOMAIN s : i < j => Older(s[i], s[j])}

PadEvents(n, m, p) == Touches(n, m) \o SingleTouch(p) \o <<Event("syn", 0)>>

\* The contacts are those of D now, at `to`.
SendFrame(D, to) ==
  /\ frame = <<>>
  /\ Cardinality(ChangedSlots(D, to)) \in 1..MaxChanges
  /\ \E changed \in Ascending(ChangedSlots(D, to)), after \in ByAge(D) :
       LET p == IF D = {} THEN abs ELSE to[after[1]]
           same == order # <<>> /\ D # {}
       IN  /\ frame' = Append(MtGroups(changed, D, to),
                              Group(Pad, PadEvents(Len(order), Len(after), p)))
           /\ order' = after
           /\ at' = to
           /\ mt_slot' = changed[Len(changed)]
           /\ abs' = p
           /\ steady' = (same => order[1] = after[1])
           /\ travel' = IF same THEN [a \in Axis |-> to[after[1]][a] - at[after[1]][a]]
                                ELSE Still
           /\ seen' = IF order = <<>> THEN {} ELSE now
           /\ now' = seen' \cup {a \in Axis : p[a] # abs[a]}

\* The next event of the frame, and whether it is the last.
Upcoming == frame[1].events[1]
GroupEnds == Len(frame[1].events) = 1
FrameEnds == GroupEnds /\ Len(frame) = 1

\* The next event is `code` with a value in V.
Takes(code, V) ==
  /\ frame # <<>>
  /\ Upcoming.code = code
  /\ Upcoming.value \in V
  /\ frame' = IF GroupEnds THEN Tail(frame) ELSE [frame EXCEPT ![1].events = Tail(@)]
  /\ IF FrameEnds THEN steady' = TRUE /\ travel' = Still /\ seen' = {}
                  ELSE UNCHANGED <<steady, travel, seen>>
  /\ UNCHANGED <<order, at, mt_slot, abs, now>>
-----------------------------------------------------------------------------
(* The rest of a frame *)

\* The order of the events of a group.
Rank == [mt_slot |-> 1, mt_id |-> 2, mt_x |-> 3, mt_y |-> 4,
         touch |-> 1, doubletap |-> 2, tripletap |-> 3, abs_x |-> 4, abs_y |-> 5, syn |-> 6]
MtCode == [x |-> "mt_x", y |-> "mt_y"]
AbsCode == [x |-> "abs_x", y |-> "abs_y"]

Events == [code : DOMAIN Rank, value : Int]

\* What can be said of a slot, or of the pad, as they are now.
Truths(s) ==
  IF s = Pad
  THEN {Event("touch", Bit(order # <<>>)), Event("syn", 0)}
         \cup {Event(<<"doubletap", "tripletap">>[n - 1], v) :
                 n \in {n \in 2..3 : n <= Cardinality(HwSlots)}, v \in {0, 1}}
         \cup {Event(AbsCode[a], abs[a]) : a \in Axis}
  ELSE {Event("mt_slot", s), Event("mt_id", IF s \in Down THEN 1 ELSE -1)}
         \cup {Event(MtCode[a], at[s][a]) : a \in Axis}

Rising(events) ==
  \A i, j \in DOMAIN events : i < j => Rank[events[i].code] < Rank[events[j].code]

\* Each group tells the truth in order; the pad's comes last, and each but the
\* first names its slot.
GroupOK(i) ==
  LET slot == frame[i].slot
      events == frame[i].events
  IN  /\ slot = Pad <=> i = Len(frame)
      /\ events # <<>>
      /\ \A j \in DOMAIN events : events[j] \in Truths(slot)
      /\ Rising(events)
      /\ i > 1 /\ slot # Pad => events[1].code = "mt_slot"
      /\ slot = Pad => events[Len(events)].code = "syn"

FrameOK ==
  /\ frame \in Seq([slot : HwSlots \cup {Pad}, events : Seq(Events)])
  /\ \A i \in DOMAIN frame : GroupOK(i)

\* An event with this code of slot s is still to be processed.
Pending(s, code) ==
  \E i \in DOMAIN frame :
    frame[i].slot = s /\ \E j \in DOMAIN frame[i].events : frame[i].events[j].code = code

ContactsOK ==
  /\ order \in Seq(HwSlots) /\ IsInjective(order) /\ Len(order) <= Cardinality(HwSlots)
  /\ at \in [HwSlots -> [Axis -> Int]]
  /\ mt_slot \in HwSlots
  /\ abs \in [Axis -> Int]
  /\ order # <<>> => abs = at[order[1]]
  /\ steady \in BOOLEAN
  /\ travel \in [Axis -> Int]
  /\ seen \subseteq Axis /\ now \subseteq Axis
  /\ FrameOK
=============================================================================
