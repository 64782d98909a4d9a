---------------------------- MODULE PipelineProofs ----------------------------
(***************************************************************************)
(* Proofs, for any devices, batches and settings, that a drain serves      *)
(* every device that had something to read when it began, that a key the   *)
(* client was told of mutes the pads whose batch is fetched after it, that *)
(* a pad obeys the settings its getters answer, that every event belongs   *)
(* to one family, and that nothing a mouse did is lost or told twice.      *)
(***************************************************************************)
EXTENDS Pipeline, SequenceTheorems, FiniteSetTheorems, TLAPS

(***************************************************************************)
(* The events of a list of devices.                                        *)
(***************************************************************************)

LEMMA SetToSeqElements ==
  ASSUME NEW S, IsFiniteSet(S), NEW i \in DOMAIN SetToSeq(S)
  PROVE  SetToSeq(S)[i] \in S
<1>1. PICK f : f \in Bijection(1..Cardinality(S), S)
  BY FS_CardinalityType DEF ExistsBijection
<1>2. f \in [1..Cardinality(S) -> S] /\ IsInjective(f)
  BY <1>1 DEF Bijection, Injection
<1>3. SetToSeq(S) \in [1..Cardinality(S) -> S]
  BY <1>2 DEF SetToSeq
<1> QED
  BY <1>3

LEMMA Announced ==
  ASSUME NEW D \in SUBSET Dev, NEW type, NEW payload,
         NEW i \in DOMAIN SetToSeq({Sent(type, payload, d, <<>>) : d \in D})
  PROVE  \E c \in D : SetToSeq({Sent(type, payload, d, <<>>) : d \in D})[i]
                       = Sent(type, payload, c, <<>>)
<1> DEFINE T == {Sent(type, payload, d, <<>>) : d \in D}
           f == [d \in D |-> Sent(type, payload, d, <<>>)]
<1>1. IsFiniteSet(D)
  BY PipelineAssumption, FS_Subset
<1>2. \A d \in D : f[d].dev = d
  BY DEF Sent
<1>3. f \in [D -> T] /\ IsInjective(f)
  BY <1>2 DEF IsInjective
<1>4. \A t \in T : \E d \in D : f[d] = t
  OBVIOUS
<1>5. f \in Bijection(D, T)
  BY <1>3, <1>4 DEF Bijection, Injection, Surjection
<1> HIDE DEF f
<1>6. IsFiniteSet(T)
  BY <1>1, <1>5, FS_Bijection DEF ExistsBijection
<1>7. PICK d \in D : SetToSeq(T)[i] = Sent(type, payload, d, <<>>)
  BY <1>6, SetToSeqElements
<1> QED
  BY <1>7

-----------------------------------------------------------------------------
(* What an event becomes *)

\* A key the client is told of was a key press of a keyboard.
LEMMA PressedIsKey ==
  ASSUME NEW d, NEW e, NEW i \in DOMAIN OutOf(d, e), Pressed(OutOf(d, e)[i])
  PROVE  Route(d) = "keyboard" /\ e.type = "key" /\ e.value = 1
<1> DEFINE o == OutOf(d, e)[i]
<1>1. o.type = "keyboard_key"
  BY DEF Pressed, Converts, FamilyTypes, KeyboardTypes
<1>2. CASE Route(d) = "keyboard"
  <2>1. OutOf(d, e) = OfKey(d, e)
    BY <1>2 DEF OutOf
  <2>2. /\ e.type = "key"
        /\ o = Sent("keyboard_key", "KeyboardKey", d, [key |-> e.code, key_state |-> e.value])
    BY <2>1 DEF OfKey
  <2>3. o.data["key_state"] = e.value
    BY <2>2 DEF Sent
  <2>4. Read("keyboard", "key_state", o) = 1
    BY DEF Pressed
  <2>5. e.value = 1
    BY <2>3, <2>4 DEF Read
  <2> QED
    BY <1>2, <2>2, <2>5
<1>3. CASE Route(d) # "keyboard"
  <2>1. OutOf(d, e) \in {OfMouse(d, e), OfPad(d, e), <<>>}
    BY <1>3 DEF OutOf, Route
  <2>2. CASE OutOf(d, e) = OfMouse(d, e)
    BY <1>1, <2>2 DEF OfMouse, Motion, Axis, Button, Sent
  <2>3. CASE OutOf(d, e) = OfPad(d, e)
    BY <1>1, <2>3 DEF OfPad, Motion, Axis, Button, Update, Sent
  <2> QED
    BY <2>1, <2>2, <2>3
<1> QED
  BY <1>2, <1>3

\* Whatever is sent is of the device that was read.
LEMMA SentByDevice ==
  ASSUME NEW d, NEW e, NEW i \in DOMAIN OutOf(d, e)
  PROVE  OutOf(d, e)[i].dev = d
<1>1. OutOf(d, e) \in {OfKey(d, e), OfMouse(d, e), OfPad(d, e), <<>>}
  BY DEF OutOf
<1>2. CASE OutOf(d, e) = OfKey(d, e)
  BY <1>2 DEF OfKey, Sent
<1>3. CASE OutOf(d, e) = OfMouse(d, e)
  BY <1>3 DEF OfMouse, Motion, Axis, Button, Sent
<1>4. CASE OutOf(d, e) = OfPad(d, e)
  BY <1>4 DEF OfPad, Motion, Axis, Button, Update, Sent
<1> QED
  BY <1>1, <1>2, <1>3, <1>4

\* A pad under DWT sends nothing.
LEMMA MutedPad ==
  ASSUME NEW d, NEW e, Class[d].is_absolute, dwt_active
  PROVE  OutOf(d, e) = <<>>
<1>1. Route(d) = "absolute"
  BY DEF Route
<1> QED
  BY <1>1 DEF OutOf, OfPad

-----------------------------------------------------------------------------
(* Types *)

LEMMA InputsOfDevice == \A d : InputsOf(d) \subseteq Inputs
  BY DEF InputsOf, Inputs

\* An event more, and the two halves of a queue that is cut.
LEMMA QueueGrows ==
  ASSUME NEW S, NEW s \in Seq(S), NEW e \in S
  PROVE  Append(s, e) \in Seq(S) /\ Append(s, e) # <<>>
<1>1. Append(s, e) \in Seq(S) /\ Len(Append(s, e)) = Len(s) + 1
  OBVIOUS
<1>2. Len(s) \in Nat
  OBVIOUS
<1>3. Len(Append(s, e)) # 0
  BY <1>1, <1>2
<1> QED
  BY <1>1, <1>3

LEMMA QueueIsCut ==
  ASSUME NEW S, NEW s \in Seq(S), NEW n \in 1..Len(s)
  PROVE  /\ SubSeq(s, 1, n) \in Seq(S) /\ SubSeq(s, 1, n) # <<>>
         /\ SubSeq(s, n + 1, Len(s)) \in Seq(S)
<1>1. Len(s) \in Nat /\ s \in [1..Len(s) -> S]
  OBVIOUS
<1>2. \A i \in 1..n : s[i] \in S
  BY <1>1
<1>3. \A i \in n + 1..Len(s) : s[i] \in S
  BY <1>1
<1>4. SubSeq(s, 1, n) \in Seq(S) /\ Len(SubSeq(s, 1, n)) = n
  BY <1>1, <1>2
<1>5. SubSeq(s, n + 1, Len(s)) \in Seq(S)
  BY <1>1, <1>3
<1> QED
  BY <1>4, <1>5

LEMMA AgesAge ==
  ASSUME NEW a \in Ages
  PROVE  /\ Aged(a) \in Ages
         /\ \A b \in Ages : a <= b => Aged(a) <= Aged(b)
  BY PipelineAssumption DEF Ages, Aged

\* The options a pad obeys are fields of its own.
LEMMA OptionsKept ==
  /\ {"natural_scroll", "accel_speed", "tap_enabled", "dwt_enabled"} \subseteq Fields
  /\ Option["accel_speed"].initial = 0
<1>1. ASSUME NEW o, NEW h \in Groups, o \in DOMAIN h,
             \A g \in Groups : o \in DOMAIN g => g = h
      PROVE  o \in DOMAIN Option /\ Option[o] = h[o]
  BY <1>1 DEF Option
<1>2. /\ "tap_enabled" \in DOMAIN Tap
      /\ \A g \in Groups : "tap_enabled" \in DOMAIN g => g = Tap
  BY DEF Groups, Tap, Accel, NaturalScroll, LeftHanded, Scroll, Click,
         MiddleEmulation, Dwt, Calibration, Compatibility
<1>3. /\ "accel_speed" \in DOMAIN Accel
      /\ \A g \in Groups : "accel_speed" \in DOMAIN g => g = Accel
  BY DEF Groups, Tap, Accel, NaturalScroll, LeftHanded, Scroll, Click,
         MiddleEmulation, Dwt, Calibration, Compatibility
<1>4. /\ "natural_scroll" \in DOMAIN NaturalScroll
      /\ \A g \in Groups : "natural_scroll" \in DOMAIN g => g = NaturalScroll
  BY DEF Groups, Tap, Accel, NaturalScroll, LeftHanded, Scroll, Click,
         MiddleEmulation, Dwt, Calibration, Compatibility
<1>5. /\ "dwt_enabled" \in DOMAIN Dwt
      /\ \A g \in Groups : "dwt_enabled" \in DOMAIN g => g = Dwt
  BY DEF Groups, Tap, Accel, NaturalScroll, LeftHanded, Scroll, Click,
         MiddleEmulation, Dwt, Calibration, Compatibility
<1>6. {Tap, Accel, NaturalScroll, Dwt} \subseteq Groups
  BY DEF Groups
<1>7. /\ "tap_enabled" \in DOMAIN Option /\ Option["tap_enabled"] = Tap["tap_enabled"]
      /\ "accel_speed" \in DOMAIN Option /\ Option["accel_speed"] = Accel["accel_speed"]
      /\ "natural_scroll" \in DOMAIN Option /\ Option["natural_scroll"] = NaturalScroll["natural_scroll"]
      /\ "dwt_enabled" \in DOMAIN Option /\ Option["dwt_enabled"] = Dwt["dwt_enabled"]
  BY <1>1, <1>2, <1>3, <1>4, <1>5, <1>6
<1> QED
  BY <1>7 DEF Fields, Tap, Accel, NaturalScroll, Dwt, Stored

Typed(s) == DOMAIN s = Fields /\ s.accel_speed \in -1..1

LEMMA NewIsTyped == Typed(NewSettings)
  BY OptionsKept DEF Typed, NewSettings

LEMMA SetKeepsTypes ==
  ASSUME NEW s, Typed(s), NEW c \in Changes
  PROVE  Typed(Set(s, c[1], c[2]))
<1>1. CASE c[1] = "accel_speed"
  <2>1. c[2] \in Int
    BY <1>1, PipelineAssumption
  <2>2. Set(s, c[1], c[2]) = [s EXCEPT !["accel_speed"] = Clamped(c[2])]
    BY <1>1, OptionsKept DEF Set, Kept
  <2>3. Clamped(c[2]) \in -1..1
    BY <2>1 DEF Clamped
  <2> QED
    BY <2>2, <2>3, OptionsKept DEF Typed
<1>2. CASE c[1] # "accel_speed"
  BY <1>2 DEF Set, Typed
<1> QED
  BY <1>1, <1>2

LEMMA TypesStart == Init => TypeOK
<1> SUFFICES ASSUME Init PROVE TypeOK
  OBVIOUS
<1>1. <<>> \in Seq(Inputs) /\ \A d : <<>> \in Seq(InputsOf(d))
  OBVIOUS
<1>2. queue \in [Dev -> Seq(Inputs)] /\ \A d \in Dev : queue[d] \in Seq(InputsOf(d))
  BY <1>1 DEF Init
<1>3. DwtTimeout \in Ages
  BY PipelineAssumption DEF Ages
<1>4. \A d \in Dev : Typed(settings[d])
  BY NewIsTyped DEF Init
<1> QED
  BY <1>1, <1>2, <1>3, <1>4 DEF Init, TypeOK, Typed

LEMMA TypesTick == TypeOK /\ Tick => TypeOK'
<1> SUFFICES ASSUME TypeOK, Tick PROVE TypeOK'
  OBVIOUS
<1>1. {typing, typed, keyed, before} \subseteq Ages
  BY DEF TypeOK
<1>2. {typing', typed', keyed', before'} \subseteq Ages
  BY <1>1, AgesAge DEF Tick
<1> QED
  BY <1>2 DEF TypeOK, Tick, kernelVars

LEMMA TypesSend == TypeOK /\ (\E d \in Dev : Send(d)) => TypeOK'
<1> SUFFICES ASSUME TypeOK, NEW d \in Dev, Send(d) PROVE TypeOK'
  OBVIOUS
<1>1. PICK e \in InputsOf(d) : queue' = [queue EXCEPT ![d] = Append(@, e)]
  BY DEF Send
<1>2. /\ queue \in [Dev -> Seq(Inputs)]
      /\ \A c \in Dev : queue[c] \in Seq(InputsOf(c))
  BY DEF TypeOK
<1>3. Append(queue[d], e) \in Seq(Inputs) /\ Append(queue[d], e) \in Seq(InputsOf(d))
  BY <1>2, InputsOfDevice, QueueGrows
<1>4. queue' \in [Dev -> Seq(Inputs)] /\ \A c \in Dev : queue'[c] \in Seq(InputsOf(c))
  BY <1>1, <1>2, <1>3
<1> QED
  BY <1>4 DEF TypeOK, Send, drainVars

LEMMA TypesClient ==
  /\ TypeOK /\ (\E d \in Pluggable : Unplug(d) \/ Plug(d)) => TypeOK'
  /\ TypeOK /\ (\E d \in Configured, c \in Changes : Configure(d, c[1], c[2])) => TypeOK'
<1>1. ASSUME TypeOK, NEW d \in Pluggable, Unplug(d) PROVE TypeOK'
  <2>1. d \in Dev
    BY PipelineAssumption
  <2>2. <<>> \in Seq(Inputs) /\ \A c : <<>> \in Seq(InputsOf(c))
    OBVIOUS
  <2>3. queue' \in [Dev -> Seq(Inputs)] /\ \A c \in Dev : queue'[c] \in Seq(InputsOf(c))
    BY <1>1, <2>1, <2>2 DEF TypeOK, Unplug
  <2> QED
    BY <1>1, <2>3 DEF TypeOK, Unplug, drainVars
<1>2. ASSUME TypeOK, NEW d \in Pluggable, Plug(d) PROVE TypeOK'
  BY <1>2, PipelineAssumption DEF TypeOK, Plug, drainVars
<1>3. ASSUME TypeOK, NEW d \in Configured, NEW c \in Changes, Configure(d, c[1], c[2])
      PROVE  TypeOK'
  <2>1. \A b \in Dev : settings'[b] \in {settings[b], Set(settings[b], c[1], c[2])}
    BY <1>3 DEF Configure
  <2>2. \A b \in Dev : Typed(settings'[b])
    BY <1>3, <2>1, SetKeepsTypes DEF TypeOK, Typed
  <2> QED
    BY <1>3, <2>2 DEF TypeOK, Configure, kernelVars, drainVars, Typed
<1> QED
  BY <1>1, <1>2, <1>3

LEMMA TypesDrain ==
  /\ TypeOK /\ CopiesAreCurrent /\ Dispatch => TypeOK'
  /\ TypeOK /\ EndDrain => TypeOK'
<1>1. ASSUME TypeOK, CopiesAreCurrent, Dispatch PROVE TypeOK'
  <2>1. tracked' = tracked \cup plugged /\ fds' = tracked' /\ dead_fds' = {}
    BY <1>1 DEF CopiesAreCurrent, Dispatch
  <2>2. \A d \in Dev : settings'[d] \in {NewSettings, settings[d]}
    BY <1>1 DEF Dispatch
  <2>3. \A d \in Dev : Typed(settings'[d])
    BY <1>1, <2>2, NewIsTyped DEF TypeOK, Typed
  <2>4. unserved' \subseteq Dev /\ draining' = TRUE
    BY <1>1 DEF Dispatch
  <2> QED
    BY <1>1, <2>1, <2>3, <2>4 DEF TypeOK, Dispatch, kernelVars, Typed
<1>2. ASSUME TypeOK, EndDrain PROVE TypeOK'
  BY <1>2 DEF TypeOK, EndDrain, kernelVars
<1> QED
  BY <1>1, <1>2

\* What fetching n events changes.
Fetches(d, n) ==
  /\ n \in 1..Len(queue[d])
  /\ evs' = SubSeq(queue[d], 1, n)
  /\ queue' = [queue EXCEPT ![d] = SubSeq(@, n + 1, Len(@))]

LEMMA VisitFetches ==
  ASSUME TypeOK, NEW d \in Dev, Visit(d), queue[d] # <<>>
  PROVE  /\ \E n \in Nat : Fetches(d, n)
         /\ cur = None /\ d \in fds
         /\ cur' = d /\ fds' = fds \ {d} /\ cfg' = ConfigOf(settings[d])
         /\ typed' = typing /\ before' = keyed
         /\ unserved' = unserved \ {d}
         /\ out' = <<>>
         /\ UNCHANGED <<dead_fds, plugged, tracked, settings, typing, draining, keyed,
                        owed>>
<1>1. \E n \in 1..BatchSize :
        /\ n <= Len(queue[d])
        /\ evs' = SubSeq(queue[d], 1, n)
        /\ queue' = [queue EXCEPT ![d] = SubSeq(@, n + 1, Len(@))]
  BY DEF Visit
<1>2. queue[d] \in Seq(Inputs)
  BY DEF TypeOK
<1>3. Len(queue[d]) \in Nat /\ BatchSize \in Nat
  BY <1>2, PipelineAssumption
<1>4. \E n \in Nat : Fetches(d, n)
  <2>1. PICK n \in 1..BatchSize :
          /\ n <= Len(queue[d])
          /\ evs' = SubSeq(queue[d], 1, n)
          /\ queue' = [queue EXCEPT ![d] = SubSeq(@, n + 1, Len(@))]
    BY <1>1
  <2>2. n \in Nat /\ n \in 1..Len(queue[d])
    BY <1>3, <2>1
  <2>3. Fetches(d, n)
    BY <2>1, <2>2 DEF Fetches
  <2> QED
    BY <2>2, <2>3
<1> QED
  BY <1>4 DEF Visit, Copied

LEMMA VisitFindsNothing ==
  ASSUME NEW d \in Dev, Visit(d), queue[d] = <<>>
  PROVE  /\ cur = None /\ d \in fds
         /\ fds' = fds \ {d}
         /\ dead_fds' \in {dead_fds, dead_fds \cup {d}}
         /\ out' = <<>>
         /\ UNCHANGED <<queue, cur, evs, cfg, typed, before, unserved, plugged,
                        tracked, settings, typing, draining, keyed, owed>>
  BY DEF Visit, Others

LEMMA TypesVisit == TypeOK /\ (\E d \in Dev : Visit(d)) => TypeOK'
<1> SUFFICES ASSUME TypeOK, NEW d \in Dev, Visit(d) PROVE TypeOK'
  OBVIOUS
<1>1. CASE queue[d] # <<>>
  <2>1. PICK n \in Nat : Fetches(d, n)
    BY <1>1, VisitFetches
  <2>2. /\ queue \in [Dev -> Seq(Inputs)]
        /\ \A c \in Dev : queue[c] \in Seq(InputsOf(c))
    BY DEF TypeOK
  <2>3. evs' \in Seq(Inputs) /\ evs' \in Seq(InputsOf(d)) /\ evs' # <<>>
    BY <2>1, <2>2, QueueIsCut DEF Fetches
  <2>4. /\ SubSeq(queue[d], n + 1, Len(queue[d])) \in Seq(Inputs)
        /\ SubSeq(queue[d], n + 1, Len(queue[d])) \in Seq(InputsOf(d))
    BY <2>1, <2>2, QueueIsCut DEF Fetches
  <2>5. queue' \in [Dev -> Seq(Inputs)] /\ \A c \in Dev : queue'[c] \in Seq(InputsOf(c))
    BY <2>1, <2>2, <2>4 DEF Fetches
  <2>6. cur' = d /\ d # None
    BY <1>1, VisitFetches, PipelineAssumption
  <2> QED
    BY <1>1, <2>3, <2>5, <2>6, VisitFetches DEF TypeOK
<1>2. CASE queue[d] = <<>>
  BY <1>2, VisitFindsNothing DEF TypeOK
<1> QED
  BY <1>1, <1>2

LEMMA TypesProcess == TypeOK /\ ProcessEvent => TypeOK'
<1> SUFFICES ASSUME TypeOK, ProcessEvent PROVE TypeOK'
  OBVIOUS
<1>1. 0 \in Ages /\ DwtTimeout \in Ages
  BY PipelineAssumption DEF Ages
<1>2. typing' \in {0, typing} /\ keyed' \in {0, keyed}
  BY DEF ProcessEvent, TypingTime
<1>3. typed' \in {DwtTimeout, typed} /\ before' \in {DwtTimeout, before}
  BY DEF ProcessEvent
<1>4. {typing', typed', keyed', before'} \subseteq Ages
  BY <1>1, <1>2, <1>3 DEF TypeOK
<1>5. evs \in Seq(Inputs) /\ evs # <<>> /\ evs' = Tail(evs) /\ cur \in Dev \cup {None}
  BY DEF TypeOK, ProcessEvent
<1>6. evs' \in Seq(Inputs) /\ Len(evs') = Len(evs) - 1 /\ Len(evs) \in Nat \ {0}
  BY <1>5
<1>7. cur' # None => evs' \in Seq(InputsOf(cur'))
  <2>1. cur # None /\ cur' \in {cur, None} /\ evs \in Seq(InputsOf(cur))
    BY DEF ProcessEvent, TypeOK
  <2> QED
    BY <1>5, <2>1
<1>8. cur' \in Dev \cup {None} /\ (cur' # None <=> evs' # <<>>)
  <2>1. cur # None /\ cur' = IF Len(evs) > 1 THEN cur ELSE None
    BY DEF ProcessEvent
  <2>2. evs' # <<>> <=> Len(evs') # 0
    BY <1>6
  <2> QED
    BY <1>5, <1>6, <2>1, <2>2
<1> QED
  BY <1>4, <1>6, <1>7, <1>8 DEF TypeOK, ProcessEvent, kernelVars

LEMMA TypesPreserved == TypeOK /\ CopiesAreCurrent /\ [Next]_vars => TypeOK'
<1>1. TypeOK /\ UNCHANGED vars => TypeOK'
  BY DEF TypeOK, vars
<1> QED
  BY <1>1, TypesTick, TypesSend, TypesClient, TypesDrain, TypesVisit, TypesProcess
     DEF Next
-----------------------------------------------------------------------------
(* The ages *)

\* The shared time is never older than the last key the client was told of.
LEMMA KeysAreTimed ==
  ASSUME TypeOK, CopiesAreCurrent, ProcessEvent
  PROVE  typing' <= keyed'
<1>1. typing \in Ages /\ keyed \in Ages /\ typing <= keyed
  BY DEF TypeOK, CopiesAreCurrent
<1>2. CASE \E i \in DOMAIN out' : Pressed(out'[i])
  <2>1. PICK i \in DOMAIN out' : Pressed(out'[i])
    BY <1>2
  <2>2. out' = OutOf(cur, Head(evs)) /\ typing' = TypingTime(cur, Head(evs))
    BY DEF ProcessEvent
  <2>3. typing' = 0
    BY <2>1, <2>2, PressedIsKey DEF TypingTime
  <2>4. keyed' = 0
    BY <1>2 DEF ProcessEvent
  <2> QED
    BY <2>3, <2>4
<1>3. CASE ~ \E i \in DOMAIN out' : Pressed(out'[i])
  <2>1. keyed' = keyed /\ typing' \in {0, typing}
    BY <1>3 DEF ProcessEvent, TypingTime
  <2> QED
    BY <1>1, <2>1 DEF Ages
<1> QED
  BY <1>2, <1>3

LEMMA CopiesInProcess ==
  TypeOK /\ CopiesAreCurrent /\ ProcessEvent => CopiesAreCurrent'
<1> SUFFICES ASSUME TypeOK, CopiesAreCurrent, ProcessEvent PROVE CopiesAreCurrent'
  OBVIOUS
<1>1. typing' <= keyed'
  BY KeysAreTimed
<1>2. /\ cur # None
      /\ IF Len(evs) > 1 THEN UNCHANGED <<cur, cfg, typed, before>>
         ELSE cur' = None /\ typed' = DwtTimeout /\ before' = DwtTimeout
      /\ UNCHANGED <<settings, draining, fds, dead_fds>>
  BY DEF ProcessEvent
<1>3. typed' <= before'
  BY <1>2, PipelineAssumption DEF CopiesAreCurrent
<1>4. cur' # None => draining' /\ cfg' = ConfigOf(settings'[cur'])
  BY <1>2 DEF CopiesAreCurrent
<1> QED
  BY <1>1, <1>2, <1>3, <1>4 DEF CopiesAreCurrent

LEMMA CopiesInVisit ==
  ASSUME TypeOK, CopiesAreCurrent, NEW d \in Dev, Visit(d)
  PROVE  CopiesAreCurrent'
<1>1. draining
  <2>1. d \in fds
    BY DEF Visit
  <2> QED
    BY <2>1 DEF CopiesAreCurrent
<1>2. CASE queue[d] # <<>>
  BY <1>1, <1>2, VisitFetches DEF CopiesAreCurrent
<1>3. CASE queue[d] = <<>>
  BY <1>1, <1>3, VisitFindsNothing DEF CopiesAreCurrent
<1> QED
  BY <1>2, <1>3

LEMMA CopiesPreserved ==
  TypeOK /\ CopiesAreCurrent /\ [Next]_vars => CopiesAreCurrent'
<1> SUFFICES ASSUME TypeOK, CopiesAreCurrent, [Next]_vars PROVE CopiesAreCurrent'
  OBVIOUS
<1>1. CASE Tick
  <2>1. typing' <= keyed' /\ typed' <= before'
    BY <1>1, AgesAge DEF Tick, TypeOK, CopiesAreCurrent
  <2> QED
    BY <1>1, <2>1 DEF CopiesAreCurrent, Tick
<1>2. CASE Dispatch
  BY <1>2 DEF CopiesAreCurrent, Dispatch
<1>3. CASE ProcessEvent
  BY <1>3, CopiesInProcess
<1>4. CASE EndDrain
  BY <1>4 DEF CopiesAreCurrent, EndDrain
<1>5. ASSUME NEW d \in Dev, Send(d) PROVE CopiesAreCurrent'
  BY <1>5 DEF CopiesAreCurrent, Send, drainVars
<1>6. ASSUME NEW d \in Dev, Visit(d) PROVE CopiesAreCurrent'
  BY <1>6, CopiesInVisit
<1>7. ASSUME NEW d \in Pluggable, Unplug(d) \/ Plug(d) PROVE CopiesAreCurrent'
  BY <1>7 DEF CopiesAreCurrent, Unplug, Plug, drainVars
<1>8. ASSUME NEW d \in Configured, NEW c \in Changes, Configure(d, c[1], c[2])
      PROVE  CopiesAreCurrent'
  BY <1>8 DEF CopiesAreCurrent, Configure, drainVars
<1>9. CASE UNCHANGED vars
  BY <1>9 DEF CopiesAreCurrent, vars
<1> QED
  BY <1>1, <1>2, <1>3, <1>4, <1>5, <1>6, <1>7, <1>8, <1>9 DEF Next
-----------------------------------------------------------------------------
(* The devices to be served *)

LEMMA WaitingInVisit ==
  ASSUME TypeOK, UnservedIsWaiting, NEW d \in Dev, Visit(d)
  PROVE  UnservedIsWaiting'
<1>1. CASE queue[d] # <<>>
  <2>1. PICK n \in Nat : Fetches(d, n)
    BY <1>1, VisitFetches
  <2>2. \A c \in Dev : c # d => queue'[c] = queue[c]
    BY <2>1 DEF Fetches, TypeOK
  <2>3. \A c \in Dev : queue'[c] # <<>> => c \in plugged'
    BY <1>1, <2>2, VisitFetches DEF UnservedIsWaiting
  <2>4. /\ unserved' = unserved \ {d} /\ fds' = fds \ {d} /\ draining' = draining
        /\ unserved \subseteq Dev
    BY <1>1, VisitFetches DEF TypeOK
  <2> QED
    BY <2>2, <2>3, <2>4 DEF UnservedIsWaiting
<1>2. CASE queue[d] = <<>>
  <2>1. fds' = fds \ {d} /\ UNCHANGED <<queue, unserved, plugged, draining>>
    BY <1>2, VisitFindsNothing
  <2> QED
    BY <1>2, <2>1 DEF UnservedIsWaiting
<1> QED
  BY <1>1, <1>2

LEMMA WaitingPreserved ==
  TypeOK /\ UnservedIsWaiting /\ [Next]_vars => UnservedIsWaiting'
<1> SUFFICES ASSUME TypeOK, UnservedIsWaiting, [Next]_vars PROVE UnservedIsWaiting'
  OBVIOUS
<1>1. CASE Tick \/ ProcessEvent \/ UNCHANGED vars
  <2>1. UNCHANGED <<plugged, queue, draining, fds, unserved>>
    BY <1>1 DEF Tick, ProcessEvent, vars, kernelVars
  <2> QED
    BY <2>1 DEF UnservedIsWaiting
<1>2. CASE Dispatch
  <2>1. /\ fds' = tracked \cup plugged /\ unserved' = {d \in Dev : queue[d] # <<>>}
        /\ UNCHANGED <<plugged, queue>>
    BY <1>2 DEF Dispatch, kernelVars
  <2> QED
    BY <2>1 DEF UnservedIsWaiting
<1>3. CASE EndDrain
  BY <1>3 DEF UnservedIsWaiting, EndDrain, kernelVars
<1>4. ASSUME NEW d \in Dev, Send(d) PROVE UnservedIsWaiting'
  <2>1. /\ d \in plugged /\ ~draining'
        /\ plugged' = plugged
        /\ \A c \in Dev : c # d => queue'[c] = queue[c]
    BY <1>4 DEF Send, drainVars, TypeOK
  <2> QED
    BY <2>1 DEF UnservedIsWaiting
<1>5. ASSUME NEW d \in Dev, Visit(d) PROVE UnservedIsWaiting'
  BY <1>5, WaitingInVisit
<1>6. ASSUME NEW d \in Pluggable, Unplug(d) PROVE UnservedIsWaiting'
  <2>1. /\ ~draining' /\ plugged' = plugged \ {d}
        /\ \A c \in Dev : queue'[c] = IF c = d THEN <<>> ELSE queue[c]
    BY <1>6 DEF Unplug, drainVars, TypeOK
  <2> QED
    BY <2>1 DEF UnservedIsWaiting
<1>7. ASSUME NEW d \in Pluggable, Plug(d) PROVE UnservedIsWaiting'
  BY <1>7 DEF UnservedIsWaiting, Plug, drainVars
<1>8. ASSUME NEW d \in Configured, NEW c \in Changes, Configure(d, c[1], c[2])
      PROVE  UnservedIsWaiting'
  BY <1>8 DEF UnservedIsWaiting, Configure, kernelVars, drainVars
<1> QED
  BY <1>1, <1>2, <1>3, <1>4, <1>5, <1>6, <1>7, <1>8 DEF Next
-----------------------------------------------------------------------------
(* The invariant *)

LEMMA Start == Init => TypeOK /\ CopiesAreCurrent /\ UnservedIsWaiting
<1>1. Init => CopiesAreCurrent
  BY PipelineAssumption DEF Init, CopiesAreCurrent
<1>2. Init => UnservedIsWaiting
  BY DEF Init, UnservedIsWaiting
<1> QED
  BY <1>1, <1>2, TypesStart

\* drain_into_queue keeps its books whatever the devices, the batches and the
\* settings are: the copies made before a batch are those of its device, the
\* time copied is no older than the last key the client was told of, and a
\* device with events is still to be visited.
LEMMA CopiesInvariant == Spec => [](TypeOK /\ CopiesAreCurrent /\ UnservedIsWaiting)
<1> DEFINE Inv == TypeOK /\ CopiesAreCurrent /\ UnservedIsWaiting
<1>1. Init => Inv
  BY Start
<1>2. Inv /\ [Next]_vars => Inv'
  BY TypesPreserved, CopiesPreserved, WaitingPreserved
<1> QED
  BY <1>1, <1>2, PTL DEF Spec

\* drain_into_queue goes on with the next device when one has nothing to read:
\* however many devices there are and in whatever order they are visited, none
\* that had events when the drain began is left out.
THEOREM EveryDeviceGetsItsTurn == Spec => EveryDeviceIsServed
<1>1. /\ TypeOK /\ UnservedIsWaiting /\ [Next]_vars
      => [draining /\ ~draining' => unserved = {}]_vars
  <2> SUFFICES ASSUME TypeOK, UnservedIsWaiting, [Next]_vars, draining, ~draining'
               PROVE  unserved = {}
    OBVIOUS
  <2>1. EndDrain
    BY DEF Next, Tick, Dispatch, ProcessEvent, Send, Visit, Unplug, Plug, Configure,
           drainVars, vars
  <2> QED
    BY <2>1 DEF EndDrain, UnservedIsWaiting, TypeOK
<1> QED
  BY <1>1, CopiesInvariant, PTL DEF Spec, EveryDeviceIsServed
-----------------------------------------------------------------------------
(* Disable while typing *)

\* What comes and goes is told by events of types of its own.
LEMMA OnlyProcessingTells ==
  ASSUME TypeOK, Next, NEW i \in DOMAIN out'
  PROVE  \/ ProcessEvent
         \/ \E d \in Dev : out'[i] \in {Sent("device_added", "DeviceAdded", d, <<>>),
                                      Sent("device_removed", "DeviceRemoved", d, <<>>)}
<1>1. CASE Dispatch
  <2> DEFINE fresh == plugged \ tracked
  <2>1. out' = SetToSeq({Sent("device_added", "DeviceAdded", d, <<>>) : d \in fresh})
    BY <1>1 DEF Dispatch
  <2>2. fresh \in SUBSET Dev
    BY DEF TypeOK
  <2> HIDE DEF fresh
  <2> QED
    BY <2>1, <2>2, Announced
<1>2. CASE EndDrain
  <2>1. out' = SetToSeq({Sent("device_removed", "DeviceRemoved", d, <<>>) :
                           d \in dead_fds})
    BY <1>2 DEF EndDrain
  <2>2. dead_fds \in SUBSET Dev
    BY DEF TypeOK
  <2> QED
    BY <2>1, <2>2, Announced
<1>3. CASE ~(Dispatch \/ ProcessEvent \/ EndDrain)
  <2>1. out' = <<>>
    BY <1>3 DEF Next, Tick, Send, Visit, Unplug, Plug, Configure
  <2> QED
    BY <2>1
<1> QED
  BY <1>1, <1>2, <1>3

LEMMA ToldByProcessing ==
  ASSUME TypeOK, Next, NEW i \in DOMAIN out', ~Converts("notify", out'[i])
  PROVE  ProcessEvent
<1>1. out'[i].type \notin {"device_added", "device_removed"}
  BY DEF Converts, FamilyTypes, NotifyTypes
<1> QED
  BY <1>1, OnlyProcessingTells DEF Sent

\* README "Configuration", disable_while_typing: for any number of keyboards
\* and pads, whatever the order of the visits and the size of the batches, a
\* pad says nothing as long as the last key the client had been told of when
\* its batch was fetched is younger than the timeout.
THEOREM TypingMutesPads == Spec => DwtMutesPad
<1>1. /\ TypeOK /\ CopiesAreCurrent /\ [Next]_vars
      => [\A i \in DOMAIN out' :
            LET d == out'[i].dev IN
            (~Converts("notify", out'[i]) /\ Class[d].is_absolute
               /\ settings[d].dwt_enabled)
              => before = DwtTimeout]_vars
  <2> SUFFICES ASSUME TypeOK, CopiesAreCurrent, Next, NEW i \in DOMAIN out',
                      ~Converts("notify", out'[i]),
                      Class[out'[i].dev].is_absolute,
                      settings[out'[i].dev].dwt_enabled,
                      before # DwtTimeout
               PROVE  FALSE
    OBVIOUS
  <2>1. ProcessEvent
    BY ToldByProcessing
  <2>2. cur # None /\ out' = OutOf(cur, Head(evs))
    BY <2>1 DEF ProcessEvent
  <2>3. out'[i].dev = cur
    BY <2>2, SentByDevice
  <2>4. cfg.dwt
    BY <2>2, <2>3 DEF CopiesAreCurrent, ConfigOf
  <2>5. typed < DwtTimeout
    BY PipelineAssumption DEF TypeOK, CopiesAreCurrent, Ages
  <2>6. OutOf(cur, Head(evs)) = <<>>
    BY <2>3, <2>4, <2>5, MutedPad DEF dwt_active
  <2> QED
    BY <2>2, <2>6
<1> QED
  BY <1>1, CopiesInvariant, PTL DEF Spec, DwtMutesPad
-----------------------------------------------------------------------------
(* The settings *)

\* What a pad sends that a setting decides.
LEMMA PadObeysCopies ==
  ASSUME NEW d, NEW e, Class[d].is_absolute, NEW i \in DOMAIN OutOf(d, e)
  PROVE  LET o == OutOf(d, e)[i] IN
         /\ e.type = "pad"
         /\ o.type = "scroll_finger" =>
              o = Axis(d, "scroll_finger", 0, Turned(e.value))
         /\ o.type = "pointer_motion" => o = Motion(d, cfg.accel * e.value, 0)
         /\ o.type = "pointer_button" => cfg.tap
<1>1. Route(d) = "absolute"
  BY DEF Route
<1>2. e.type = "pad" /\ OutOf(d, e) = OfPad(d, e)
  BY <1>1 DEF OutOf
<1>3. OfPad(d, e) # <<>>
  BY <1>2
<1>4. \/ OfPad(d, e) = <<Motion(d, cfg.accel * e.value, 0)>>
      \/ OfPad(d, e) = <<Axis(d, "scroll_finger", 0, Turned(e.value))>>
      \/ OfPad(d, e) = <<Update(d, "swipe_update", "GestureSwipeUpdate")>>
      \/ OfPad(d, e) = <<Update(d, "pinch_update", "GesturePinchUpdate")>>
      \/ cfg.tap /\ OfPad(d, e) = <<Button(d, "left", 1), Button(d, "left", 0)>>
  BY <1>3 DEF OfPad
<1> QED
  BY <1>2, <1>4 DEF Motion, Axis, Update, Button, Sent

\* The accessors answer with what was sent.
LEMMA AxisIsRead ==
  ASSUME NEW d, NEW type \in {"scroll_finger", "scroll_wheel"}, NEW axis, NEW v
  PROVE  Read("pointer", "axis_value_discrete", Axis(d, type, axis, v)) = v
<1>1. Converts("pointer", Axis(d, type, axis, v))
  BY DEF Converts, FamilyTypes, PointerTypes, Axis, Sent
<1>2. "axis_value_discrete" \in Answers("pointer", Axis(d, type, axis, v))
  BY DEF Answers, Accessor, Pointer, Axis, Sent
<1> QED
  BY <1>1, <1>2 DEF Read, Axis, Sent

LEMMA MotionIsRead ==
  ASSUME NEW d, NEW dx, NEW dy
  PROVE  /\ Read("pointer", "dx", Motion(d, dx, dy)) = dx
         /\ Read("pointer", "dy", Motion(d, dx, dy)) = dy
<1>1. Converts("pointer", Motion(d, dx, dy))
  BY DEF Converts, FamilyTypes, PointerTypes, Motion, Sent
<1>2. {"dx", "dy"} \subseteq Answers("pointer", Motion(d, dx, dy))
  BY DEF Answers, Accessor, Pointer, Motion, Sent
<1> QED
  BY <1>1, <1>2 DEF Read, Motion, Sent

LEMMA ButtonIsRead ==
  ASSUME NEW d, NEW b, NEW v
  PROVE  Read("pointer", "button_state", Button(d, b, v)) = v
<1>1. Converts("pointer", Button(d, b, v))
  BY DEF Converts, FamilyTypes, PointerTypes, Button, Sent
<1>2. "button_state" \in Answers("pointer", Button(d, b, v))
  BY DEF Answers, Accessor, Pointer, Button, Sent
<1> QED
  BY <1>1, <1>2 DEF Read, Button, Sent

\* What the getters of a device answer is what its events obey, for any number
\* of devices and any changes between two dispatches: the copy that a batch
\* works with is never that of another device or of an earlier object.
THEOREM SettingsTakeEffect == Spec => SettingsInEffect
<1> DEFINE Obeys(e, s) ==
      Class[e.dev].is_absolute =>
        /\ e.type = "scroll_finger" =>
             Read("pointer", "axis_value_discrete", e)
               = IF Get(s, "natural_scroll") THEN -1 ELSE 1
        /\ e.type = "pointer_motion" =>
             Read("pointer", "dx", e) = 1 + Get(s, "accel_speed")
        /\ e.type = "pointer_button" => Get(s, "tap_enabled")
<1>1. ASSUME TypeOK, CopiesAreCurrent, Next, NEW i \in DOMAIN out',
             Class[out'[i].dev].is_absolute
      PROVE  Obeys(out'[i], settings[out'[i].dev])
  <2>1. CASE ProcessEvent
    <3> DEFINE e == Head(evs)
               o == out'[i]
               s == settings[cur]
    <3>1. cur \in Dev /\ out' = OutOf(cur, e) /\ evs # <<>> /\ evs \in Seq(Inputs)
      BY <1>1, <2>1 DEF ProcessEvent, TypeOK
    <3>2. o.dev = cur
      BY <3>1, SentByDevice
    <3>3. /\ e.type = "pad"
          /\ o.type = "scroll_finger" =>
               o = Axis(cur, "scroll_finger", 0, Turned(e.value))
          /\ o.type = "pointer_motion" => o = Motion(cur, cfg.accel * e.value, 0)
          /\ o.type = "pointer_button" => cfg.tap
      BY <1>1, <3>1, <3>2, PadObeysCopies
    <3>4. e.value = 1
      <4>1. e \in Inputs
        BY <3>1
      <4> QED
        BY <3>3, <4>1 DEF Inputs, KeyInputs, MouseInputs, PadInputs, Input
    <3>5. /\ cfg.tap = s.tap_enabled /\ cfg.natural = s.natural_scroll
          /\ cfg.accel = s.accel_speed + 1 /\ s.accel_speed \in -1..1
      BY <1>1, <3>1, <2>1 DEF CopiesAreCurrent, ConfigOf, TypeOK, ProcessEvent
    <3>6. /\ Get(s, "tap_enabled") = s.tap_enabled
          /\ Get(s, "natural_scroll") = s.natural_scroll
          /\ Get(s, "accel_speed") = s.accel_speed
      BY OptionsKept DEF Get
    <3> HIDE DEF e, o, s
    <3>7. o.type = "scroll_finger" =>
            Read("pointer", "axis_value_discrete", o)
              = IF Get(s, "natural_scroll") THEN -1 ELSE 1
      BY <3>3, <3>4, <3>5, <3>6, AxisIsRead DEF Turned
    <3>8. o.type = "pointer_motion" => Read("pointer", "dx", o) = 1 + Get(s, "accel_speed")
      <4>1. cfg.accel * e.value = 1 + Get(s, "accel_speed")
        BY <3>4, <3>5, <3>6
      <4> QED
        BY <3>3, <4>1, MotionIsRead
    <3>9. o.type = "pointer_button" => Get(s, "tap_enabled")
      BY <3>3, <3>5, <3>6
    <3> QED
      BY <3>2, <3>7, <3>8, <3>9 DEF o, s
  <2>2. CASE ~ProcessEvent
    BY <1>1, <2>2, OnlyProcessingTells DEF Sent
  <2> QED
    BY <2>1, <2>2
<1>2. TypeOK /\ CopiesAreCurrent /\ [Next]_vars
      => [\A i \in DOMAIN out' : Obeys(out'[i], settings[out'[i].dev])]_vars
  BY <1>1
<1>3. SettingsInEffect
      <=> [][\A i \in DOMAIN out' : Obeys(out'[i], settings[out'[i].dev])]_vars
  BY DEF SettingsInEffect
<1> QED
  BY <1>2, <1>3, CopiesInvariant, PTL DEF Spec
-----------------------------------------------------------------------------
(* One family for each event *)

Answered(e) ==
  \E f \in Family :
    /\ \A g \in Family : Converts(g, e) <=> g = f
    /\ \A g \in Family : Answers(g, e) # {} <=> g = f /\ f # "notify"

\* Of which family the library's payloads are.
LEMMA PointerAnswers ==
  ASSUME NEW e,
         e.type \in {"pointer_motion", "pointer_button", "scroll_wheel", "scroll_finger"},
         e.payload \in {"PointerMotion", "PointerButton", "PointerAxis"}
  PROVE  Answered(e)
<1>1. \A g \in Family : Converts(g, e) <=> g = "pointer"
  BY DEF Converts, Family, FamilyTypes, NotifyTypes, PointerTypes, KeyboardTypes,
         TouchTypes, GestureTypes, SwitchTypes
<1>2. "time" \in Answers("pointer", e)
  BY DEF Answers, Accessor, Pointer
<1>3. \A g \in Family : g # "pointer" => Answers(g, e) = {}
  BY DEF Answers, Accessor, Family, FamilyTypes, Keyboard, Touch, Contact, Gesture,
         Swipes, Pinches, Updates, Switch
<1>4. "pointer" \in Family
  BY DEF Family, FamilyTypes
<1> QED
  BY <1>1, <1>2, <1>3, <1>4 DEF Answered

LEMMA KeyboardAnswers ==
  ASSUME NEW e, e.type = "keyboard_key", e.payload = "KeyboardKey"
  PROVE  Answered(e)
<1>1. \A g \in Family : Converts(g, e) <=> g = "keyboard"
  BY DEF Converts, Family, FamilyTypes, NotifyTypes, PointerTypes, KeyboardTypes,
         TouchTypes, GestureTypes, SwitchTypes
<1>2. "time" \in Answers("keyboard", e)
  BY DEF Answers, Accessor, Keyboard
<1>3. \A g \in Family : g # "keyboard" => Answers(g, e) = {}
  BY DEF Answers, Accessor, Family, FamilyTypes, Pointer, Touch, Contact, Gesture,
         Swipes, Pinches, Updates, Switch
<1>4. "keyboard" \in Family
  BY DEF Family, FamilyTypes
<1> QED
  BY <1>1, <1>2, <1>3, <1>4 DEF Answered

LEMMA GestureAnswers ==
  ASSUME NEW e, e.type \in {"swipe_update", "pinch_update"}, e.payload \in Updates
  PROVE  Answered(e)
<1>1. \A g \in Family : Converts(g, e) <=> g = "gesture"
  BY DEF Converts, Family, FamilyTypes, NotifyTypes, PointerTypes, KeyboardTypes,
         TouchTypes, GestureTypes, SwitchTypes
<1>2. "time" \in Answers("gesture", e)
  BY DEF Answers, Accessor, Gesture, Swipes, Pinches, Updates
<1>3. \A g \in Family : g # "gesture" => Answers(g, e) = {}
  BY DEF Answers, Accessor, Family, FamilyTypes, Pointer, Keyboard, Touch, Contact,
         Updates, Switch
<1>4. "gesture" \in Family
  BY DEF Family, FamilyTypes
<1> QED
  BY <1>1, <1>2, <1>3, <1>4 DEF Answered

LEMMA NotifyAnswers ==
  ASSUME NEW e, e.type \in NotifyTypes, e.payload \in {"DeviceAdded", "DeviceRemoved"}
  PROVE  Answered(e)
<1>1. \A g \in Family : Converts(g, e) <=> g = "notify"
  BY DEF Converts, Family, FamilyTypes, NotifyTypes, PointerTypes, KeyboardTypes,
         TouchTypes, GestureTypes, SwitchTypes
<1>2. \A g \in Family : Answers(g, e) = {}
  BY DEF Answers, Accessor, Family, FamilyTypes, Pointer, Keyboard, Touch, Contact,
         Gesture, Swipes, Pinches, Updates, Switch
<1>3. "notify" \in Family
  BY DEF Family, FamilyTypes
<1> QED
  BY <1>1, <1>2, <1>3 DEF Answered

LEMMA OutIsAnswered ==
  ASSUME NEW d, NEW e, NEW i \in DOMAIN OutOf(d, e)
  PROVE  Answered(OutOf(d, e)[i])
<1> DEFINE o == OutOf(d, e)[i]
<1>1. OutOf(d, e) \in {OfKey(d, e), OfMouse(d, e), OfPad(d, e), <<>>}
  BY DEF OutOf
<1>2. CASE OutOf(d, e) = OfKey(d, e)
  <2>1. o.type = "keyboard_key" /\ o.payload = "KeyboardKey"
    BY <1>2 DEF OfKey, Sent
  <2> QED
    BY <2>1, KeyboardAnswers
<1>3. CASE OutOf(d, e) = OfMouse(d, e)
  <2>1. /\ o.type \in {"pointer_motion", "pointer_button", "scroll_wheel"}
        /\ o.payload \in {"PointerMotion", "PointerButton", "PointerAxis"}
    BY <1>3 DEF OfMouse, Motion, Axis, Button, Sent
  <2> QED
    BY <2>1, PointerAnswers
<1>4. CASE OutOf(d, e) = OfPad(d, e)
  <2>1. \/ /\ o.type \in {"pointer_motion", "pointer_button", "scroll_finger"}
           /\ o.payload \in {"PointerMotion", "PointerButton", "PointerAxis"}
        \/ o.type \in {"swipe_update", "pinch_update"} /\ o.payload \in Updates
    BY <1>4 DEF OfPad, Motion, Axis, Button, Update, Updates, Sent
  <2> QED
    BY <2>1, PointerAnswers, GestureAnswers
<1> QED
  BY <1>1, <1>2, <1>3, <1>4

\* Whatever is queued, by any device or about one, converts to one family and
\* only the accessors of that family find something in its payload.
THEOREM OneFamilyIsEnough == Spec => []OneFamilyAnswers
<1>1. Init => OneFamilyAnswers
  BY DEF Init, OneFamilyAnswers
<1>2. TypeOK /\ OneFamilyAnswers /\ [Next]_vars => OneFamilyAnswers'
  <2>1. ASSUME TypeOK, Next, NEW i \in DOMAIN out' PROVE Answered(out'[i])
    <3>1. CASE ProcessEvent
      <4>1. out' = OutOf(cur, Head(evs))
        BY <3>1 DEF ProcessEvent
      <4> QED
        BY <4>1, OutIsAnswered
    <3>2. CASE ~ProcessEvent
      <4>1. /\ out'[i].type \in NotifyTypes
            /\ out'[i].payload \in {"DeviceAdded", "DeviceRemoved"}
        BY <2>1, <3>2, OnlyProcessingTells DEF Sent, NotifyTypes
      <4> QED
        BY <4>1, NotifyAnswers
    <3> QED
      BY <3>1, <3>2
  <2>2. TypeOK /\ Next => OneFamilyAnswers'
    BY <2>1 DEF OneFamilyAnswers, Answered
  <2>3. OneFamilyAnswers /\ UNCHANGED vars => OneFamilyAnswers'
    BY DEF OneFamilyAnswers, vars
  <2> QED
    BY <2>2, <2>3
<1> QED
  BY <1>1, <1>2, CopiesInvariant, PTL DEF Spec
-----------------------------------------------------------------------------
(* Nothing of a mouse is lost *)

Effects(s) == [i \in DOMAIN s |-> Effect(s[i])]

LEMMA EffectsAreSeq ==
  ASSUME NEW S, NEW s \in Seq(S)
  PROVE  /\ Effects(s) \in Seq({Effect(e) : e \in S})
         /\ Len(Effects(s)) = Len(s)
         /\ \A i \in 1..Len(s) : Effects(s)[i] = Effect(s[i])
<1>1. Len(s) \in Nat /\ DOMAIN s = 1..Len(s) /\ \A i \in 1..Len(s) : s[i] \in S
  OBVIOUS
<1>2. Effects(s) = [i \in 1..Len(s) |-> Effect(s[i])]
  BY <1>1 DEF Effects
<1>3. \A i \in 1..Len(s) : Effect(s[i]) \in {Effect(e) : e \in S}
  BY <1>1
<1> QED
  BY <1>1, <1>2, <1>3

LEMMA EffectsGrow ==
  ASSUME NEW S, NEW s \in Seq(S), NEW e \in S
  PROVE  Effects(Append(s, e)) = Append(Effects(s), Effect(e))
<1> DEFINE T == {Effect(x) : x \in S}
           one == Effects(Append(s, e))
           two == Append(Effects(s), Effect(e))
<1>1. Len(s) \in Nat /\ Effect(e) \in T
  OBVIOUS
<1>2. /\ Effects(s) \in Seq(T) /\ Len(Effects(s)) = Len(s)
      /\ \A i \in 1..Len(s) : Effects(s)[i] = Effect(s[i])
  BY EffectsAreSeq
<1>3. /\ Append(s, e) \in Seq(S) /\ Len(Append(s, e)) = Len(s) + 1
      /\ \A i \in 1..Len(s) : Append(s, e)[i] = s[i]
      /\ Append(s, e)[Len(s) + 1] = e
  BY AppendProperties
<1>4. one \in Seq(T) /\ Len(one) = Len(s) + 1
  BY <1>3, EffectsAreSeq
<1>5. two \in Seq(T) /\ Len(two) = Len(s) + 1
  BY <1>1, <1>2, AppendProperties
<1>6. ASSUME NEW i \in 1..Len(s) + 1 PROVE one[i] = two[i]
  <2>1. one[i] = Effect(Append(s, e)[i])
    BY <1>3, EffectsAreSeq
  <2>2. two[i] = IF i <= Len(s) THEN Effects(s)[i] ELSE Effect(e)
    BY <1>1, <1>2, AppendProperties
  <2>3. CASE i <= Len(s)
    <3>1. i \in 1..Len(s)
      BY <2>3
    <3> QED
      BY <1>1, <1>2, <1>3, <2>1, <2>2, <3>1
  <2>4. CASE i = Len(s) + 1
    <3>1. ~(i <= Len(s))
      BY <2>4, LenProperties
    <3> QED
      BY <1>3, <2>1, <2>2, <2>4, <3>1
  <2>5. i <= Len(s) \/ i = Len(s) + 1
    BY <1>1
  <2> QED
    BY <2>3, <2>4, <2>5
<1> HIDE DEF T, one, two
<1>7. one = two
  BY <1>4, <1>5, <1>6, SeqEqual
<1> QED
  BY <1>7 DEF one, two

LEMMA EffectsShrink ==
  ASSUME NEW S, NEW s \in Seq(S), s # <<>>
  PROVE  /\ Head(Effects(s)) = Effect(Head(s))
         /\ Tail(Effects(s)) = Effects(Tail(s))
<1> DEFINE T == {Effect(x) : x \in S}
           one == Tail(Effects(s))
           two == Effects(Tail(s))
<1>1. /\ Len(s) \in Nat \ {0}
      /\ Tail(s) \in Seq(S) /\ Len(Tail(s)) = Len(s) - 1
      /\ Head(s) = s[1]
      /\ \A i \in 1..Len(s) - 1 : Tail(s)[i] = s[i + 1]
  BY HeadTailProperties
<1>2. Effects(s) \in Seq(T) /\ Len(Effects(s)) = Len(s)
      /\ \A i \in 1..Len(s) : Effects(s)[i] = Effect(s[i])
  BY EffectsAreSeq
<1>3. /\ one \in Seq(T) /\ Len(one) = Len(s) - 1
      /\ Head(Effects(s)) = Effects(s)[1]
      /\ \A i \in 1..Len(s) - 1 : one[i] = Effects(s)[i + 1]
  <2>1. Effects(s) # <<>>
    BY <1>1, <1>2
  <2> QED
    BY <1>2, <2>1, HeadTailProperties
<1>4. /\ two \in Seq(T) /\ Len(two) = Len(s) - 1
      /\ \A i \in 1..Len(s) - 1 : two[i] = Effect(Tail(s)[i])
  BY <1>1, EffectsAreSeq
<1>5. \A i \in 1..Len(s) - 1 : one[i] = two[i]
  <2> TAKE i \in 1..Len(s) - 1
  <2>1. i + 1 \in 1..Len(s)
    BY <1>1
  <2> QED
    BY <1>1, <1>2, <1>3, <1>4, <2>1
<1>6. Head(Effects(s)) = Effect(Head(s))
  BY <1>1, <1>2, <1>3
<1> HIDE DEF T, one, two
<1>7. one = two
  BY <1>3, <1>4, <1>5, SeqEqual
<1> QED
  BY <1>6, <1>7 DEF one, two

\* A queue in two parts is the queue, and taking from it takes from the first.
LEMMA Joined ==
  ASSUME NEW S, NEW s \in Seq(S), NEW t \in Seq(S)
  PROVE  /\ s \o t \in Seq(S)
         /\ <<>> \o s = s
         /\ \A e \in S : s \o Append(t, e) = Append(s \o t, e)
         /\ s # <<>> => /\ s \o t # <<>>
                        /\ Head(s \o t) = Head(s)
                        /\ Tail(s \o t) = Tail(s) \o t
<1>1. s \o t \in Seq(S) /\ <<>> \o s = s
  OBVIOUS
<1>2. ASSUME NEW e \in S PROVE s \o Append(t, e) = Append(s \o t, e)
  OBVIOUS
<1>3. ASSUME s # <<>>
      PROVE  /\ s \o t # <<>>
             /\ Head(s \o t) = Head(s)
             /\ Tail(s \o t) = Tail(s) \o t
  <2>1. Len(s) \in Nat \ {0} /\ Len(t) \in Nat /\ Len(s \o t) = Len(s) + Len(t)
    BY <1>3
  <2>2. s \o t # <<>>
    BY <2>1
  <2>3. Head(s \o t) = Head(s)
    BY <1>3, <2>1, <2>2
  <2>4. Tail(s) \in Seq(S) /\ Len(Tail(s)) = Len(s) - 1
    BY <1>3
  <2>5. Tail(s \o t) \in Seq(S) /\ Len(Tail(s \o t)) = Len(s) + Len(t) - 1
    BY <1>1, <2>1, <2>2
  <2>6. Len(Tail(s) \o t) = Len(s) - 1 + Len(t) /\ Tail(s) \o t \in Seq(S)
    BY <2>1, <2>4
  <2>7. ASSUME NEW i \in 1..Len(s) + Len(t) - 1
        PROVE  Tail(s \o t)[i] = (Tail(s) \o t)[i]
    <3>1. Tail(s \o t)[i] = (s \o t)[i + 1]
      BY <1>1, <2>1, <2>2
    <3>2. CASE i <= Len(s) - 1
      BY <1>3, <2>1, <2>4, <3>1, <3>2
    <3>3. CASE i > Len(s) - 1
      BY <1>3, <2>1, <2>4, <3>1, <3>3
    <3> QED
      BY <2>1, <3>2, <3>3
  <2> QED
    BY <2>2, <2>3, <2>5, <2>6, <2>7, SeqEqual
<1> QED
  BY <1>1, <1>2, <1>3

\* One step of process_relative_event tells what its event did, no more.
LEMMA MouseTells ==
  ASSUME NEW d \in Mice, NEW e \in InputsOf(d)
  PROVE  Tells(OutOf(d, e), Effect(e))
<1>1. e \in MouseInputs /\ OutOf(d, e) = OfMouse(d, e)
  <2>1. ~Class[d].is_keyboard /\ ~Class[d].is_absolute
    BY DEF Mice, Route
  <2> QED
    BY <2>1 DEF Mice, InputsOf, OutOf
<1> DEFINE Says(o) == OutOf(d, e) = <<o>> /\ \A m \in Meters : Told(o, m) = Effect(e)[m]
<1>2. (\E o : Says(o)) => Tells(OutOf(d, e), Effect(e))
  BY DEF Tells
<1>3. CASE e.type = "rel" /\ e.code = "x"
  <2>1. OutOf(d, e) = <<Motion(d, e.value, 0)>>
    BY <1>1, <1>3 DEF OfMouse
  <2>2. \A m \in Meters : Told(Motion(d, e.value, 0), m) = Effect(e)[m]
    BY <1>3, MotionIsRead DEF Told, Effect, Meters, Motion, Sent
  <2> QED
    BY <1>2, <2>1, <2>2
<1>4. CASE e.type = "rel" /\ e.code = "y"
  <2>1. OutOf(d, e) = <<Motion(d, 0, e.value)>>
    BY <1>1, <1>4 DEF OfMouse
  <2>2. \A m \in Meters : Told(Motion(d, 0, e.value), m) = Effect(e)[m]
    BY <1>4, MotionIsRead DEF Told, Effect, Meters, Motion, Sent
  <2> QED
    BY <1>2, <2>1, <2>2
<1>5. CASE e.type = "rel" /\ e.code \in {"wheel", "hwheel"}
  <2> DEFINE o == Axis(d, "scroll_wheel", AxisOf(e.code), e.value)
  <2>1. OutOf(d, e) = <<o>>
    BY <1>1, <1>5 DEF OfMouse
  <2>2. Read("pointer", "axis_value_discrete", o) = e.value
    BY AxisIsRead
  <2>3. /\ o.type = "scroll_wheel" /\ o.payload = "PointerAxis"
        /\ <<"wheel", "hwheel">>[o.data.axis + 1] = e.code
    BY <1>5 DEF Axis, Sent, AxisOf
  <2>4. Read("pointer", "dx", o) = 0 /\ Read("pointer", "dy", o) = 0
    BY <2>3 DEF Read, Answers, Accessor, Pointer
  <2> HIDE DEF o
  <2>5. \A m \in Meters : Told(o, m) = Effect(e)[m]
    BY <1>5, <2>2, <2>3, <2>4 DEF Told, Effect, Meters
  <2> QED
    BY <1>2, <2>1, <2>5
<1>6. CASE e.type = "key" /\ e.code = "left"
  <2> DEFINE o == Button(d, e.code, e.value)
  <2>1. OutOf(d, e) = <<o>>
    BY <1>1, <1>6 DEF OfMouse
  <2>2. Read("pointer", "button_state", o) = e.value
    BY ButtonIsRead
  <2>3. o.type = "pointer_button" /\ o.payload = "PointerButton"
    BY DEF Button, Sent
  <2>4. Read("pointer", "dx", o) = 0 /\ Read("pointer", "dy", o) = 0
    BY <2>3 DEF Read, Answers, Accessor, Pointer
  <2> HIDE DEF o
  <2>5. \A m \in Meters : Told(o, m) = Effect(e)[m]
    BY <1>6, <2>2, <2>3, <2>4 DEF Told, Effect, Meters
  <2> QED
    BY <1>2, <2>1, <2>5
<1>7. CASE e.code = "hi_res"
  <2>1. OutOf(d, e) = <<>>
    BY <1>1, <1>7 DEF OfMouse, MouseInputs, Input
  <2>2. Effect(e) = Nothing
    BY <1>7 DEF Effect, Nothing, Meters
  <2> QED
    BY <2>1, <2>2 DEF Tells
<1> QED
  BY <1>1, <1>3, <1>4, <1>5, <1>6, <1>7 DEF MouseInputs, Input

LEMMA LostIsEffects ==
  NothingLost <=> \A d \in Mice : owed[d] = Effects(Unread(d))
  BY DEF NothingLost, Effects

\* While nothing is in hand, the queue is what is unread.
LEMMA UnreadIsQueued ==
  ASSUME TypeOK, NEW d \in Dev, cur # d
  PROVE  Unread(d) = queue[d]
<1>1. queue[d] \in Seq(Inputs)
  BY DEF TypeOK
<1> QED
  BY <1>1, Joined DEF Unread

LEMMA LostByOthers ==
  ASSUME NothingLost, UNCHANGED <<cur, evs, queue, owed>>
  PROVE  NothingLost'
  BY DEF NothingLost, Unread

LEMMA LostInSend ==
  ASSUME TypeOK, CopiesAreCurrent, NothingLost, NEW d \in Dev, Send(d)
  PROVE  NothingLost'
<1>1. PICK e \in InputsOf(d) :
        /\ queue' = [queue EXCEPT ![d] = Append(@, e)]
        /\ owed' = [owed EXCEPT ![d] = Append(@, Effect(e))]
  BY DEF Send
<1>2. cur = None /\ cur' = None /\ None \notin Dev
  BY PipelineAssumption DEF Send, drainVars, CopiesAreCurrent
<1>3. ASSUME NEW c \in Mice PROVE owed'[c] = Effects(queue'[c])
  <2>1. c \in Dev /\ owed[c] = Effects(queue[c]) /\ queue[c] \in Seq(Inputs)
    BY <1>2, LostIsEffects, UnreadIsQueued DEF Mice, TypeOK
  <2>2. CASE c = d
    <3>1. e \in Inputs
      BY InputsOfDevice
    <3>2. /\ owed'[c] = Append(owed[c], Effect(e))
          /\ queue'[c] = Append(queue[c], e)
      BY <1>1, <2>1, <2>2 DEF TypeOK
    <3> QED
      BY <2>1, <3>1, <3>2, EffectsGrow
  <2>3. CASE c # d
    BY <1>1, <2>1, <2>3 DEF TypeOK
  <2> QED
    BY <2>2, <2>3
<1>4. \A c \in Mice : queue'[c] = Unread(c)'
  <2>1. TypeOK'
    BY TypesSend
  <2> QED
    BY <1>2, <2>1, Joined DEF Unread, Mice, TypeOK
<1> QED
  BY <1>3, <1>4 DEF NothingLost, Effects

LEMMA LostInUnplug ==
  ASSUME TypeOK, CopiesAreCurrent, NothingLost, NEW d \in Pluggable, Unplug(d)
  PROVE  NothingLost'
<1>1. cur = None /\ cur' = None /\ None \notin Dev /\ d \in Dev
  BY PipelineAssumption DEF Unplug, drainVars, CopiesAreCurrent
<1>2. ASSUME NEW c \in Mice PROVE owed'[c] = Effects(queue'[c])
  <2>1. c \in Dev /\ owed[c] = Effects(queue[c])
    BY <1>1, LostIsEffects, UnreadIsQueued DEF Mice
  <2>2. CASE c = d
    <3>1. owed'[c] = <<>> /\ queue'[c] = <<>>
      BY <2>1, <2>2 DEF TypeOK, Unplug
    <3>2. Effects(<<>>) = <<>>
      BY DEF Effects
    <3> QED
      BY <3>1, <3>2
  <2>3. CASE c # d
    BY <2>1, <2>3 DEF TypeOK, Unplug
  <2> QED
    BY <2>2, <2>3
<1>3. \A c \in Mice : queue'[c] = Unread(c)'
  <2>1. TypeOK'
    BY TypesClient
  <2> QED
    BY <1>1, <2>1, Joined DEF Unread, Mice, TypeOK
<1> QED
  BY <1>2, <1>3 DEF NothingLost, Effects

\* A batch and what it leaves are the queue it was taken from.
LEMMA LostInVisit ==
  ASSUME TypeOK, NothingLost, NEW d \in Dev, Visit(d)
  PROVE  NothingLost'
<1>1. owed' = owed
  BY DEF Visit
<1>2. CASE queue[d] # <<>>
  <2>1. PICK n \in Nat : Fetches(d, n)
    BY <1>2, VisitFetches
  <2>2. cur = None /\ cur' = d /\ None \notin Dev
    BY <1>2, VisitFetches, PipelineAssumption
  <2>3. ASSUME NEW c \in Mice PROVE Unread(c)' = Unread(c)
    <3>1. c \in Dev /\ queue[c] \in Seq(Inputs) /\ Unread(c) = queue[c]
      BY <2>2, UnreadIsQueued DEF Mice, TypeOK
    <3>2. CASE c = d
      <4>1. /\ evs' = SubSeq(queue[c], 1, n)
            /\ queue'[c] = SubSeq(queue[c], n + 1, Len(queue[c]))
            /\ n \in 1..Len(queue[c])
        BY <2>1, <3>2 DEF Fetches, TypeOK
      <4>2. evs' \o queue'[c] = SubSeq(queue[c], 1, Len(queue[c]))
        <5>1. 1 \in 1..Len(queue[c]) + 1 /\ n \in 1 - 1..Len(queue[c])
              /\ Len(queue[c]) \in n..Len(queue[c])
          BY <3>1, <4>1
        <5> QED
          BY <3>1, <4>1, <5>1, ConcatAdjacentSubSeq
      <4> QED
        BY <2>2, <3>1, <3>2, <4>2, SubSeqFull DEF Unread
    <3>3. CASE c # d
      <4>1. queue'[c] = queue[c]
        BY <2>1, <3>3 DEF Fetches, TypeOK
      <4> QED
        BY <2>2, <3>1, <3>3, <4>1, Joined DEF Unread
    <3> QED
      BY <3>2, <3>3
  <2> QED
    BY <1>1, <2>3 DEF NothingLost
<1>3. CASE queue[d] = <<>>
  <2>1. UNCHANGED <<cur, evs, queue>>
    BY <1>3, VisitFindsNothing
  <2> QED
    BY <1>1, <2>1, LostByOthers
<1> QED
  BY <1>2, <1>3

LEMMA LostInProcess ==
  ASSUME TypeOK, NothingLost, ProcessEvent
  PROVE  NothingLost'
<1>1. /\ cur \in Dev /\ evs # <<>> /\ evs \in Seq(Inputs) /\ evs \in Seq(InputsOf(cur))
      /\ evs' = Tail(evs) /\ queue' = queue
      /\ out' = OutOf(cur, Head(evs))
  BY DEF ProcessEvent, TypeOK, kernelVars
<1>2. owed' = [owed EXCEPT ![cur] = IF Tells(out', Head(@)) THEN Tail(@) ELSE @]
  BY DEF ProcessEvent
<1>3. \/ cur' = cur
      \/ cur' = None /\ Tail(evs) = <<>>
  <2>1. CASE Len(evs) > 1
    BY <2>1 DEF ProcessEvent
  <2>2. CASE ~(Len(evs) > 1)
    <3>1. Len(evs) \in Nat /\ Len(evs) # 0
      BY <1>1
    <3>2. Len(Tail(evs)) = Len(evs) - 1 /\ Tail(evs) \in Seq(Inputs)
      BY <1>1
    <3>3. Len(Tail(evs)) = 0
      BY <2>2, <3>1, <3>2
    <3> QED
      BY <2>2, <3>2, <3>3 DEF ProcessEvent
  <2> QED
    BY <2>1, <2>2
<1>4. ASSUME NEW c \in Mice PROVE owed'[c] = Effects(Unread(c)')
  <2>1. c \in Dev /\ queue[c] \in Seq(Inputs) /\ owed[c] = Effects(Unread(c))
        /\ None \notin Dev /\ c \in DOMAIN owed
    BY LostIsEffects, PipelineAssumption DEF Mice, TypeOK
  <2>2. CASE c = cur
    <3>1. Unread(c) = evs \o queue[c]
      BY <2>2 DEF Unread
    <3>2. Unread(c)' = Tail(evs) \o queue[c]
      BY <1>1, <1>3, <2>1, <2>2, Joined DEF Unread
    <3>3. /\ Unread(c) \in Seq(Inputs) /\ Unread(c) # <<>>
          /\ Head(Unread(c)) = Head(evs) /\ Tail(Unread(c)) = Unread(c)'
      BY <1>1, <2>1, <3>1, <3>2, Joined
    <3>4. /\ Head(owed[c]) = Effect(Head(evs))
          /\ Tail(owed[c]) = Effects(Unread(c)')
      BY <2>1, <3>3, EffectsShrink
    <3>5. Head(evs) \in InputsOf(cur)
      BY <1>1
    <3>6. Tells(out', Head(owed[c]))
      BY <1>1, <2>2, <3>4, <3>5, MouseTells
    <3> QED
      BY <1>2, <2>1, <2>2, <3>4, <3>6
  <2>3. CASE c # cur
    <3>1. Unread(c)' = Unread(c)
      BY <1>1, <1>3, <2>1, <2>3 DEF Unread
    <3> QED
      BY <1>2, <2>1, <2>3, <3>1
  <2> QED
    BY <2>2, <2>3
<1> QED
  BY <1>4 DEF NothingLost, Effects

\* The books of a drain for any devices and batches, and with them that what
\* a mouse did reaches the client once, whole and in order.
THEOREM PipelineInvariant == Spec => []PipelineInv
<1>1. Init => NothingLost
  <2> SUFFICES ASSUME Init, NEW d \in Mice PROVE owed[d] = Effects(Unread(d))
    BY LostIsEffects
  <2>1. owed[d] = <<>> /\ Unread(d) = <<>> \o <<>> /\ <<>> \o <<>> = <<>>
    BY DEF Init, Unread, Mice
  <2> QED
    BY <2>1 DEF Effects
<1>2. TypeOK /\ CopiesAreCurrent /\ NothingLost /\ [Next]_vars => NothingLost'
  <2> SUFFICES ASSUME TypeOK, CopiesAreCurrent, NothingLost, [Next]_vars
               PROVE  NothingLost'
    OBVIOUS
  <2>1. CASE Tick \/ Dispatch \/ EndDrain \/ UNCHANGED vars
    <3>1. UNCHANGED <<cur, evs, queue, owed>>
      BY <2>1 DEF Tick, Dispatch, EndDrain, vars, kernelVars
    <3> QED
      BY <3>1, LostByOthers
  <2>2. CASE ProcessEvent
    BY <2>2, LostInProcess
  <2>3. ASSUME NEW d \in Dev, Send(d) PROVE NothingLost'
    BY <2>3, LostInSend
  <2>4. ASSUME NEW d \in Dev, Visit(d) PROVE NothingLost'
    BY <2>4, LostInVisit
  <2>5. ASSUME NEW d \in Pluggable, Unplug(d) PROVE NothingLost'
    BY <2>5, LostInUnplug
  <2>6. CASE \/ \E d \in Pluggable : Plug(d)
             \/ \E d \in Configured, c \in Changes : Configure(d, c[1], c[2])
    <3>1. UNCHANGED <<cur, evs, queue, owed>>
      BY <2>6 DEF Plug, Configure, drainVars, kernelVars
    <3> QED
      BY <3>1, LostByOthers
  <2> QED
    BY <2>1, <2>2, <2>3, <2>4, <2>5, <2>6 DEF Next
<1> QED
  BY <1>1, <1>2, CopiesInvariant, PTL DEF Spec, PipelineInv
=============================================================================
