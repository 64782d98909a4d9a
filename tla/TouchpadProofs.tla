---------------------------- MODULE TouchpadProofs ----------------------------
(***************************************************************************)
(* Proofs, for any number of fingers, buttons and any timeouts, that the   *)
(* tracker follows the pad, that the client's buttons are those held, that *)
(* a touch which travelled or was typed over is no tap, and that nothing   *)
(* moves while DWT is active: first of Touchpad, then of DaemonPad, which  *)
(* is sent the same frames and whose writes may fail.                      *)
(***************************************************************************)
EXTENDS Touchpad, SequenceTheorems, FiniteSetTheorems, TLAPS

-----------------------------------------------------------------------------
(* What a frame is made of *)

\* An event of the contacts of a pad that has m fingers now.
OfContacts(e, m) ==
  /\ e \in Events
  /\ e.code \notin Button \cup {"syn"}
  /\ e.code = "mt" => e.value = m
  /\ e.code = "touch" => e.value = Bit(m > 0)
  /\ \A n \in 2..4 : e.code = ToolBit[n - 1] => e.value \in {0, 1} /\ n <= MaxFingers

Part(s, m) == s \in Seq(Events) /\ \A i \in DOMAIN s : OfContacts(s[i], m)

LEMMA Joined ==
  ASSUME NEW S, NEW s \in Seq(S), NEW t \in Seq(S), NEW i \in DOMAIN (s \o t)
  PROVE  \/ i \in DOMAIN s /\ (s \o t)[i] = s[i]
         \/ i - Len(s) \in DOMAIN t /\ (s \o t)[i] = t[i - Len(s)]
  OBVIOUS

LEMMA PartsJoin ==
  ASSUME NEW m, NEW s, NEW t, Part(s, m), Part(t, m)
  PROVE  Part(s \o t, m)
<1>1. s \in Seq(Events) /\ t \in Seq(Events) /\ s \o t \in Seq(Events)
  BY DEF Part
<1>2. ASSUME NEW i \in DOMAIN (s \o t) PROVE OfContacts((s \o t)[i], m)
  <2>1. CASE i \in DOMAIN s /\ (s \o t)[i] = s[i]
    BY <2>1 DEF Part
  <2>2. CASE i - Len(s) \in DOMAIN t /\ (s \o t)[i] = t[i - Len(s)]
    BY <2>2 DEF Part
  <2> QED
    BY <1>1, <2>1, <2>2, Joined
<1> QED
  BY <1>1, <1>2 DEF Part

LEMMA NothingIsPart == \A m : Part(<<>>, m)
  BY DEF Part

LEMMA SingleIsPart ==
  ASSUME NEW m, NEW e, OfContacts(e, m)
  PROVE  Part(<<e>>, m)
<1>1. e \in Events /\ <<e>> \in Seq(Events)
  BY DEF OfContacts
<1>2. \A i \in DOMAIN <<e>> : <<e>>[i] = e
  OBVIOUS
<1> QED
  BY <1>1, <1>2 DEF Part

LEMMA BitIsBit == \A b : Bit(b) \in {0, 1} /\ Bit(b) \in 0..MaxFingers
  BY PadAssumption DEF Bit

LEMMA TouchesArePart ==
  ASSUME NEW n \in 0..MaxFingers, NEW m \in 0..MaxFingers
  PROVE  Part(Touches(n, m), m)
<1>1. Part(IF n = m THEN <<>> ELSE <<Event("mt", m)>>, m)
  <2>1. OfContacts(Event("mt", m), m)
    BY DEF OfContacts, Event, Events, Codes, Button, ToolBit
  <2> QED
    BY <2>1, SingleIsPart, NothingIsPart
<1>2. Part(Changed("touch", n > 0, m > 0), m)
  <2>1. OfContacts(Event("touch", Bit(m > 0)), m)
    BY BitIsBit DEF OfContacts, Event, Events, Codes, Button, ToolBit
  <2> QED
    BY <2>1, SingleIsPart, NothingIsPart DEF Changed
<1>3. ASSUME NEW k \in 2..4 PROVE Part(Changed(ToolBit[k - 1], n = k, m = k), m)
  <2>1. CASE (n = k) = (m = k)
    BY <2>1, NothingIsPart DEF Changed
  <2>2. CASE (n = k) # (m = k)
    <3>1. k <= MaxFingers /\ Bit(m = k) \in {0, 1} \cap 0..MaxFingers
      BY <2>2, BitIsBit
    <3>2. OfContacts(Event(ToolBit[k - 1], Bit(m = k)), m)
      <4>1. k = 2 \/ k = 3 \/ k = 4
        OBVIOUS
      <4>2. ToolBit[k - 1] \in {"doubletap", "tripletap", "quadtap"}
        BY <4>1 DEF ToolBit
      <4>3. \A j \in 2..4 : ToolBit[j - 1] = ToolBit[k - 1] => j = k
        BY <4>1 DEF ToolBit
      <4> QED
        BY <3>1, <4>2, <4>3 DEF OfContacts, Event, Events, Codes, Button
    <3> QED
      BY <2>2, <3>2, SingleIsPart DEF Changed
  <2> QED
    BY <2>1, <2>2
<1>4. /\ Part(Changed("doubletap", n = 2, m = 2), m)
      /\ Part(Changed("tripletap", n = 3, m = 3), m)
      /\ Part(Changed("quadtap", n = 4, m = 4), m)
  <2>1. ToolBit[2 - 1] = "doubletap" /\ ToolBit[3 - 1] = "tripletap" /\ ToolBit[4 - 1] = "quadtap"
    BY DEF ToolBit
  <2>2. \A k \in 2..4 : Part(Changed(ToolBit[k - 1], n = k, m = k), m)
    BY <1>3
  <2> QED
    BY <2>1, <2>2
<1> QED
  BY <1>1, <1>2, <1>4, PartsJoin DEF Touches

LEMMA MotionIsPart == \A A, m : Part(Motion(A), m)
<1> SUFFICES ASSUME NEW A, NEW m PROVE Part(Motion(A), m)
  OBVIOUS
<1>1. 0 \in 0..MaxFingers
  BY PadAssumption
<1>2. OfContacts(Event("abs_x", 0), m) /\ OfContacts(Event("abs_y", 0), m)
  BY <1>1 DEF OfContacts, Event, Events, Codes, Button, ToolBit
<1> QED
  BY <1>2, SingleIsPart, NothingIsPart, PartsJoin DEF Motion

Has(s, code) == \E i \in DOMAIN s : s[i].code = code

LEMMA HasJoined ==
  ASSUME NEW s \in Seq(Events), NEW t \in Seq(Events), NEW code
  PROVE  Has(s \o t, code) <=> Has(s, code) \/ Has(t, code)
<1>1. ASSUME Has(s \o t, code) PROVE Has(s, code) \/ Has(t, code)
  <2>1. PICK i \in DOMAIN (s \o t) : (s \o t)[i].code = code
    BY <1>1 DEF Has
  <2> QED
    BY <2>1, Joined DEF Has
<1>2. ASSUME Has(s, code) PROVE Has(s \o t, code)
  <2>1. PICK i \in DOMAIN s : s[i].code = code
    BY <1>2 DEF Has
  <2>2. i \in DOMAIN (s \o t) /\ (s \o t)[i] = s[i]
    OBVIOUS
  <2> QED
    BY <2>1, <2>2 DEF Has
<1>3. ASSUME Has(t, code) PROVE Has(s \o t, code)
  <2>1. PICK i \in DOMAIN t : t[i].code = code
    BY <1>3 DEF Has
  <2>2. Len(s) + i \in DOMAIN (s \o t) /\ (s \o t)[Len(s) + i] = t[i]
    OBVIOUS
  <2> QED
    BY <2>1, <2>2 DEF Has
<1> QED
  BY <1>1, <1>2, <1>3

LEMMA PartIsSeq == \A s, m : Part(s, m) => s \in Seq(Events)
  BY DEF Part

LEMMA HasSingle == \A e : Has(<<e>>, e.code)
<1> SUFFICES ASSUME NEW e PROVE Has(<<e>>, e.code)
  OBVIOUS
<1>1. 1 \in DOMAIN <<e>> /\ <<e>>[1] = e
  OBVIOUS
<1> QED
  BY <1>1 DEF Has

LEMMA TouchesTell ==
  ASSUME NEW n \in 0..MaxFingers, NEW m \in 0..MaxFingers
  PROVE  /\ n # m => Has(Touches(n, m), "mt")
         /\ (n > 0) # (m > 0) => Has(Touches(n, m), "touch")
<1> DEFINE a == IF n = m THEN <<>> ELSE <<Event("mt", m)>>
           b == Changed("touch", n > 0, m > 0)
           c == Changed("doubletap", n = 2, m = 2)
           d == Changed("tripletap", n = 3, m = 3)
           e == Changed("quadtap", n = 4, m = 4)
<1>1. a \in Seq(Events)
  <2>1. Event("mt", m) \in Events
    BY DEF Event, Events, Codes
  <2> QED
    BY <2>1
<1>2. \A code \in Codes : \A y : <<Event(code, Bit(y))>> \in Seq(Events)
  <2>1. \A code \in Codes : \A y : Event(code, Bit(y)) \in Events
    BY BitIsBit DEF Event, Events
  <2> QED
    BY <2>1
<1>3. b \in Seq(Events) /\ c \in Seq(Events) /\ d \in Seq(Events) /\ e \in Seq(Events)
  <2>1. {"touch", "doubletap", "tripletap", "quadtap"} \subseteq Codes
    BY DEF Codes
  <2>2. <<>> \in Seq(Events)
    OBVIOUS
  <2> QED
    BY <1>2, <2>1, <2>2 DEF Changed
<1>4. n # m => Has(a, "mt")
  <2>1. Event("mt", m).code = "mt"
    BY DEF Event
  <2>2. Has(<<Event("mt", m)>>, "mt")
    BY <2>1, HasSingle
  <2>3. n # m => a = <<Event("mt", m)>>
    OBVIOUS
  <2> QED
    BY <2>2, <2>3
<1>5. (n > 0) # (m > 0) => Has(b, "touch")
  <2>1. Event("touch", Bit(m > 0)).code = "touch"
    BY DEF Event
  <2>2. Has(<<Event("touch", Bit(m > 0))>>, "touch")
    BY <2>1, HasSingle
  <2>3. (n > 0) # (m > 0) => b = <<Event("touch", Bit(m > 0))>>
    BY DEF Changed
  <2> QED
    BY <2>2, <2>3
<1>6. Touches(n, m) = a \o b \o c \o d \o e
  BY DEF Touches
<1> HIDE DEF a, b, c, d, e
<1>7. a \o b \in Seq(Events) /\ a \o b \o c \in Seq(Events) /\ a \o b \o c \o d \in Seq(Events)
  BY <1>1, <1>3
<1>8. \A code : Has(a, code) \/ Has(b, code) => Has(a \o b \o c \o d \o e, code)
  BY <1>1, <1>3, <1>7, HasJoined
<1> QED
  BY <1>4, <1>5, <1>6, <1>8

\* A part with the clicks E, of which there is one at most, each once.
Body(s, m, E) ==
  /\ s \in Seq(Events)
  /\ \A i \in DOMAIN s : OfContacts(s[i], m) \/ s[i] \in E
  /\ \A i, j \in DOMAIN s : s[i] \in E /\ s[j] \in E => i = j
  /\ \A e \in E : \E i \in DOMAIN s : s[i] = e

LEMMA PartIsBody == \A s, m : Part(s, m) => Body(s, m, {})
  BY DEF Part, Body

LEMMA ClickedFirst ==
  ASSUME NEW m, NEW s, Part(s, m), NEW e \in Events, e.code \in Button
  PROVE  Body(<<e>> \o s, m, {e})
<1> DEFINE t == <<e>> \o s
<1>1. s \in Seq(Events) /\ t \in Seq(Events) /\ Len(t) = Len(s) + 1
  BY DEF Part
<1>2. t[1] = e /\ 1 \in DOMAIN t
  BY <1>1
<1>3. \A i \in DOMAIN t : i # 1 => i - 1 \in DOMAIN s /\ t[i] = s[i - 1]
  BY <1>1
<1>4. \A i \in DOMAIN s : OfContacts(s[i], m) /\ s[i] # e
  BY DEF Part, OfContacts
<1> HIDE DEF t
<1>5. \A i \in DOMAIN t : t[i] = e => i = 1
  BY <1>3, <1>4
<1>6. \A i \in DOMAIN t : OfContacts(t[i], m) \/ t[i] = e
  BY <1>2, <1>3, <1>4
<1>7. Body(t, m, {e})
  BY <1>1, <1>2, <1>5, <1>6 DEF Body
<1> QED
  BY <1>7 DEF t

LEMMA ClickedLast ==
  ASSUME NEW m, NEW s, Part(s, m), NEW e \in Events, e.code \in Button
  PROVE  Body(s \o <<e>>, m, {e})
<1> DEFINE t == s \o <<e>>
<1>1. s \in Seq(Events) /\ t \in Seq(Events) /\ Len(t) = Len(s) + 1 /\ Len(s) \in Nat
  BY DEF Part
<1>2. t[Len(t)] = e /\ Len(t) \in DOMAIN t
  BY <1>1
<1>3. \A i \in DOMAIN t : i # Len(t) => i \in DOMAIN s /\ t[i] = s[i]
  BY <1>1
<1>4. \A i \in DOMAIN s : OfContacts(s[i], m) /\ s[i] # e
  BY DEF Part, OfContacts
<1> HIDE DEF t
<1>5. \A i \in DOMAIN t : t[i] = e => i = Len(t)
  BY <1>3, <1>4
<1>6. \A i \in DOMAIN t : OfContacts(t[i], m) \/ t[i] = e
  BY <1>2, <1>3, <1>4
<1>7. Body(t, m, {e})
  BY <1>1, <1>2, <1>5, <1>6 DEF Body
<1> QED
  BY <1>7 DEF t

\* A frame made of a body.
Whole(t, s, m, E) ==
  /\ t \in Seq(Events) /\ t # <<>> /\ t[Len(t)].code = "syn"
  /\ \A i \in DOMAIN t : t[i] = Event("syn", 0) \/ OfContacts(t[i], m) \/ t[i] \in E
  /\ \A i, j \in DOMAIN t : t[i] \in E /\ t[j] \in E => i = j
  /\ \A code : Has(s, code) => Has(t, code)
  /\ \A e \in E : Has(t, e.code)

LEMMA Closed ==
  ASSUME NEW m, NEW E, NEW s, Body(s, m, E),
         \A e \in E : e.code \in Button
  PROVE  Whole(s \o <<Event("syn", 0)>>, s, m, E)
<1> DEFINE t == s \o <<Event("syn", 0)>>
<1>1. s \in Seq(Events) /\ <<Event("syn", 0)>> \in Seq(Events)
  <2>1. Event("syn", 0) \in Events
    BY PadAssumption DEF Event, Events, Codes
  <2> QED
    BY <2>1 DEF Body
<1>2. t \in Seq(Events) /\ Len(t) = Len(s) + 1 /\ Len(s) \in Nat
  BY <1>1
<1>3. t[Len(t)] = Event("syn", 0)
  BY <1>1, <1>2
<1>4. \A i \in DOMAIN t : i # Len(t) => i \in DOMAIN s /\ t[i] = s[i]
  BY <1>1, <1>2
<1>5. \A code : Has(s, code) => Has(t, code)
  BY <1>1, HasJoined
<1>6. \A e \in E : Has(s, e.code)
  BY DEF Body, Has
<1>7. ASSUME NEW i \in DOMAIN t, NEW j \in DOMAIN t, t[i] \in E, t[j] \in E
      PROVE  i = j
  <2>1. i # Len(t) /\ j # Len(t)
    BY <1>3, <1>7 DEF Event, Button
  <2> QED
    BY <1>4, <1>7, <2>1 DEF Body
<1>8. t # <<>> /\ t[Len(t)].code = "syn"
  BY <1>2, <1>3 DEF Event
<1>9. \A i \in DOMAIN t : t[i] = Event("syn", 0) \/ OfContacts(t[i], m) \/ t[i] \in E
  BY <1>3, <1>4 DEF Body
<1> HIDE DEF t
<1>10. Whole(t, s, m, E)
  BY <1>2, <1>5, <1>6, <1>7, <1>8, <1>9 DEF Whole
<1> QED
  BY <1>10 DEF t
-----------------------------------------------------------------------------
(* A frame is sent *)

\* Says, of a pad that has m fingers and the buttons P held.
SaysOf(e, m, P) ==
  /\ e.code = "mt" => e.value = m
  /\ e.code = "touch" => e.value = Bit(m > 0)
  /\ e.code \in Button => e.value = Bit(e.code \in P)
  /\ \A n \in 2..4 : e.code = ToolBit[n - 1] => e.value \in {0, 1} /\ n <= MaxFingers

\* The clicks of a frame that leaves the buttons P held.
Clicked(E, P) ==
  \/ E = {} /\ P = pressed
  \/ \E b \in Button :
       /\ E = {Event(b, Bit(b \notin pressed))}
       /\ P = IF b \in pressed THEN pressed \ {b} ELSE pressed \cup {b}

LEMMA FrameIsBody ==
  ASSUME contacts \in 0..MaxFingers, Frame
  PROVE  /\ frame = <<>> /\ contacts' \in 0..MaxFingers
         /\ \E E, s : /\ Body(s, contacts', E)
                      /\ frame' = s \o <<Event("syn", 0)>>
                      /\ Clicked(E, pressed')
                      /\ contacts' # contacts => Has(s, "mt")
                      /\ (contacts' > 0) # (contacts > 0) => Has(s, "touch")
<1>1. PICK m \in 0..MaxFingers, A \in SUBSET Axes, b \in Clicks \cup {"none"} :
        SendFrame(m, A, b)
  BY DEF Frame
<1> DEFINE touch == Touches(contacts, m) \o Motion(A)
           e == Event(b, Bit(b \notin pressed))
<1>2. frame = <<>> /\ contacts' = m
  BY <1>1 DEF SendFrame
<1>3. Part(Touches(contacts, m), m) /\ Part(Motion(A), m) /\ Part(touch, m)
  BY TouchesArePart, MotionIsPart, PartsJoin
<1>4. /\ m # contacts => Has(touch, "mt")
      /\ (m > 0) # (contacts > 0) => Has(touch, "touch")
  BY <1>3, PartIsSeq, HasJoined, TouchesTell
<1>5. \/ b \notin Button /\ frame' = touch \o <<Event("syn", 0)>> /\ pressed' = pressed
      \/ /\ b \in Button
         /\ \/ frame' = (<<e>> \o touch) \o <<Event("syn", 0)>>
            \/ frame' = (touch \o <<e>>) \o <<Event("syn", 0)>>
         /\ pressed' = IF b \in pressed THEN pressed \ {b} ELSE pressed \cup {b}
  BY <1>1 DEF SendFrame, Click
<1> HIDE DEF touch, e
<1>6. CASE b \notin Button
  BY <1>2, <1>3, <1>4, <1>5, <1>6, PartIsBody DEF Clicked
<1>7. CASE b \in Button
  <2>1. e \in Events /\ e.code \in Button
    BY <1>7, BitIsBit DEF e, Event, Events, Codes
  <2>2. Clicked({e}, pressed')
    BY <1>5, <1>7 DEF Clicked, e
  <2>3. <<e>> \in Seq(Events) /\ touch \in Seq(Events)
    BY <1>3, <2>1, PartIsSeq
  <2>4. \A code : Has(touch, code) => Has(<<e>> \o touch, code) /\ Has(touch \o <<e>>, code)
    BY <2>3, HasJoined
  <2>5. Body(<<e>> \o touch, m, {e}) /\ Body(touch \o <<e>>, m, {e})
    BY <1>3, <2>1, ClickedFirst, ClickedLast
  <2>6. CASE frame' = (<<e>> \o touch) \o <<Event("syn", 0)>>
    BY <1>2, <1>4, <2>2, <2>4, <2>5, <2>6
  <2>7. CASE frame' = (touch \o <<e>>) \o <<Event("syn", 0)>>
    BY <1>2, <1>4, <2>2, <2>4, <2>5, <2>7
  <2> QED
    BY <1>5, <1>7, <2>6, <2>7
<1> QED
  BY <1>6, <1>7

LEMMA FrameIsSent ==
  ASSUME contacts \in 0..MaxFingers, pressed \subseteq Button, Frame
  PROVE  /\ FrameOK' /\ frame' # <<>> /\ frame = <<>>
         /\ contacts' \in 0..MaxFingers /\ pressed' \subseteq Button
         /\ ~Unread("mt")' => contacts' = contacts
         /\ ~Unread("touch")' => (contacts' > 0 <=> contacts > 0)
         /\ Handled' = Handled
<1>1. PICK E, s : /\ Body(s, contacts', E)
                  /\ frame' = s \o <<Event("syn", 0)>>
                  /\ Clicked(E, pressed')
                  /\ contacts' # contacts => Has(s, "mt")
                  /\ (contacts' > 0) # (contacts > 0) => Has(s, "touch")
  BY FrameIsBody
<1>2. frame = <<>> /\ contacts' \in 0..MaxFingers
  BY FrameIsBody
<1>3. \A e \in E : /\ e.code \in Button
                   /\ e.value = Bit(e.code \in pressed')
  BY <1>1 DEF Clicked, Event
<1>4. \A e \in E : e.code \in Button
  BY <1>3
<1>5. /\ frame' \in Seq(Events) /\ frame' # <<>> /\ frame'[Len(frame')].code = "syn"
      /\ \A i \in DOMAIN frame' :
           frame'[i] = Event("syn", 0) \/ OfContacts(frame'[i], contacts') \/ frame'[i] \in E
      /\ \A i, j \in DOMAIN frame' : frame'[i] \in E /\ frame'[j] \in E => i = j
      /\ \A code : Has(s, code) => Has(frame', code)
      /\ \A e \in E : Has(frame', e.code)
  <2>1. Whole(frame', s, contacts', E)
    BY <1>1, <1>4, Closed
  <2> QED
    BY <2>1 DEF Whole
<1>6. \A i \in DOMAIN frame' : frame'[i].code \in Button => frame'[i] \in E
  BY <1>5 DEF OfContacts, Event, Button
<1>7. ASSUME NEW i \in DOMAIN frame' PROVE SaysOf(frame'[i], contacts', pressed')
  <2>1. CASE frame'[i] = Event("syn", 0)
    <3>1. \A n \in 2..4 : ToolBit[n - 1] # "syn"
      BY DEF ToolBit
    <3> QED
      BY <2>1, <3>1 DEF SaysOf, Event, Button
  <2>2. CASE OfContacts(frame'[i], contacts')
    BY <2>2 DEF SaysOf, OfContacts
  <2>3. CASE frame'[i] \in E
    <3>1. \A n \in 2..4 : ToolBit[n - 1] \notin Button
      BY DEF ToolBit, Button
    <3> QED
      BY <1>3, <2>3, <3>1 DEF SaysOf, Button
  <2> QED
    BY <1>5, <2>1, <2>2, <2>3
<1>8. FrameOK'
  BY <1>5, <1>6, <1>7 DEF FrameOK, Says, SaysOf
<1>9. \A code : Unread(code)' <=> Has(frame', code)
  BY DEF Unread, Has
<1>10. pressed' \subseteq Button
  BY <1>1 DEF Clicked
<1>11. Handled' = Handled
  <2>1. Handled = pressed
    <3>1. \A b : ~Unread(b)
      BY <1>2 DEF Unread
    <3> QED
      BY <3>1 DEF Handled
  <2>2. \A b \in Button : Has(frame', b) <=> \E e \in E : e.code = b
    BY <1>5, <1>6 DEF Has
  <2>3. \A b \in Button : (b \in pressed' <=> ~Has(frame', b)) <=> b \in pressed
    <3>1. CASE E = {} /\ pressed' = pressed
      BY <2>2, <3>1
    <3>2. ASSUME NEW c \in Button, E = {Event(c, Bit(c \notin pressed))},
                 pressed' = IF c \in pressed THEN pressed \ {c} ELSE pressed \cup {c}
          PROVE  \A b \in Button : (b \in pressed' <=> ~Has(frame', b)) <=> b \in pressed
      <4>1. \A b \in Button : Has(frame', b) <=> b = c
        BY <2>2, <3>2 DEF Event
      <4>2. \A b \in Button : (b \in pressed') <=> (IF b = c THEN b \notin pressed ELSE b \in pressed)
        BY <3>2
      <4> QED
        BY <4>1, <4>2
    <3> QED
      BY <1>1, <3>1, <3>2 DEF Clicked
  <2>4. Handled' = {b \in Button : b \in pressed' <=> ~Has(frame', b)}
    BY <1>9 DEF Handled
  <2> QED
    BY <2>1, <2>3, <2>4
<1> QED
  BY <1>1, <1>2, <1>5, <1>8, <1>9, <1>10, <1>11
-----------------------------------------------------------------------------
(* An event is taken from the frame *)

LEMMA EventIsTaken ==
  ASSUME FrameOK, NEW code, NEW V, Takes(code, V)
  PROVE  /\ FrameOK'
         /\ Head(frame) \in Events /\ Head(frame).code = code /\ Head(frame).value \in V
         /\ Says(Head(frame)) /\ Unread(code)
         /\ \A c : Unread(c)' => Unread(c)
         /\ \A c : c # code /\ Unread(c) => Unread(c)'
         /\ code \in Button => ~Unread(code)'
         /\ frame' = <<>> => code = "syn"
<1>1. /\ frame \in Seq(Events) /\ frame # <<>> /\ frame' = Tail(frame)
      /\ UNCHANGED <<contacts, pressed>>
  BY DEF FrameOK, Takes
<1>2. /\ Len(frame) \in Nat \ {0} /\ 1 \in DOMAIN frame /\ Head(frame) = frame[1]
      /\ frame' \in Seq(Events) /\ Len(frame') = Len(frame) - 1
      /\ frame[1] \in Events
  BY <1>1
<1>3. \A i \in DOMAIN frame' : i + 1 \in DOMAIN frame /\ frame'[i] = frame[i + 1]
  BY <1>1, <1>2
<1>4. \A i \in DOMAIN frame : i # 1 => i - 1 \in DOMAIN frame' /\ frame'[i - 1] = frame[i]
  BY <1>1, <1>2
<1>5. frame[1].code = code /\ frame[1].value \in V
  BY <1>2 DEF Takes
<1>6. Says(frame[1]) /\ Unread(code)
  BY <1>2, <1>5 DEF FrameOK, Unread
<1>7. \A c : Unread(c)' => Unread(c)
  BY <1>3 DEF Unread
<1>8. \A c : c # code /\ Unread(c) => Unread(c)'
  BY <1>4, <1>5 DEF Unread
<1>9. code \in Button => ~Unread(code)'
  <2> SUFFICES ASSUME code \in Button, NEW i \in DOMAIN frame', frame'[i].code = code
               PROVE  FALSE
    BY DEF Unread
  <2>1. i + 1 \in DOMAIN frame /\ frame[i + 1].code = code /\ i + 1 # 1
    BY <1>2, <1>3
  <2> QED
    BY <1>2, <1>5, <2>1 DEF FrameOK
<1>10. frame' = <<>> => code = "syn"
  <2>1. frame' = <<>> => Len(frame) = 1
    BY <1>2
  <2> QED
    BY <1>1, <1>5, <2>1 DEF FrameOK
<1>11. FrameOK'
  <2>1. \A i \in DOMAIN frame' : SaysOf(frame'[i], contacts', pressed')
    BY <1>1, <1>3 DEF FrameOK, Says, SaysOf
  <2>2. \A i, j \in DOMAIN frame' : {frame'[i].code, frame'[j].code} \subseteq Button => i = j
    <3> SUFFICES ASSUME NEW i \in DOMAIN frame', NEW j \in DOMAIN frame',
                        {frame'[i].code, frame'[j].code} \subseteq Button
                 PROVE  i = j
      OBVIOUS
    <3>1. i + 1 \in DOMAIN frame /\ j + 1 \in DOMAIN frame
          /\ {frame[i + 1].code, frame[j + 1].code} \subseteq Button
      BY <1>3
    <3>2. i + 1 = j + 1
      BY <3>1 DEF FrameOK
    <3> QED
      BY <1>2, <3>2
  <2>3. ASSUME frame' # <<>> PROVE frame'[Len(frame')].code = "syn"
    <3>1. Len(frame') \in DOMAIN frame' /\ frame'[Len(frame')] = frame[Len(frame)]
      BY <1>2, <1>3, <2>3
    <3> QED
      BY <1>1, <3>1 DEF FrameOK
  <2> QED
    BY <1>2, <2>1, <2>2, <2>3 DEF FrameOK, Says, SaysOf
<1> QED
  BY <1>2, <1>5, <1>6, <1>7, <1>8, <1>9, <1>10, <1>11

\* A click is of a button that was not handled if it is a press, that was if it
\* is a release, and changes what is handled; other events do not.
LEMMA ButtonsTaken ==
  ASSUME FrameOK, NEW code, NEW V, Takes(code, V)
  PROVE  /\ code \notin Button => Handled' = Handled
         /\ code \in Button =>
              /\ Head(frame).value = Bit(code \notin Handled)
              /\ Handled' = IF code \in Handled THEN Handled \ {code}
                                                ELSE Handled \cup {code}
<1>1. /\ Says(Head(frame)) /\ Head(frame).code = code /\ Unread(code)
      /\ \A c : c # code => (Unread(c)' <=> Unread(c))
      /\ code \in Button => ~Unread(code)'
      /\ pressed' = pressed
  BY EventIsTaken DEF Takes
<1>2. \A b \in Button : b # code => (b \in Handled' <=> b \in Handled)
  BY <1>1 DEF Handled
<1>3. \A b \in Button : /\ b \in Handled' <=> (b \in pressed' <=> ~Unread(b)')
                        /\ b \in Handled <=> (b \in pressed <=> ~Unread(b))
  BY DEF Handled
<1>4. Handled' \subseteq Button /\ Handled \subseteq Button
  BY DEF Handled
<1>5. CASE code \notin Button
  BY <1>2, <1>4, <1>5
<1>6. CASE code \in Button
  <2>1. code \in Handled <=> code \notin pressed
    BY <1>1, <1>3, <1>6
  <2>2. code \in Handled' <=> code \in pressed
    BY <1>1, <1>3, <1>6
  <2>3. Head(frame).value = Bit(code \notin Handled)
    BY <1>1, <1>6, <2>1 DEF Says, Bit
  <2> QED
    BY <1>2, <1>4, <1>6, <2>1, <2>2, <2>3
<1> QED
  BY <1>5, <1>6
-----------------------------------------------------------------------------
(* The invariant at the start, and while no event is processed *)

World == Tick \/ KeyTyped \/ Configure

LEMMA Starts == Init => TrackerInv
<1> SUFFICES ASSUME Init PROVE TrackerInv
  OBVIOUS
<1>1. frame = <<>> /\ \A c : ~Unread(c)
  BY DEF Init, PadInit, Unread
<1>2. Handled = {}
  BY <1>1 DEF Handled, Init, PadInit
<1>3. FrameOK
  BY <1>1 DEF FrameOK
<1>4. TypeOK
  <2>1. 0 \in 0..MaxFingers /\ DwtTimeout \in 0..DwtTimeout
    BY PadAssumption, TouchpadAssumption
  <2>2. [b \in Button |-> 0] \in [Button -> Int]
    OBVIOUS
  <2> QED
    BY <2>1, <2>2 DEF TypeOK, Init, PadInit
<1>5. TrackerFollowsPad
  BY DEF TrackerFollowsPad, Init, PadInit
<1>6. ButtonsBalanced
  BY <1>2, TouchpadAssumption DEF ButtonsBalanced, Init, Bit
<1>7. TapIsRuledOut
  BY DEF TapIsRuledOut, Init
<1> QED
  BY <1>3, <1>4, <1>5, <1>6, <1>7 DEF TrackerInv

LEMMA PadUntouched ==
  ASSUME UNCHANGED padVars
  PROVE  /\ FrameOK => FrameOK'
         /\ \A c : Unread(c)' <=> Unread(c)
         /\ Handled' = Handled
<1>1. UNCHANGED <<contacts, pressed, frame, skipped>>
  BY DEF padVars
<1>2. FrameOK => FrameOK'
  BY <1>1 DEF FrameOK, Says
<1>3. \A c : Unread(c)' <=> Unread(c)
  BY <1>1 DEF Unread
<1>4. Handled' = Handled
  BY <1>1 DEF Handled, Unread
<1> QED
  BY <1>2, <1>3, <1>4

LEMMA WorldKeepsTypes == TypeOK /\ World => TypeOK'
<1>1. TypeOK /\ Tick => TypeOK'
  <2> SUFFICES ASSUME TypeOK, Tick PROVE TypeOK'
    OBVIOUS
  <2>1. touch_start' \in {None} \cup 0..TapTimeout
    BY TouchpadAssumption DEF TypeOK, Tick
  <2>2. typing' \in 0..DwtTimeout
    BY TouchpadAssumption DEF TypeOK, Tick
  <2> QED
    BY <2>1, <2>2 DEF TypeOK, Tick, padVars
<1>2. TypeOK /\ KeyTyped => TypeOK'
  BY TouchpadAssumption DEF TypeOK, KeyTyped, padVars, touchVars
<1>3. TypeOK /\ Configure => TypeOK'
  BY DEF TypeOK, Configure, padVars, touchVars
<1> QED
  BY <1>1, <1>2, <1>3 DEF World

LEMMA WorldKeepsInv == TrackerInv /\ World => TrackerInv'
<1> SUFFICES ASSUME TrackerInv, World PROVE TrackerInv'
  OBVIOUS
<1> USE DEF TrackerInv
<1>1. /\ UNCHANGED padVars
      /\ UNCHANGED <<slots, touch_active, moved, pinch_active, active_click_button, balance,
                     travelled, tap_emitted>>
      /\ touch_start' # None <=> touch_start # None
  <2>1. CASE Tick
    <3>1. touch_start = None \/ (touch_start \in 0..TapTimeout /\ touch_start # None)
      BY DEF TypeOK
    <3>2. touch_start' # None <=> touch_start # None
      BY <2>1, <3>1, TouchpadAssumption DEF Tick
    <3> QED
      BY <2>1, <3>2 DEF Tick
  <2>2. CASE KeyTyped
    BY <2>2 DEF KeyTyped, touchVars
  <2>3. CASE Configure
    BY <2>3 DEF Configure, touchVars
  <2> QED
    BY <2>1, <2>2, <2>3 DEF World
<1>2. /\ FrameOK' /\ Handled' = Handled
      /\ \A c : Unread(c)' <=> Unread(c)
      /\ contacts' = contacts /\ frame' = frame
  BY <1>1, PadUntouched DEF padVars
<1>3. TrackerFollowsPad'
  BY <1>1, <1>2 DEF TrackerFollowsPad
<1>4. ButtonsBalanced'
  BY <1>1, <1>2 DEF ButtonsBalanced
<1>5. TapIsRuledOut'
  <2>1. CASE Tick
    <3>1. typed' = typed
      BY <2>1 DEF Tick
    <3>2. ASSUME typed, touch_start # None
          PROVE  touch_start' = TapTimeout \/ typing' <= touch_start'
      <4>1. /\ touch_start \in 0..TapTimeout /\ typing \in 0..DwtTimeout
            /\ touch_start = TapTimeout \/ typing <= touch_start
        BY <3>2 DEF TypeOK, TapIsRuledOut
      <4>2. /\ touch_start' = IF touch_start = TapTimeout THEN touch_start ELSE touch_start + 1
            /\ typing' = IF typing = DwtTimeout THEN typing ELSE typing + 1
        BY <2>1, <3>2 DEF Tick
      <4> QED
        BY <4>1, <4>2, TouchpadAssumption
    <3> QED
      BY <1>1, <3>1, <3>2 DEF TapIsRuledOut
  <2>2. CASE KeyTyped
    <3>1. typing' = 0 /\ touch_start' = touch_start
      BY <2>2 DEF KeyTyped, touchVars
    <3>2. touch_start \in {None} \cup 0..TapTimeout
      BY DEF TypeOK
    <3> QED
      BY <1>1, <3>1, <3>2, TouchpadAssumption DEF TapIsRuledOut
  <2>3. CASE Configure
    BY <2>3 DEF Configure, touchVars, TapIsRuledOut
  <2> QED
    BY <2>1, <2>2, <2>3 DEF World
<1> QED
  BY <1>2, <1>3, <1>4, <1>5, WorldKeepsTypes

LEMMA FrameKeepsInv == TrackerInv /\ PadFrame => TrackerInv'
<1> SUFFICES ASSUME TrackerInv, PadFrame PROVE TrackerInv'
  OBVIOUS
<1> USE DEF TrackerInv
<1>1. /\ FrameOK' /\ frame' # <<>> /\ frame = <<>>
      /\ contacts' \in 0..MaxFingers /\ pressed' \subseteq Button
      /\ ~Unread("mt")' => contacts' = contacts
      /\ ~Unread("touch")' => (contacts' > 0 <=> contacts > 0)
      /\ Handled' = Handled
  BY FrameIsSent DEF TypeOK, PadFrame
<1>2. UNCHANGED <<slots, touch_active, touch_fingers, known, moved, tap_emitted, touch_start,
                  active_click_button, pinch_active, config, typing, balance, travelled, typed>>
  BY DEF PadFrame, touchVars
<1>3. \A c : ~Unread(c)
  BY <1>1 DEF Unread
<1>4. TypeOK'
  BY <1>1, <1>2 DEF TypeOK
<1>5. TrackerFollowsPad'
  BY <1>1, <1>2, <1>3 DEF TrackerFollowsPad
<1>6. ButtonsBalanced'
  BY <1>1, <1>2 DEF ButtonsBalanced
<1>7. TapIsRuledOut'
  BY <1>2 DEF TapIsRuledOut
<1> QED
  BY <1>1, <1>4, <1>5, <1>6, <1>7
-----------------------------------------------------------------------------
(* The invariant while an event is processed *)

\* What every event leaves alone, and what it does to the frame.
LEMMA ConsumedEvent ==
  ASSUME TrackerInv, NEW code, NEW V, Consumes(code, V)
  PROVE  /\ Takes(code, V) /\ FrameOK /\ FrameOK'
         /\ Head(frame) \in Events /\ Head(frame).value \in V /\ Says(Head(frame))
         /\ Head(frame).code = code
         /\ \A c : c # code => (Unread(c)' <=> Unread(c))
         /\ code # "syn" => frame' # <<>>
         /\ UNCHANGED <<contacts, pressed, config, typing>>
  BY EventIsTaken DEF TrackerInv, Consumes, Takes

\* An event that is no click changes neither the buttons handled nor, if it
\* leaves the client's alone, their balance.
LEMMA BalanceKept ==
  ASSUME TrackerInv, NEW code, NEW V, Consumes(code, V), code \notin Button,
         UNCHANGED <<active_click_button, balance>>
  PROVE  ButtonsBalanced'
<1>1. Handled' = Handled
  BY ButtonsTaken DEF TrackerInv, Consumes
<1> QED
  BY <1>1 DEF TrackerInv, ButtonsBalanced

LEMMA MutedIsBoolean == TypeOK => Muted \in BOOLEAN /\ dwt_active \in BOOLEAN
<1> SUFFICES ASSUME TypeOK PROVE Muted \in BOOLEAN /\ dwt_active \in BOOLEAN
  OBVIOUS
<1>1. dwt_active \in BOOLEAN
  BY DEF dwt_active
<1>2. Muted \in BOOLEAN
  BY DEF Muted
<1> QED
  BY <1>1, <1>2

LEMMA MtSlotsKeepsInv == TrackerInv /\ MtSlots => TrackerInv'
<1> SUFFICES ASSUME TrackerInv, MtSlots PROVE TrackerInv'
  OBVIOUS
<1> USE DEF TrackerInv
<1>1. Consumes("mt", 0..MaxFingers)
  BY DEF MtSlots
<1>2. slots' = contacts /\ slots' \in 0..MaxFingers
  <2>1. /\ Says(Head(frame)) /\ Head(frame).code = "mt"
        /\ Head(frame).value \in 0..MaxFingers
    BY <1>1, ConsumedEvent
  <2>2. Head(frame).value = contacts
    BY <2>1 DEF Says
  <2> QED
    BY <2>1, <2>2 DEF MtSlots
<1>3. TypeOK'
  BY <1>1, <1>2, ConsumedEvent, MutedIsBoolean DEF TypeOK, MtSlots
<1>4. TrackerFollowsPad'
  <2>1. frame' # <<>> /\ (Unread("touch")' <=> Unread("touch")) /\ contacts' = contacts
    BY <1>1, ConsumedEvent
  <2> QED
    BY <1>2, <2>1 DEF TrackerFollowsPad, MtSlots
<1>5. ButtonsBalanced'
  BY <1>1, BalanceKept DEF MtSlots, Button
<1>6. TapIsRuledOut'
  BY <1>1, ConsumedEvent DEF TapIsRuledOut, MtSlots, Muted
<1> QED
  BY <1>1, <1>3, <1>4, <1>5, <1>6, ConsumedEvent

LEMMA TouchDownKeepsInv == TrackerInv /\ TouchDown => TrackerInv'
<1> SUFFICES ASSUME TrackerInv, TouchDown PROVE TrackerInv'
  OBVIOUS
<1> USE DEF TrackerInv
<1>1. Consumes("touch", {1})
  BY DEF TouchDown
<1>2. contacts > 0
  <2>1. Head(frame).value = Bit(contacts > 0) /\ Head(frame).value = 1
    BY <1>1, ConsumedEvent DEF Says
  <2> QED
    BY <2>1 DEF Bit
<1>3. TypeOK'
  <2>1. touch_fingers' \in 0..MaxFingers /\ touch_start' \in 0..TapTimeout
    BY PadAssumption, TouchpadAssumption DEF TypeOK, TouchDown
  <2>2. pinch_active' \in BOOLEAN
    BY DEF TypeOK, TouchDown
  <2> QED
    BY <1>1, <2>1, <2>2, ConsumedEvent DEF TypeOK, TouchDown
<1>4. TrackerFollowsPad'
  <2>1. frame' # <<>> /\ (Unread("mt")' <=> Unread("mt")) /\ contacts' = contacts
    BY <1>1, ConsumedEvent
  <2>2. touch_active' = TRUE /\ touch_start' # None
    BY TouchpadAssumption DEF TouchDown
  <2> QED
    BY <1>2, <2>1, <2>2 DEF TrackerFollowsPad, TouchDown
<1>5. ButtonsBalanced'
  BY <1>1, BalanceKept DEF TouchDown, Button
<1>6. TapIsRuledOut'
  BY DEF TapIsRuledOut, TouchDown
<1> QED
  BY <1>1, <1>3, <1>4, <1>5, <1>6, ConsumedEvent

LEMMA TouchUpKeepsInv == TrackerInv /\ TouchUp => TrackerInv'
<1> SUFFICES ASSUME TrackerInv, TouchUp PROVE TrackerInv'
  OBVIOUS
<1> USE DEF TrackerInv
<1>1. Consumes("touch", {0})
  BY DEF TouchUp
<1>2. ~(contacts > 0)
  <2>1. Head(frame).value = Bit(contacts > 0) /\ Head(frame).value = 0
    BY <1>1, ConsumedEvent DEF Says
  <2> QED
    BY <2>1 DEF Bit
<1>3. TypeOK'
  <2>1. touch_fingers' \in 0..MaxFingers
    BY PadAssumption DEF TouchUp
  <2>2. UNCHANGED <<contacts, pressed, config, typing>>
    BY <1>1, ConsumedEvent
  <2>3. tap_emitted' \in BOOLEAN /\ known' \subseteq {"x", "y"}
    BY MutedIsBoolean DEF TouchUp
  <2> QED
    BY <2>1, <2>2, <2>3 DEF TypeOK, TouchUp
<1>4. TrackerFollowsPad'
  <2>1. frame' # <<>> /\ (Unread("mt")' <=> Unread("mt")) /\ contacts' = contacts
    BY <1>1, ConsumedEvent
  <2> QED
    BY <1>2, <2>1 DEF TrackerFollowsPad, TouchUp
<1>5. ButtonsBalanced'
  BY <1>1, BalanceKept DEF TouchUp, Button
<1>6. TapIsRuledOut'
  BY DEF TapIsRuledOut, TouchUp
<1> QED
  BY <1>1, <1>3, <1>4, <1>5, <1>6, ConsumedEvent

LEMMA ToolTapKeepsInv == TrackerInv /\ ToolTap => TrackerInv'
<1> SUFFICES ASSUME TrackerInv, ToolTap PROVE TrackerInv'
  OBVIOUS
<1> USE DEF TrackerInv
<1>1. PICK n \in 2..4 : /\ Consumes(ToolBit[n - 1], {0, 1})
                        /\ touch_fingers' = ToolFingers(n, Head(frame).value)
  BY DEF ToolTap
<1>2. /\ ToolBit[n - 1] \notin Button
      /\ ToolBit[n - 1] \notin {"mt", "touch", "syn"}
  BY DEF ToolBit, Button
<1>3. n <= MaxFingers
  BY <1>1, ConsumedEvent DEF Says
<1>4. touch_fingers' \in 0..MaxFingers
  BY <1>1, <1>3, PadAssumption DEF ToolFingers
<1>5. TypeOK'
  BY <1>1, <1>4, ConsumedEvent, MutedIsBoolean DEF TypeOK, ToolTap
<1>6. TrackerFollowsPad'
  <2>1. /\ frame' # <<>> /\ contacts' = contacts
        /\ (Unread("mt")' <=> Unread("mt")) /\ (Unread("touch")' <=> Unread("touch"))
    BY <1>1, <1>2, ConsumedEvent
  <2> QED
    BY <2>1 DEF TrackerFollowsPad, ToolTap
<1>7. ButtonsBalanced'
  BY <1>1, <1>2, BalanceKept DEF ToolTap
<1>8. TapIsRuledOut'
  BY <1>1, ConsumedEvent DEF TapIsRuledOut, ToolTap, Muted
<1> QED
  BY <1>1, <1>5, <1>6, <1>7, <1>8, ConsumedEvent

\* A physical button, and what it makes of the client's balance.
LEMMA ClickBalances ==
  ASSUME TrackerInv, NEW b \in Button, Consumes(b, {0, 1}), PhysicalButton
  PROVE  /\ ButtonsBalanced'
         /\ active_click_button' \in Button \cup {None}
         /\ balance' \in [Button -> Int]
<1> USE DEF TrackerInv
<1> DEFINE v == Head(frame).value
<1>1. /\ v = Bit(b \notin Handled)
      /\ Handled' = IF b \in Handled THEN Handled \ {b} ELSE Handled \cup {b}
  BY ButtonsTaken DEF Consumes
<1>2. Head(frame).code = b
  BY ConsumedEvent
<1>3. \/ /\ b = "left" /\ v = 1
         /\ active_click_button' = ClickButton
         /\ SendButton(ClickButton, 1)
      \/ /\ b = "left" /\ v = 0 /\ active_click_button # None
         /\ active_click_button' = None
         /\ SendButton(ReleasedButton, 0)
      \/ /\ b # "left" \/ (v = 0 /\ active_click_button = None)
         /\ SendButton(b, v)
         /\ UNCHANGED active_click_button
  <2>1. PICK c \in Button :
          /\ Consumes(c, {0, 1})
          /\ \/ /\ c = "left" /\ v = 1
                /\ active_click_button' = ClickButton
                /\ SendButton(ClickButton, 1)
             \/ /\ c = "left" /\ v = 0 /\ active_click_button # None
                /\ active_click_button' = None
                /\ SendButton(ReleasedButton, 0)
             \/ /\ c # "left" \/ (v = 0 /\ active_click_button = None)
                /\ SendButton(c, v)
                /\ UNCHANGED active_click_button
    BY DEF PhysicalButton
  <2>2. c = b
    BY <1>2, <2>1, ConsumedEvent
  <2> QED
    BY <2>1, <2>2
<1> HIDE DEF v
<1>4. /\ active_click_button # None <=> "left" \in Handled
      /\ \A c \in Button :
           balance[c] = Bit(active_click_button = c) + Bit(c # "left" /\ c \in Handled)
      /\ active_click_button \in Button \cup {None} /\ None \notin Button
      /\ balance \in [Button -> Int]
  BY TouchpadAssumption DEF TypeOK, ButtonsBalanced
<1>6. CASE b = "left" /\ v = 1
  <2>1. ClickButton \in Button
    BY DEF ClickButton, Button
  <2>2. /\ active_click_button' = ClickButton
        /\ balance' = [balance EXCEPT ![ClickButton] = @ + 1]
    BY <1>3, <1>6 DEF SendButton
  <2> DEFINE k == ClickButton
  <2> HIDE DEF k
  <2>3. b \notin Handled /\ Handled' = Handled \cup {"left"} /\ active_click_button = None
    BY <1>1, <1>4, <1>6 DEF Bit
  <2>4. \A c \in Button : balance'[c] = balance[c] + (IF c = ClickButton THEN 1 ELSE 0)
    BY <1>4, <2>1, <2>2
  <2>5. ASSUME NEW c \in Button
        PROVE  balance'[c] = Bit(active_click_button' = c) + Bit(c # "left" /\ c \in Handled')
    BY <1>4, <2>1, <2>2, <2>3, <2>4 DEF Bit
  <2> QED
    BY <1>4, <2>1, <2>2, <2>3, <2>5 DEF ButtonsBalanced
<1>7. CASE b = "left" /\ v # 1
  <2>1. b \in Handled /\ v = 0 /\ Handled' = Handled \ {"left"}
    BY <1>1, <1>7 DEF Bit
  <2>2. active_click_button \in Button
    BY <1>4, <1>7, <2>1
  <2>3. /\ active_click_button' = None
        /\ balance' = [balance EXCEPT ![active_click_button] = @ + (-1)]
    BY <1>3, <1>4, <1>7, <2>1, <2>2 DEF SendButton, ReleasedButton
  <2>4. \A c \in Button : balance'[c] = balance[c] - (IF c = active_click_button THEN 1 ELSE 0)
    BY <1>4, <2>2, <2>3
  <2>5. ASSUME NEW c \in Button
        PROVE  balance'[c] = Bit(active_click_button' = c) + Bit(c # "left" /\ c \in Handled')
    BY <1>4, <2>1, <2>2, <2>3, <2>4 DEF Bit
  <2> QED
    BY <1>4, <2>1, <2>2, <2>3, <2>5 DEF ButtonsBalanced
<1>8. CASE b # "left"
  <2>1. /\ active_click_button' = active_click_button
        /\ balance' = [balance EXCEPT ![b] = @ + (IF v = 1 THEN 1 ELSE -1)]
    BY <1>3, <1>8 DEF SendButton
  <2>2. \A c \in Button :
          balance'[c] = balance[c] + (IF c = b THEN (IF v = 1 THEN 1 ELSE -1) ELSE 0)
    BY <1>4, <2>1
  <2>3. v = 1 <=> b \notin Handled
    BY <1>1 DEF Bit
  <2>4. ASSUME NEW c \in Button
        PROVE  balance'[c] = Bit(active_click_button' = c) + Bit(c # "left" /\ c \in Handled')
    <3>1. CASE c = b
      BY <1>1, <1>4, <1>8, <2>1, <2>2, <2>3, <3>1 DEF Bit
    <3>2. CASE c # b
      BY <1>1, <1>4, <2>1, <2>2, <3>2 DEF Bit
    <3> QED
      BY <3>1, <3>2
  <2>5. "left" \in Handled' <=> "left" \in Handled
    BY <1>1, <1>8
  <2> QED
    BY <1>4, <2>1, <2>4, <2>5 DEF ButtonsBalanced
<1> QED
  BY <1>6, <1>7, <1>8

LEMMA PhysicalButtonKeepsInv == TrackerInv /\ PhysicalButton => TrackerInv'
<1> SUFFICES ASSUME TrackerInv, PhysicalButton PROVE TrackerInv'
  OBVIOUS
<1> USE DEF TrackerInv
<1>1. PICK b \in Button : Consumes(b, {0, 1})
  BY DEF PhysicalButton
<1>2. b \notin {"mt", "touch", "syn"}
  BY DEF Button
<1>3. /\ ButtonsBalanced'
      /\ active_click_button' \in Button \cup {None}
      /\ balance' \in [Button -> Int]
  BY <1>1, ClickBalances
<1>4. TypeOK'
  BY <1>1, <1>3, ConsumedEvent, MutedIsBoolean DEF TypeOK, PhysicalButton
<1>5. TrackerFollowsPad'
  <2>1. /\ frame' # <<>> /\ contacts' = contacts
        /\ (Unread("mt")' <=> Unread("mt")) /\ (Unread("touch")' <=> Unread("touch"))
    BY <1>1, <1>2, ConsumedEvent
  <2> QED
    BY <2>1 DEF TrackerFollowsPad, PhysicalButton
<1>6. TapIsRuledOut'
  BY <1>1, ConsumedEvent DEF TapIsRuledOut, PhysicalButton, Muted
<1> QED
  BY <1>1, <1>3, <1>4, <1>5, <1>6, ConsumedEvent

LEMMA AbsAxisKeepsInv == TrackerInv /\ AbsAxis => TrackerInv'
<1> SUFFICES ASSUME TrackerInv, AbsAxis PROVE TrackerInv'
  OBVIOUS
<1> USE DEF TrackerInv
<1>1. PICK axis \in {"x", "y"} :
        /\ Consumes(IF axis = "x" THEN "abs_x" ELSE "abs_y", {0})
        /\ \E stalled \in BOOLEAN :
             IF axis \in known /\ ~stalled THEN moved' \in BOOLEAN
                                           ELSE UNCHANGED moved
        /\ known' = known \cup {axis}
  BY DEF AbsAxis
<1> DEFINE code == IF axis = "x" THEN "abs_x" ELSE "abs_y"
<1>2. Consumes(code, {0}) /\ code \notin Button \cup {"mt", "touch", "syn"}
  BY <1>1 DEF Button
<1> HIDE DEF code
<1>3. moved' \in BOOLEAN /\ known' \subseteq {"x", "y"}
  BY <1>1 DEF TypeOK
<1>4. TypeOK'
  BY <1>2, <1>3, ConsumedEvent, MutedIsBoolean DEF TypeOK, AbsAxis
<1>5. TrackerFollowsPad'
  <2>1. /\ frame' # <<>> /\ contacts' = contacts
        /\ (Unread("mt")' <=> Unread("mt")) /\ (Unread("touch")' <=> Unread("touch"))
    BY <1>2, ConsumedEvent
  <2> QED
    BY <2>1 DEF TrackerFollowsPad, AbsAxis
<1>6. ButtonsBalanced'
  BY <1>2, BalanceKept DEF AbsAxis
<1>7. TapIsRuledOut'
  BY <1>2, ConsumedEvent DEF TapIsRuledOut, AbsAxis, Muted
<1> QED
  BY <1>2, <1>4, <1>5, <1>6, <1>7, ConsumedEvent

LEMMA SynReportKeepsInv == TrackerInv /\ SynReport => TrackerInv'
<1> SUFFICES ASSUME TrackerInv, SynReport PROVE TrackerInv'
  OBVIOUS
<1> USE DEF TrackerInv
<1>1. Consumes("syn", {0})
  BY DEF SynReport
<1>2. /\ tap_emitted' \in {TRUE, tap_emitted} /\ travelled' \in {TRUE, travelled}
      /\ tap_emitted' = TRUE \/ (tap_emitted' = tap_emitted /\ travelled' = travelled)
  BY DEF SynReport, Travel
<1>3. TypeOK'
  BY <1>1, <1>2, ConsumedEvent DEF TypeOK, SynReport
<1>4. TrackerFollowsPad'
  <2>1. /\ contacts' = contacts
        /\ (Unread("mt")' <=> Unread("mt")) /\ (Unread("touch")' <=> Unread("touch"))
    BY <1>1, ConsumedEvent
  <2> QED
    BY <2>1 DEF TrackerFollowsPad, SynReport
<1>5. ButtonsBalanced'
  BY <1>1, BalanceKept DEF SynReport, Button
<1>6. TapIsRuledOut'
  BY <1>1, <1>2, ConsumedEvent DEF TapIsRuledOut, SynReport
<1> QED
  BY <1>1, <1>3, <1>4, <1>5, <1>6, ConsumedEvent

LEMMA InvPreserved == TrackerInv /\ [Next]_vars => TrackerInv'
<1>1. TrackerInv /\ UNCHANGED vars => TrackerInv'
  <2> SUFFICES ASSUME TrackerInv, UNCHANGED vars PROVE TrackerInv'
    OBVIOUS
  <2>1. UNCHANGED padVars
    BY DEF vars, padVars
  <2>2. FrameOK' /\ Handled' = Handled /\ \A c : Unread(c)' <=> Unread(c)
    BY <2>1, PadUntouched DEF TrackerInv
  <2>3. TypeOK'
    BY DEF TrackerInv, TypeOK, vars
  <2>4. TrackerFollowsPad'
    BY <2>2 DEF TrackerInv, TrackerFollowsPad, vars
  <2>5. ButtonsBalanced'
    BY <2>2 DEF TrackerInv, ButtonsBalanced, vars
  <2>6. TapIsRuledOut'
    BY DEF TrackerInv, TapIsRuledOut, vars
  <2> QED
    BY <2>2, <2>3, <2>4, <2>5, <2>6 DEF TrackerInv
<1> QED
  BY <1>1, WorldKeepsInv, FrameKeepsInv, MtSlotsKeepsInv, TouchDownKeepsInv, TouchUpKeepsInv,
     ToolTapKeepsInv, PhysicalButtonKeepsInv, AbsAxisKeepsInv, SynReportKeepsInv
     DEF Next, Process, World
-----------------------------------------------------------------------------
(* The count of fingers *)

LEMMA RankIs ==
  /\ DOMAIN Rank = {"mt"} \cup Telling
  /\ Rank["mt"] = 0 /\ Rank["touch"] = 1
  /\ Rank["doubletap"] = 2 /\ Rank["tripletap"] = 3 /\ Rank["quadtap"] = 4
  BY DEF Rank, Telling

LEMMA TellingRank ==
  \A code \in Telling : code \in DOMAIN Rank /\ Rank[code] \in 1..4
  BY RankIs DEF Telling

LEMMA RankIsNat == \A code \in DOMAIN Rank : Rank[code] \in 0..4
  BY RankIs DEF Telling

\* The bit of rank k is on if the pad has m fingers.
Shows(k, m) == IF k = 1 THEN m > 0 ELSE m = k

\* Events whose ranks rise from lo to hi, of n fingers that became m.
Staged(s, lo, hi, n, m) ==
  /\ s \in Seq(Events)
  /\ \A i \in DOMAIN s : s[i].code \in DOMAIN Rank => Rank[s[i].code] \in lo..hi
  /\ \A i, j \in DOMAIN s :
       (i < j /\ s[i].code \in DOMAIN Rank /\ s[j].code \in DOMAIN Rank)
         => Rank[s[i].code] < Rank[s[j].code]
  /\ \A i \in DOMAIN s : s[i].code \in Telling =>
       /\ s[i].value = Bit(Shows(Rank[s[i].code], m))
       /\ Shows(Rank[s[i].code], n) <=> ~Shows(Rank[s[i].code], m)

LEMMA StagesJoin ==
  ASSUME NEW lo \in Int, NEW mid \in Int, NEW hi \in Int, lo <= mid + 1, mid <= hi,
         NEW n, NEW m, NEW s, NEW t, Staged(s, lo, mid, n, m), Staged(t, mid + 1, hi, n, m)
  PROVE  Staged(s \o t, lo, hi, n, m)
<1> DEFINE u == s \o t
<1>1. s \in Seq(Events) /\ t \in Seq(Events) /\ u \in Seq(Events)
  BY DEF Staged
<1>2. Len(s) \in Nat /\ DOMAIN s = 1..Len(s) /\ DOMAIN u \subseteq Nat
  BY <1>1
<1>3. \A i \in DOMAIN u : \/ i \in DOMAIN s /\ u[i] = s[i]
                          \/ i - Len(s) \in DOMAIN t /\ u[i] = t[i - Len(s)]
  BY <1>1, Joined
<1>4. \A i \in DOMAIN u : i - Len(s) \in DOMAIN t => i > Len(s)
  BY <1>1
<1> HIDE DEF u
<1>5. \A i \in DOMAIN u : u[i].code \in DOMAIN Rank => Rank[u[i].code] \in lo..hi
  BY <1>3, RankIsNat DEF Staged
<1>6. ASSUME NEW i \in DOMAIN u, NEW j \in DOMAIN u, i < j,
             u[i].code \in DOMAIN Rank, u[j].code \in DOMAIN Rank
      PROVE  Rank[u[i].code] < Rank[u[j].code]
  <2>1. CASE i \in DOMAIN s /\ u[i] = s[i] /\ j \in DOMAIN s /\ u[j] = s[j]
    BY <1>6, <2>1 DEF Staged
  <2>2. CASE /\ i - Len(s) \in DOMAIN t /\ u[i] = t[i - Len(s)]
             /\ j - Len(s) \in DOMAIN t /\ u[j] = t[j - Len(s)]
    <3>1. i - Len(s) < j - Len(s)
      BY <1>2, <1>6
    <3> QED
      BY <1>6, <2>2, <3>1 DEF Staged
  <2>3. CASE /\ i \in DOMAIN s /\ u[i] = s[i]
             /\ j - Len(s) \in DOMAIN t /\ u[j] = t[j - Len(s)]
    <3>1. Rank[u[i].code] \in lo..mid /\ Rank[u[j].code] \in mid + 1..hi
      BY <1>6, <2>3 DEF Staged
    <3> QED
      BY <3>1
  <2>4. CASE i - Len(s) \in DOMAIN t /\ j \in DOMAIN s
    <3>1. i > Len(s) /\ j <= Len(s) /\ i \in Nat /\ j \in Nat
      BY <1>2, <1>4, <2>4
    <3> QED
      BY <1>2, <1>6, <3>1
  <2> QED
    BY <1>3, <2>1, <2>2, <2>3, <2>4
<1>7. \A i \in DOMAIN u : u[i].code \in Telling =>
        /\ u[i].value = Bit(Shows(Rank[u[i].code], m))
        /\ Shows(Rank[u[i].code], n) <=> ~Shows(Rank[u[i].code], m)
  BY <1>3 DEF Staged
<1>8. Staged(u, lo, hi, n, m)
  BY <1>1, <1>5, <1>6, <1>7 DEF Staged
<1> QED
  BY <1>8 DEF u

\* What tells nothing of contacts fits everywhere.
Unranked(s) == s \in Seq(Events) /\ \A i \in DOMAIN s : s[i].code \notin DOMAIN Rank

LEMMA UnrankedIsStaged ==
  ASSUME NEW s, Unranked(s), NEW lo, NEW hi, NEW n, NEW m
  PROVE  Staged(s, lo, hi, n, m)
  BY TellingRank DEF Unranked, Staged

LEMMA NothingIsUnranked == Unranked(<<>>)
  BY DEF Unranked

LEMMA SingleIsUnranked ==
  ASSUME NEW e \in Events, e.code \notin DOMAIN Rank
  PROVE  Unranked(<<e>>)
<1>1. <<e>> \in Seq(Events) /\ \A i \in DOMAIN <<e>> : <<e>>[i] = e
  OBVIOUS
<1> QED
  BY <1>1 DEF Unranked

LEMMA UnrankedJoin ==
  ASSUME NEW s, NEW t, Unranked(s), Unranked(t)
  PROVE  Unranked(s \o t)
<1>1. s \in Seq(Events) /\ t \in Seq(Events) /\ s \o t \in Seq(Events)
  BY DEF Unranked
<1>2. ASSUME NEW i \in DOMAIN (s \o t) PROVE (s \o t)[i].code \notin DOMAIN Rank
  BY <1>1, Joined DEF Unranked
<1> QED
  BY <1>1, <1>2 DEF Unranked

LEMMA ChangedIsStaged ==
  ASSUME NEW code \in Telling, NEW n \in Nat, NEW m \in Nat, NEW before, NEW after,
         before <=> Shows(Rank[code], n), after <=> Shows(Rank[code], m),
         before \in BOOLEAN, after \in BOOLEAN
  PROVE  /\ Staged(Changed(code, before, after), Rank[code], Rank[code], n, m)
         /\ (Shows(Rank[code], n) <=> ~Shows(Rank[code], m))
              => Has(Changed(code, before, after), code)
<1> DEFINE e == Event(code, Bit(after))
<1>1. e \in Events /\ e.code = code /\ e.value = Bit(after)
  BY BitIsBit DEF Event, Events, Codes, Telling
<1>2. <<e>> \in Seq(Events) /\ \A i \in DOMAIN <<e>> : <<e>>[i] = e /\ i = 1
  BY <1>1
<1>3. Has(<<e>>, code)
  BY <1>1, HasSingle
<1>4. Bit(after) = Bit(Shows(Rank[code], m))
  BY DEF Bit
<1>5. CASE before <=> after
  <2>1. Changed(code, before, after) = <<>>
    BY <1>5 DEF Changed
  <2> QED
    BY <1>5, <2>1, NothingIsUnranked, UnrankedIsStaged
<1>6. CASE before <=> ~after
  <2>1. Changed(code, before, after) = <<e>>
    BY <1>6 DEF Changed
  <2>2. Shows(Rank[code], n) <=> ~Shows(Rank[code], m)
    BY <1>6
  <2>3. Rank[code] \in Rank[code]..Rank[code]
    BY TellingRank
  <2> HIDE DEF e
  <2>4. Staged(<<e>>, Rank[code], Rank[code], n, m)
    BY <1>1, <1>2, <1>4, <2>2, <2>3 DEF Staged
  <2> QED
    BY <1>3, <2>1, <2>4
<1> QED
  BY <1>5, <1>6

LEMMA TouchesAreStaged ==
  ASSUME NEW n \in 0..MaxFingers, NEW m \in 0..MaxFingers
  PROVE  /\ Staged(Touches(n, m), 0, 4, n, m)
         /\ \A code \in Telling :
              (Shows(Rank[code], n) <=> ~Shows(Rank[code], m)) => Has(Touches(n, m), code)
<1> DEFINE a == IF n = m THEN <<>> ELSE <<Event("mt", m)>>
           b == Changed("touch", n > 0, m > 0)
           c == Changed("doubletap", n = 2, m = 2)
           d == Changed("tripletap", n = 3, m = 3)
           e == Changed("quadtap", n = 4, m = 4)
<1>1. n \in Nat /\ m \in Nat
  BY PadAssumption
<1>2. Staged(a, 0, 0, n, m)
  <2>1. Event("mt", m) \in Events /\ Event("mt", m).code = "mt"
    BY DEF Event, Events, Codes
  <2> DEFINE x == Event("mt", m)
  <2>2. <<x>> \in Seq(Events) /\ \A i \in DOMAIN <<x>> : <<x>>[i] = x /\ i = 1
    BY <2>1
  <2>3. x.code = "mt" /\ x.code \notin Telling
    BY <2>1 DEF Telling
  <2> HIDE DEF x
  <2>4. Rank["mt"] \in 0..0
    BY RankIs
  <2>5. Staged(<<x>>, 0, 0, n, m)
    BY <2>2, <2>3, <2>4 DEF Staged
  <2>6. CASE n = m
    BY <2>6, NothingIsUnranked, UnrankedIsStaged
  <2>7. CASE n # m
    BY <2>5, <2>7 DEF x
  <2> QED
    BY <2>6, <2>7
<1>3. /\ Staged(b, 1, 1, n, m)
      /\ (Shows(1, n) <=> ~Shows(1, m)) => Has(b, "touch")
  <2>1. "touch" \in Telling /\ Rank["touch"] = 1
    BY RankIs DEF Telling
  <2> DEFINE p == n > 0
             q == m > 0
  <2>2. (p <=> Shows(1, n)) /\ (q <=> Shows(1, m)) /\ p \in BOOLEAN /\ q \in BOOLEAN
    BY DEF Shows
  <2>3. b = Changed("touch", p, q)
    OBVIOUS
  <2> HIDE DEF p, q
  <2> QED
    BY <1>1, <2>1, <2>2, <2>3, ChangedIsStaged
<1>4. /\ Staged(c, 2, 2, n, m)
      /\ (Shows(2, n) <=> ~Shows(2, m)) => Has(c, "doubletap")
  <2>1. "doubletap" \in Telling /\ Rank["doubletap"] = 2
    BY RankIs DEF Telling
  <2>2. (n = 2 <=> Shows(2, n)) /\ (m = 2 <=> Shows(2, m))
    BY DEF Shows
  <2> QED
    BY <1>1, <2>1, <2>2, ChangedIsStaged
<1>5. /\ Staged(d, 3, 3, n, m)
      /\ (Shows(3, n) <=> ~Shows(3, m)) => Has(d, "tripletap")
  <2>1. "tripletap" \in Telling /\ Rank["tripletap"] = 3
    BY RankIs DEF Telling
  <2>2. (n = 3 <=> Shows(3, n)) /\ (m = 3 <=> Shows(3, m))
    BY DEF Shows
  <2> QED
    BY <1>1, <2>1, <2>2, ChangedIsStaged
<1>6. /\ Staged(e, 4, 4, n, m)
      /\ (Shows(4, n) <=> ~Shows(4, m)) => Has(e, "quadtap")
  <2>1. "quadtap" \in Telling /\ Rank["quadtap"] = 4
    BY RankIs DEF Telling
  <2>2. (n = 4 <=> Shows(4, n)) /\ (m = 4 <=> Shows(4, m))
    BY DEF Shows
  <2> QED
    BY <1>1, <2>1, <2>2, ChangedIsStaged
<1>7. Touches(n, m) = a \o b \o c \o d \o e
  BY DEF Touches
<1> HIDE DEF a, b, c, d, e
<1>8. Staged(a \o b, 0, 1, n, m)
  BY <1>2, <1>3, StagesJoin
<1>9. Staged(a \o b \o c, 0, 2, n, m)
  BY <1>8, <1>4, StagesJoin
<1>10. Staged(a \o b \o c \o d, 0, 3, n, m)
  BY <1>9, <1>5, StagesJoin
<1>11. Staged(a \o b \o c \o d \o e, 0, 4, n, m)
  BY <1>10, <1>6, StagesJoin
<1>12. /\ a \in Seq(Events) /\ b \in Seq(Events) /\ c \in Seq(Events) /\ d \in Seq(Events)
       /\ e \in Seq(Events) /\ a \o b \in Seq(Events) /\ a \o b \o c \in Seq(Events)
       /\ a \o b \o c \o d \in Seq(Events)
  BY <1>2, <1>3, <1>4, <1>5, <1>6, <1>8, <1>9, <1>10 DEF Staged
<1>13. \A code : Has(b, code) \/ Has(c, code) \/ Has(d, code) \/ Has(e, code)
                   => Has(a \o b \o c \o d \o e, code)
  BY <1>12, HasJoined
<1>14. ASSUME NEW code \in Telling, Shows(Rank[code], n) <=> ~Shows(Rank[code], m)
       PROVE  Has(a \o b \o c \o d \o e, code)
  <2>1. code = "touch" \/ code = "doubletap" \/ code = "tripletap" \/ code = "quadtap"
    BY DEF Telling
  <2> QED
    BY <1>3, <1>4, <1>5, <1>6, <1>13, <1>14, <2>1, RankIs
<1> QED
  BY <1>7, <1>11, <1>14

\* A frame keeps the order, and tells of each bit that changes.
LEMMA FrameIsStaged ==
  ASSUME contacts \in 0..MaxFingers, Frame
  PROVE  /\ contacts' \in 0..MaxFingers
         /\ Staged(frame', 0, 4, contacts, contacts')
         /\ \A code \in Telling :
              (Shows(Rank[code], contacts) <=> ~Shows(Rank[code], contacts'))
                => Has(frame', code)
         /\ skipped' = (contacts' < contacts - 1
                          \/ (skipped /\ (contacts > 0 \/ contacts' = 0)))
<1>1. PICK m \in 0..MaxFingers, A \in SUBSET Axes, b \in Clicks \cup {"none"} :
        SendFrame(m, A, b)
  BY DEF Frame
<1> DEFINE touches == Touches(contacts, m)
           motion == Motion(A)
           e == Event(b, Bit(b \notin pressed))
           syn == Event("syn", 0)
<1>2. /\ contacts' = m
      /\ skipped' = (m < contacts - 1 \/ (skipped /\ (contacts > 0 \/ m = 0)))
  BY <1>1 DEF SendFrame
<1>3. /\ Staged(touches, 0, 4, contacts, m)
      /\ \A code \in Telling :
           (Shows(Rank[code], contacts) <=> ~Shows(Rank[code], m)) => Has(touches, code)
  BY TouchesAreStaged
<1>4. Unranked(motion)
  <2>1. /\ Event("abs_x", 0) \in Events /\ Event("abs_x", 0).code \notin DOMAIN Rank
        /\ Event("abs_y", 0) \in Events /\ Event("abs_y", 0).code \notin DOMAIN Rank
    BY PadAssumption, RankIs DEF Event, Events, Codes, Telling
  <2> QED
    BY <2>1, SingleIsUnranked, NothingIsUnranked, UnrankedJoin DEF Motion
<1>5. Unranked(<<syn>>)
  <2>1. syn \in Events /\ syn.code \notin DOMAIN Rank
    BY PadAssumption, RankIs DEF Event, Events, Codes, Telling
  <2> QED
    BY <2>1, SingleIsUnranked
<1>6. b \in Button => Unranked(<<e>>)
  <2>1. b \in Button => e \in Events /\ e.code \notin DOMAIN Rank
    BY BitIsBit, RankIs DEF Event, Events, Codes, Telling, Button
  <2> QED
    BY <2>1, SingleIsUnranked
<1>7. \/ frame' = (touches \o motion) \o <<syn>>
      \/ /\ b \in Button
         /\ \/ frame' = (<<e>> \o (touches \o motion)) \o <<syn>>
            \/ frame' = ((touches \o motion) \o <<e>>) \o <<syn>>
  BY <1>1 DEF SendFrame, Click
<1> HIDE DEF touches, motion, e, syn
<1>8. /\ \A s : Unranked(s) => /\ Staged(s, 0, -1, contacts, m)
                               /\ Staged(s, 5, 4, contacts, m)
                               /\ s \in Seq(Events)
      /\ touches \in Seq(Events)
  BY <1>3, UnrankedIsStaged DEF Unranked, Staged
<1>9. ASSUME NEW s, Staged(s, 0, 4, contacts, m), NEW t, Unranked(t)
      PROVE  /\ Staged(s \o t, 0, 4, contacts, m) /\ Staged(t \o s, 0, 4, contacts, m)
             /\ \A code : Has(s, code) => Has(s \o t, code) /\ Has(t \o s, code)
  <2>1. s \in Seq(Events) /\ t \in Seq(Events)
    BY <1>8, <1>9 DEF Staged
  <2>2. Staged(t, 0, -1, contacts, m) /\ Staged(t, 4 + 1, 4, contacts, m)
        /\ Staged(s, -1 + 1, 4, contacts, m)
    BY <1>8, <1>9
  <2>3. Staged(s \o t, 0, 4, contacts, m)
    BY <1>9, <2>2, StagesJoin
  <2>4. Staged(t \o s, 0, 4, contacts, m)
    BY <2>2, StagesJoin
  <2> QED
    BY <2>1, <2>3, <2>4, HasJoined
<1>10. /\ Staged(frame', 0, 4, contacts, m)
       /\ \A code : Has(touches, code) => Has(frame', code)
  <2>1. /\ Staged(touches \o motion, 0, 4, contacts, m)
        /\ \A code : Has(touches, code) => Has(touches \o motion, code)
    BY <1>3, <1>4, <1>9
  <2>2. CASE frame' = (touches \o motion) \o <<syn>>
    BY <1>5, <1>9, <2>1, <2>2
  <2>3. CASE b \in Button /\ frame' = (<<e>> \o (touches \o motion)) \o <<syn>>
    <3>1. /\ Staged(<<e>> \o (touches \o motion), 0, 4, contacts, m)
          /\ \A code : Has(touches, code) => Has(<<e>> \o (touches \o motion), code)
      BY <1>6, <1>9, <2>1, <2>3
    <3> QED
      BY <1>5, <1>9, <2>3, <3>1
  <2>4. CASE b \in Button /\ frame' = ((touches \o motion) \o <<e>>) \o <<syn>>
    <3>1. /\ Staged((touches \o motion) \o <<e>>, 0, 4, contacts, m)
          /\ \A code : Has(touches, code) => Has((touches \o motion) \o <<e>>, code)
      BY <1>6, <1>9, <2>1, <2>4
    <3> QED
      BY <1>5, <1>9, <2>4, <3>1
  <2> QED
    BY <1>7, <2>2, <2>3, <2>4
<1> QED
  BY <1>2, <1>3, <1>10

\* The last bit that changes tells the number of fingers, up to four, unless
\* several lifted.
LEMMA LastTells ==
  ASSUME NEW n \in Nat, NEW m \in 0..4, m >= n - 1, NEW k \in 1..4,
         Shows(k, n) <=> ~Shows(k, m),
         \A l \in 1..4 : l > k => (Shows(l, n) <=> Shows(l, m))
  PROVE  ToolFingers(k, Bit(Shows(k, m))) = m
<1>1. CASE Shows(k, m)
  <2>1. ToolFingers(k, Bit(Shows(k, m))) = k
    BY <1>1 DEF ToolFingers, Bit
  <2>2. CASE k = 1
    <3>1. m > 0 /\ n = 0 /\ m # 2 /\ m # 3 /\ m # 4
      BY <1>1, <2>2 DEF Shows
    <3> QED
      BY <2>1, <2>2, <3>1
  <2>3. CASE k # 1
    BY <1>1, <2>1, <2>3 DEF Shows
  <2> QED
    BY <2>2, <2>3
<1>2. CASE ~Shows(k, m)
  <2>1. ToolFingers(k, Bit(Shows(k, m))) = k - 1
    BY <1>2 DEF ToolFingers, Bit
  <2>2. Shows(k, n)
    BY <1>2
  <2>3. CASE k = 1
    BY <1>2, <2>1, <2>3 DEF Shows
  <2>4. CASE k # 1
    <3>1. n = k /\ m # k /\ m >= k - 1
      BY <1>2, <2>2, <2>4 DEF Shows
    <3>2. \A l \in 2..4 : l > k => m # l
      BY <2>4, <3>1 DEF Shows
    <3>3. m = k - 1
      BY <3>1, <3>2
    <3> QED
      BY <2>1, <3>3
  <2> QED
    BY <2>3, <2>4
<1> QED
  BY <1>1, <1>2

\* If none of them changes, neither does the number.
LEMMA NoneTells ==
  ASSUME NEW n \in Nat, NEW m \in 0..4, m >= n - 1,
         \A l \in 1..4 : Shows(l, n) <=> Shows(l, m)
  PROVE  n = m
<1>1. n > 0 <=> m > 0
  BY DEF Shows
<1>2. \A l \in 2..4 : n = l <=> m = l
  BY DEF Shows
<1> QED
  BY <1>1, <1>2

LEMMA StagedIsInOrder ==
  ASSUME NEW n, NEW m, Staged(frame, 0, 4, n, m)
  PROVE  InOrder
  BY DEF Staged, InOrder

LEMMA FrameTells ==
  ASSUME TrackerInv, FingersTold, PadFrame
  PROVE  InOrder' /\ FingersTold'
<1>1. /\ contacts' \in 0..MaxFingers
      /\ Staged(frame', 0, 4, contacts, contacts')
      /\ \A code \in Telling :
           (Shows(Rank[code], contacts) <=> ~Shows(Rank[code], contacts'))
             => Has(frame', code)
      /\ skipped' = (contacts' < contacts - 1
                       \/ (skipped /\ (contacts > 0 \/ contacts' = 0)))
  BY FrameIsStaged DEF TrackerInv, TypeOK, PadFrame
<1>2. InOrder'
  BY <1>1 DEF Staged, InOrder
<1>3. touch_fingers' = touch_fingers /\ frame = <<>> /\ contacts \in Nat
  BY DEF PadFrame, touchVars, Frame, SendFrame, TrackerInv, TypeOK
<1>4. ASSUME ~skipped', contacts' <= 4
      PROVE  contacts' >= contacts - 1 /\ contacts' \in 0..4
  <2>1. ~(contacts' < contacts - 1)
    BY <1>1, <1>4
  <2> QED
    BY <1>1, <1>3, <1>4, <2>1, PadAssumption
<1>5. \A l \in 1..4 : \E code \in Telling : Rank[code] = l
  <2>1. \A l \in 1..4 : l = 1 \/ l = 2 \/ l = 3 \/ l = 4
    OBVIOUS
  <2>2. "touch" \in Telling /\ "doubletap" \in Telling /\ "tripletap" \in Telling
        /\ "quadtap" \in Telling
    BY DEF Telling
  <2> QED
    BY <2>1, <2>2, RankIs
<1>6. ASSUME ~skipped', contacts' <= 4, \A i \in DOMAIN frame' : frame'[i].code \notin Telling
      PROVE  touch_fingers' = contacts'
  <2>1. \A code \in Telling : ~Has(frame', code)
    BY <1>6 DEF Has
  <2>2. \A l \in 1..4 : Shows(l, contacts) <=> Shows(l, contacts')
    BY <1>1, <1>5, <2>1
  <2>3. contacts = contacts'
    BY <1>3, <1>4, <1>6, <2>2, NoneTells
  <2>4. ~skipped
    <3>1. contacts > 0 \/ contacts' = 0
      BY <1>3, <2>3
    <3> QED
      BY <1>1, <1>6, <3>1
  <2>5. \A i \in DOMAIN frame : frame[i].code \notin Telling
    BY <1>3
  <2> QED
    BY <1>3, <1>6, <2>3, <2>4, <2>5 DEF FingersTold
<1>7. ASSUME ~skipped', contacts' <= 4, NEW i \in DOMAIN frame', frame'[i].code \in Telling,
             \A j \in DOMAIN frame' : frame'[j].code \in Telling => j <= i
      PROVE  ToolFingers(Rank[frame'[i].code], frame'[i].value) = contacts'
  <2> DEFINE k == Rank[frame'[i].code]
  <2>1. /\ frame'[i].value = Bit(Shows(k, contacts'))
        /\ Shows(k, contacts) <=> ~Shows(k, contacts')
        /\ k \in 1..4
    BY <1>1, <1>7, TellingRank DEF Staged
  <2>2. ASSUME NEW l \in 1..4, l > k PROVE Shows(l, contacts) <=> Shows(l, contacts')
    <3>1. PICK code \in Telling : Rank[code] = l
      BY <1>5
    <3>2. ASSUME Has(frame', code) PROVE FALSE
      <4>1. PICK j \in DOMAIN frame' : frame'[j].code = code
        BY <3>2 DEF Has
      <4>2. j <= i /\ j # i
        BY <1>7, <2>1, <2>2, <3>1, <4>1
      <4>3. j < i
        <5>1. i \in Nat /\ j \in Nat
          BY <1>1 DEF Staged
        <5> QED
          BY <4>2, <5>1
      <4>4. Rank[frame'[j].code] < Rank[frame'[i].code]
        BY <1>1, <1>7, <3>1, <4>1, <4>3, TellingRank DEF Staged
      <4> QED
        BY <2>1, <2>2, <3>1, <4>1, <4>4
    <3>3. ~(Shows(l, contacts) <=> ~Shows(l, contacts'))
      BY <1>1, <3>1, <3>2
    <3> QED
      BY <3>3
  <2> HIDE DEF k
  <2>3. ToolFingers(k, Bit(Shows(k, contacts'))) = contacts'
    BY <1>3, <1>4, <1>7, <2>1, <2>2, LastTells
  <2> QED
    BY <2>1, <2>3 DEF k
<1>8. FingersTold'
  BY <1>6, <1>7 DEF FingersTold
<1> QED
  BY <1>2, <1>8

\* The next event leaves the rest of the frame.
LEMMA RestOfFrame ==
  ASSUME FrameOK, InOrder, frame # <<>>, frame' = Tail(frame)
  PROVE  /\ 1 \in DOMAIN frame /\ frame[1] = Head(frame)
         /\ DOMAIN frame \subseteq Nat \ {0}
         /\ \A i \in DOMAIN frame' : i + 1 \in DOMAIN frame /\ frame'[i] = frame[i + 1]
         /\ \A i \in DOMAIN frame : i # 1 => i - 1 \in DOMAIN frame' /\ frame'[i - 1] = frame[i]
         /\ DOMAIN frame' \subseteq Nat
         /\ InOrder'
<1>1. frame \in Seq(Events)
  BY DEF FrameOK
<1>2. /\ 1 \in DOMAIN frame /\ frame[1] = Head(frame)
      /\ DOMAIN frame \subseteq Nat \ {0}
      /\ DOMAIN frame' \subseteq Nat
      /\ \A i \in DOMAIN frame' : i + 1 \in DOMAIN frame /\ frame'[i] = frame[i + 1]
      /\ \A i \in DOMAIN frame : i # 1 => i - 1 \in DOMAIN frame' /\ frame'[i - 1] = frame[i]
  BY <1>1
<1>3. \A i, j \in DOMAIN frame' : i < j => i + 1 < j + 1
  BY <1>2
<1>4. InOrder'
  BY <1>2, <1>3 DEF InOrder
<1> QED
  BY <1>2, <1>4

LEMMA EventTells ==
  ASSUME FrameOK, InOrder, FingersTold, frame # <<>>, frame' = Tail(frame),
         UNCHANGED <<contacts, skipped>>,
         Head(frame).code \notin Telling => touch_fingers' = touch_fingers,
         (/\ Head(frame).code \in Telling
          /\ ToolFingers(Rank[Head(frame).code], Head(frame).value) = contacts)
           => touch_fingers' = contacts
  PROVE  FingersTold'
<1>1. /\ 1 \in DOMAIN frame /\ frame[1] = Head(frame)
      /\ DOMAIN frame \subseteq Nat \ {0}
      /\ DOMAIN frame' \subseteq Nat
      /\ \A i \in DOMAIN frame' : i + 1 \in DOMAIN frame /\ frame'[i] = frame[i + 1]
      /\ \A i \in DOMAIN frame : i # 1 => i - 1 \in DOMAIN frame' /\ frame'[i - 1] = frame[i]
  BY RestOfFrame
<1>2. ASSUME ~skipped', contacts' <= 4, \A i \in DOMAIN frame' : frame'[i].code \notin Telling
      PROVE  touch_fingers' = contacts'
  <2>1. \A j \in DOMAIN frame : j # 1 => frame[j].code \notin Telling
    BY <1>1, <1>2
  <2>2. CASE Head(frame).code \notin Telling
    <3>1. \A j \in DOMAIN frame : frame[j].code \notin Telling
      BY <1>1, <2>1, <2>2
    <3> QED
      BY <1>2, <2>2, <3>1 DEF FingersTold
  <2>3. CASE Head(frame).code \in Telling
    <3>1. \A j \in DOMAIN frame : frame[j].code \in Telling => j <= 1
      BY <1>1, <2>1
    <3> QED
      BY <1>1, <1>2, <2>3, <3>1 DEF FingersTold
  <2> QED
    BY <2>2, <2>3
<1>3. ASSUME ~skipped', contacts' <= 4, NEW i \in DOMAIN frame', frame'[i].code \in Telling,
             \A j \in DOMAIN frame' : frame'[j].code \in Telling => j <= i
      PROVE  ToolFingers(Rank[frame'[i].code], frame'[i].value) = contacts'
  <2>1. i + 1 \in DOMAIN frame /\ frame[i + 1].code \in Telling /\ frame'[i] = frame[i + 1]
    BY <1>1, <1>3
  <2>2. ASSUME NEW j \in DOMAIN frame, frame[j].code \in Telling PROVE j <= i + 1
    <3>1. CASE j = 1
      BY <1>1, <3>1
    <3>2. CASE j # 1
      <4>1. j - 1 \in DOMAIN frame' /\ frame'[j - 1].code \in Telling
        BY <1>1, <2>2, <3>2
      <4>2. j - 1 <= i
        BY <1>3, <4>1
      <4> QED
        BY <1>1, <4>2
    <3> QED
      BY <3>1, <3>2
  <2> QED
    BY <1>3, <2>1, <2>2 DEF FingersTold
<1> QED
  BY <1>2, <1>3 DEF FingersTold

\* BTN_TOUCH 1 finds the slots counted; if no tool bit follows there is one.
LEMMA TouchDownTells ==
  ASSUME TrackerInv, InOrder, FingersTold, TouchDown
  PROVE  FingersTold'
<1>1. /\ frame # <<>> /\ frame' = Tail(frame) /\ UNCHANGED <<contacts, skipped>>
      /\ Head(frame).code = "touch" /\ Head(frame).value = 1 /\ FrameOK
  BY DEF TouchDown, Consumes, Takes, TrackerInv
<1>2. ~Unread("mt")
  <2> SUFFICES ASSUME NEW i \in DOMAIN frame, frame[i].code = "mt" PROVE FALSE
    BY DEF Unread
  <2>1. 1 \in DOMAIN frame /\ frame[1] = Head(frame) /\ i \in Nat \ {0}
    BY <1>1, RestOfFrame
  <2>2. i # 1
    BY <1>1, <2>1
  <2>3. 1 < i /\ "mt" \in DOMAIN Rank /\ "touch" \in DOMAIN Rank
    BY <2>1, <2>2, RankIs DEF Telling
  <2>4. Rank["touch"] < Rank["mt"]
    BY <1>1, <2>1, <2>3 DEF InOrder
  <2> QED
    BY <2>4, RankIs
<1>3. slots = contacts
  BY <1>2 DEF TrackerInv, TrackerFollowsPad
<1>4. ToolFingers(Rank[Head(frame).code], Head(frame).value) = 1
  BY <1>1, RankIs DEF ToolFingers
<1>5. ToolFingers(Rank[Head(frame).code], Head(frame).value) = contacts
        => touch_fingers' = contacts
  BY <1>3, <1>4 DEF TouchDown
<1>6. Head(frame).code \in Telling
  BY <1>1 DEF Telling
<1> QED
  BY <1>1, <1>5, <1>6, EventTells

LEMMA TouchUpTells ==
  ASSUME TrackerInv, InOrder, FingersTold, TouchUp
  PROVE  FingersTold'
<1>1. /\ frame # <<>> /\ frame' = Tail(frame) /\ UNCHANGED <<contacts, skipped>>
      /\ Head(frame).code = "touch" /\ Head(frame).value = 0 /\ FrameOK
      /\ touch_fingers' = 0
  BY DEF TouchUp, Consumes, Takes, TrackerInv
<1>2. ToolFingers(Rank[Head(frame).code], Head(frame).value) = 0
  BY <1>1, RankIs DEF ToolFingers
<1>3. Head(frame).code \in Telling
  BY <1>1 DEF Telling
<1> QED
  BY <1>1, <1>2, <1>3, EventTells

LEMMA ToolTapTells ==
  ASSUME TrackerInv, InOrder, FingersTold, ToolTap
  PROVE  FingersTold'
<1>1. PICK n \in 2..4 : /\ Consumes(ToolBit[n - 1], {0, 1})
                        /\ touch_fingers' = ToolFingers(n, Head(frame).value)
  BY DEF ToolTap
<1>2. /\ frame # <<>> /\ frame' = Tail(frame) /\ UNCHANGED <<contacts, skipped>>
      /\ Head(frame).code = ToolBit[n - 1] /\ FrameOK
  BY <1>1 DEF Consumes, Takes, TrackerInv
<1>3. ToolBit[n - 1] \in Telling /\ Rank[ToolBit[n - 1]] = n
  <2>1. n = 2 \/ n = 3 \/ n = 4
    OBVIOUS
  <2> QED
    BY <2>1, RankIs DEF ToolBit, Telling
<1> QED
  BY <1>1, <1>2, <1>3, EventTells

LEMMA OtherTells ==
  ASSUME TrackerInv, InOrder, FingersTold,
         MtSlots \/ PhysicalButton \/ AbsAxis \/ SynReport
  PROVE  FingersTold'
<1>1. /\ frame # <<>> /\ frame' = Tail(frame) /\ UNCHANGED <<contacts, skipped, touch_fingers>>
      /\ Head(frame).code \notin Telling /\ FrameOK
  BY DEF MtSlots, PhysicalButton, AbsAxis, SynReport, Consumes, Takes, Telling, Button, TrackerInv
<1> QED
  BY <1>1, EventTells

LEMMA FingersKept ==
  ASSUME InOrder, FingersTold, UNCHANGED <<frame, contacts, skipped, touch_fingers>>
  PROVE  InOrder' /\ FingersTold'
  BY DEF InOrder, FingersTold

LEMMA InOrderKept ==
  ASSUME TrackerInv, InOrder, Process
  PROVE  InOrder'
<1>1. frame # <<>> /\ frame' = Tail(frame) /\ FrameOK
  BY DEF Process, MtSlots, TouchDown, TouchUp, ToolTap, PhysicalButton, AbsAxis, SynReport,
         Consumes, Takes, TrackerInv
<1> QED
  BY <1>1, RestOfFrame

LEMMA FingersPreserved == TrackerInv /\ InOrder /\ FingersTold /\ [Next]_vars => (InOrder /\ FingersTold)'
<1> SUFFICES ASSUME TrackerInv, InOrder, FingersTold, [Next]_vars
             PROVE  InOrder' /\ FingersTold'
  OBVIOUS
<1>1. CASE UNCHANGED vars \/ Tick \/ KeyTyped \/ Configure
  <2>1. UNCHANGED <<frame, contacts, skipped, touch_fingers>>
    BY <1>1 DEF vars, Tick, KeyTyped, Configure, padVars, touchVars
  <2> QED
    BY <2>1, FingersKept
<1>2. CASE PadFrame
  BY <1>2, FrameTells
<1>3. CASE Process
  BY <1>3, InOrderKept, TouchDownTells, TouchUpTells, ToolTapTells, OtherTells DEF Process
<1> QED
  BY <1>1, <1>2, <1>3 DEF Next
-----------------------------------------------------------------------------
(* The theorems *)

\* process_absolute_event tracks the pad: whatever frames it is sent, whatever
\* is typed or configured meanwhile, what the rest of a frame does not change
\* is settled, and the client's buttons are those held.
THEOREM TrackerInvariant == Spec => []TrackerInv
  BY Starts, InvPreserved, PTL DEF Spec

\* With it, whatever the bits of a frame made of the count of fingers on the
\* way, the last of them leaves it right as long as no two fingers lift at once.
THEOREM TouchpadInvariant == Spec => []TouchpadInv
<1>1. Init => InOrder /\ FingersTold
  <2> SUFFICES ASSUME Init PROVE InOrder /\ FingersTold
    OBVIOUS
  <2>1. frame = <<>> /\ touch_fingers = 0 /\ contacts = 0
    BY DEF Init, PadInit
  <2> QED
    BY <2>1 DEF InOrder, FingersTold
<1>2. TouchpadInv /\ [Next]_vars => TouchpadInv'
  BY InvPreserved, FingersPreserved DEF TouchpadInv
<1> QED
  BY Starts, <1>1, <1>2, PTL DEF Spec, TouchpadInv

\* A physical click that was remapped by the number of fingers is released as
\* the button it was pressed as: the client has seen one more press than
\* releases of a button exactly if it stands for one that is held.
THEOREM ButtonsAreBalanced == Spec => []ButtonsBalanced
<1>1. TrackerInv => ButtonsBalanced
  BY DEF TrackerInv
<1> QED
  BY <1>1, TrackerInvariant, PTL

\* active_slot_count(), touch_active and the pinch agree with the contacts of
\* the pad as soon as the events that tell of them are processed.
THEOREM TrackerAgreesWithPad == Spec => []TrackerFollowsPad
<1>1. TrackerInv => TrackerFollowsPad
  BY DEF TrackerInv
<1> QED
  BY <1>1, TrackerInvariant, PTL

\* Only the end of a touch taps.
LEMMA TapsEndTouches ==
  ASSUME Next, Tapped
  PROVE  TouchUp /\ Taps
<1>1. PICK i \in 1..Len(out') : out'[i] = SentButton("left", 1)
  BY DEF Tapped
<1>2. out' # <<>>
  BY <1>1
<1>3. Head(frame).code = "touch"
  BY DEF Tapped
<1>4. ~(PadFrame \/ Tick \/ KeyTyped \/ Configure)
  BY <1>2 DEF PadFrame, Tick, KeyTyped, Configure
<1>5. ~(MtSlots \/ ToolTap \/ PhysicalButton \/ AbsAxis \/ SynReport)
  BY <1>3 DEF MtSlots, ToolTap, PhysicalButton, AbsAxis, SynReport, Consumes, Takes, ToolBit,
              Button
<1>6. ~TouchDown
  <2> SUFFICES ASSUME TouchDown PROVE FALSE
    OBVIOUS
  <2>1. out' = <<Sent("pinch_begin")>>
    BY <1>2 DEF TouchDown
  <2>2. out'[i] = Sent("pinch_begin")
    BY <2>1
  <2> QED
    BY <1>1, <2>2 DEF Sent, SentButton
<1>7. TouchUp
  BY <1>4, <1>5, <1>6 DEF Next, Process
<1>8. Taps
  <2> SUFFICES ASSUME ~Taps PROVE FALSE
    OBVIOUS
  <2>1. \/ out' = <<>> \/ out' = <<Sent("pinch_end_measured")>>
        \/ out' = <<Sent("pinch_end_default")>>
    BY <1>7 DEF TouchUp
  <2>2. out'[i].type \in {"pinch_end_measured", "pinch_end_default"}
    BY <1>2, <2>1 DEF Sent
  <2> QED
    BY <1>1, <2>2 DEF SentButton
<1> QED
  BY <1>7, <1>8

\* For any timeouts with the tap's not above DWT's: a touch that travelled, or
\* during which a key was typed with DWT on, never ends in a tap, even if DWT
\* expires before the finger lifts.
THEOREM TapsAreStill == Spec => NoTapAfterTravelOrTyping
<1>1. TrackerInv /\ [Next]_vars
      => [Tapped => ~travelled /\ ~(config.dwt_enabled /\ typed)]_vars
  <2> SUFFICES ASSUME TrackerInv, Next, Tapped
               PROVE  ~travelled /\ ~(config.dwt_enabled /\ typed)
    OBVIOUS
  <2>1. Taps
    BY TapsEndTouches
  <2>2. ~travelled
    BY <2>1 DEF TrackerInv, TapIsRuledOut, Taps, Muted
  <2>3. ASSUME config.dwt_enabled, typed PROVE FALSE
    <3>1. touch_start \in 0..TapTimeout /\ touch_start < TapTimeout /\ typing \in 0..DwtTimeout
      BY <2>1 DEF TrackerInv, TypeOK, Taps
    <3>2. typing <= touch_start
      BY <2>1, <2>3, <3>1 DEF TrackerInv, TapIsRuledOut, Taps
    <3>3. typing < DwtTimeout
      BY <3>1, <3>2, TouchpadAssumption
    <3> QED
      BY <2>1, <2>3, <3>3 DEF Taps, Muted, dwt_active
  <2> QED
    BY <2>2, <2>3
<1> QED
  BY <1>1, TrackerInvariant, PTL DEF Spec, NoTapAfterTravelOrTyping

\* README "Configuration", disable_while_typing: while it is active, no motion,
\* scroll, swipe, pinch update or tap is sent, wherever in a frame it begins or
\* ends.
THEOREM DwtStopsThePad == Spec => DwtStopsMotion
<1>1. [Next]_vars
      => [dwt_active =>
            /\ ~Tapped
            /\ \A i \in 1..Len(out') :
                 out'[i].type \in {"button", "pinch_begin", "pinch_end_default",
                                   "pinch_end_measured"}]_vars
  <2> SUFFICES ASSUME Next, dwt_active
               PROVE  /\ ~Tapped
                      /\ \A i \in 1..Len(out') :
                           out'[i].type \in {"button", "pinch_begin", "pinch_end_default",
                                             "pinch_end_measured"}
    OBVIOUS
  <2>1. ~Taps
    BY DEF Taps, Muted
  <2>2. ~Tapped
    BY <2>1, TapsEndTouches
  <2>3. \/ out' = <<>>
        \/ \E b, s : out' = <<SentButton(b, s)>>
        \/ \E type \in {"pinch_begin", "pinch_end_default", "pinch_end_measured"} :
             out' = <<Sent(type)>>
    <3>1. CASE PadFrame \/ Tick \/ KeyTyped \/ Configure \/ MtSlots \/ ToolTap \/ AbsAxis
      BY <3>1 DEF PadFrame, Tick, KeyTyped, Configure, MtSlots, ToolTap, AbsAxis
    <3>2. CASE TouchDown
      BY <3>2 DEF TouchDown
    <3>3. CASE TouchUp
      BY <2>1, <3>3 DEF TouchUp
    <3>4. CASE PhysicalButton
      BY <3>4 DEF PhysicalButton, SendButton
    <3>5. CASE SynReport
      BY <3>5 DEF SynReport, PinchTakesFrame
    <3> QED
      BY <3>1, <3>2, <3>3, <3>4, <3>5 DEF Next, Process
  <2> QED
    BY <2>2, <2>3 DEF Sent, SentButton
<1> QED
  BY <1>1, PTL DEF Spec, DwtStopsMotion

\* Comment backend.rs:782: for any number of fingers that land and lift in any
\* frames, a click on a settled count of up to four goes out as the button of
\* the fingers on the pad.
THEOREM ClicksAreOfFingers == Spec => ClickMatchesFingers
<1>1. TouchpadInv /\ [Next]_vars
      => [(/\ frame # <<>> /\ Head(frame) = Event("left", 1) /\ ~skipped
           /\ contacts <= 4
           /\ \A i \in 1..Len(frame) :
                frame[i].code \in {"left", "abs_x", "abs_y", "syn"})
          => \A i \in 1..Len(out') :
               out'[i].button = CASE contacts = 2 -> "right"
                                  [] contacts >= 3 -> "middle"
                                  [] OTHER -> "left"]_vars
  <2> SUFFICES ASSUME TouchpadInv, Next,
                      frame # <<>>, Head(frame) = Event("left", 1), ~skipped, contacts <= 4,
                      \A i \in 1..Len(frame) :
                        frame[i].code \in {"left", "abs_x", "abs_y", "syn"},
                      NEW i \in 1..Len(out')
               PROVE  out'[i].button = CASE contacts = 2 -> "right"
                                         [] contacts >= 3 -> "middle"
                                         [] OTHER -> "left"
    OBVIOUS
  <2>1. \A j \in DOMAIN frame : frame[j].code \notin Telling
    <3>1. frame \in Seq(Events)
      BY DEF TouchpadInv, TrackerInv, FrameOK
    <3> QED
      BY <3>1 DEF Telling
  <2>2. touch_fingers = contacts
    BY <2>1 DEF TouchpadInv, FingersTold
  <2>3. Head(frame).code = "left" /\ Head(frame).value = 1
    BY DEF Event
  <2>4. out' # <<>>
    OBVIOUS
  <2>5. PhysicalButton
    BY <2>3, <2>4 DEF Next, Process, PadFrame, Frame, SendFrame, Tick, KeyTyped, Configure,
       MtSlots, TouchDown, TouchUp, ToolTap, AbsAxis, SynReport, Consumes, Takes, ToolBit
  <2>6. out' = <<SentButton(ClickButton, 1)>>
    BY <2>3, <2>5 DEF PhysicalButton, Consumes, Takes, SendButton
  <2>7. out'[i].button = ClickButton
    BY <2>6 DEF SentButton
  <2> QED
    BY <2>2, <2>7 DEF ClickButton
<1> QED
  BY <1>1, TouchpadInvariant, PTL DEF Spec, ClickMatchesFingers

-----------------------------------------------------------------------------
(* The daemon's pad.  Its variables are named as those of Touchpad, but for *)
(* the buttons it lost, whether a write failed, and its keyboards.         *)

CONSTANTS tap_to_click, disable_while_typing, EmitMayFail, Keyboards
VARIABLES lost, failed, last_typing_time, typed_on

Daemon == INSTANCE DaemonPad

\* Both backends are sent the same frames.
LEMMA SameFrames ==
  /\ Daemon!FrameOK <=> FrameOK
  /\ Daemon!InOrder <=> InOrder
  /\ Daemon!MotionIsLast <=> MotionIsLast
  /\ Daemon!Handled = Handled
  /\ \A c : Daemon!Unread(c) <=> Unread(c)
<1>1. Daemon!FrameOK <=> FrameOK
  BY DEF Daemon!FrameOK, FrameOK, Daemon!Says, Says, Daemon!Events, Events, Daemon!Codes, Codes,
         Daemon!Button, Button, Daemon!ToolBit, ToolBit, Daemon!Bit, Bit
<1>2. Daemon!InOrder <=> InOrder
  BY DEF Daemon!InOrder, InOrder, Daemon!Rank, Rank
<1>3. Daemon!MotionIsLast <=> MotionIsLast
  BY DEF Daemon!MotionIsLast, MotionIsLast, Daemon!Rank, Rank
<1>4. \A c : Daemon!Unread(c) <=> Unread(c)
  BY DEF Daemon!Unread, Unread
<1>5. Daemon!Handled = Handled
  BY DEF Daemon!Handled, Handled, Daemon!Unread, Unread, Daemon!Button, Button
<1> QED
  BY <1>1, <1>2, <1>3, <1>4, <1>5

LEMMA SameSteps ==
  /\ Daemon!FrameOK' <=> FrameOK'
  /\ Daemon!InOrder' <=> InOrder'
  /\ Daemon!MotionIsLast' <=> MotionIsLast'
  /\ Daemon!Handled' = Handled'
  /\ \A c : Daemon!Unread(c)' <=> Unread(c)'
  /\ Daemon!Frame <=> Frame
  /\ \A code, V : Daemon!Takes(code, V) <=> Takes(code, V)
<1>1. Daemon!FrameOK' <=> FrameOK'
  BY DEF Daemon!FrameOK, FrameOK, Daemon!Says, Says, Daemon!Events, Events, Daemon!Codes, Codes,
         Daemon!Button, Button, Daemon!ToolBit, ToolBit, Daemon!Bit, Bit
<1>2. Daemon!InOrder' <=> InOrder'
  BY DEF Daemon!InOrder, InOrder, Daemon!Rank, Rank
<1>3. Daemon!MotionIsLast' <=> MotionIsLast'
  BY DEF Daemon!MotionIsLast, MotionIsLast, Daemon!Rank, Rank
<1>4. \A c : Daemon!Unread(c)' <=> Unread(c)'
  BY DEF Daemon!Unread, Unread
<1>5. Daemon!Handled' = Handled'
  BY DEF Daemon!Handled, Handled, Daemon!Unread, Unread, Daemon!Button, Button
<1>6. Daemon!Frame <=> Frame
  BY DEF Daemon!Frame, Frame, Daemon!SendFrame, SendFrame, Daemon!Touches, Touches,
         Daemon!Motion, Motion, Daemon!Click, Click, Daemon!Changed, Changed, Daemon!Event, Event,
         Daemon!Bit, Bit, Daemon!Button, Button
<1>7. \A code, V : Daemon!Takes(code, V) <=> Takes(code, V)
  BY DEF Daemon!Takes, Takes
<1> QED
  BY <1>1, <1>2, <1>3, <1>4, <1>5, <1>6, <1>7

-----------------------------------------------------------------------------
(* What is written *)

\* Of the first w of the events s, those with this button and state.
Counted(s, w, b, v) == Cardinality({i \in 1..w : s[i].button = b /\ s[i].state = v})

\* What emits of s make of the client's buttons when w events were written.
Writes(s, w) ==
  /\ Len(out') = w /\ DOMAIN out' = 1..w /\ \A i \in 1..w : out'[i] = s[i]
  /\ lost' = lost \cup ({s[i].button : i \in w + 1..Len(s)} \ {None})
  /\ balance' = [b \in Button |-> IF b \in lost' THEN 0
                                  ELSE balance[b] + Counted(s, w, b, 1) - Counted(s, w, b, 0)]

LEMMA EmitWrites ==
  ASSUME NEW S, NEW s \in Seq(S), NEW n, Daemon!Emit(s, n)
  PROVE  /\ n \in 0..Len(s)
         /\ \E w \in 0..Len(s) : /\ w = Len(s) - n \/ (n > 0 /\ w = Len(s) - n + 1)
                                 /\ Writes(s, w)
<1>1. Len(s) \in Nat /\ n \in 0..Len(s)
  BY DEF Daemon!Emit
<1>2. PICK w \in Len(s) - n..Len(s) - n + Bit(n > 0) :
        /\ out' = SubSeq(s, 1, w)
        /\ lost' = lost \cup ({s[i].button : i \in (w + 1)..Len(s)} \ {None})
  BY DEF Daemon!Emit, Daemon!Bit, Bit
<1>3. w \in 0..Len(s) /\ (w = Len(s) - n \/ (n > 0 /\ w = Len(s) - n + 1))
  BY <1>1, <1>2 DEF Bit
<1>4. Len(out') = w /\ DOMAIN out' = 1..w /\ \A i \in 1..w : out'[i] = s[i]
  <2>1. \A i \in 1..w : s[i] \in S
    BY <1>1, <1>3
  <2> QED
    BY <1>2, <1>3, <2>1, SubSeqProperties
<1>5. balance' = [b \in Button |-> IF b \in lost' THEN 0
                                   ELSE balance[b] + Counted(s, w, b, 1) - Counted(s, w, b, 0)]
  <2>1. \A S1 : Daemon!Cardinality(S1) = Cardinality(S1)
    BY DEF Daemon!Cardinality, Cardinality
  <2>2. ASSUME NEW b, NEW v
        PROVE  Daemon!Cardinality({i \in DOMAIN out' : out'[i].button = b /\ out'[i].state = v})
                 = Counted(s, w, b, v)
    <3>1. {i \in DOMAIN out' : out'[i].button = b /\ out'[i].state = v}
            = {i \in 1..w : s[i].button = b /\ s[i].state = v}
      BY <1>4
    <3> QED
      BY <2>1, <3>1 DEF Counted
  <2>3. balance' = [b \in Button |->
          IF b \in lost' THEN 0
          ELSE balance[b]
              + Daemon!Cardinality({i \in DOMAIN out' : out'[i].button = b /\ out'[i].state = 1})
              - Daemon!Cardinality({i \in DOMAIN out' : out'[i].button = b /\ out'[i].state = 0})]
    BY DEF Daemon!Emit, Daemon!Button, Button
  <2> QED
    BY <2>2, <2>3
<1>6. Writes(s, w)
  BY <1>2, <1>4, <1>5 DEF Writes
<1> QED
  BY <1>1, <1>3, <1>6

\* The balance of a button whose writes were lost is not kept any more.
Balances ==
  /\ lost \subseteq Button
  /\ balance \in [Button -> Int]
  /\ \A b \in lost : balance[b] = 0

LEMMA NoneCounted ==
  ASSUME NEW s, NEW w, NEW b, NEW v, \A i \in 1..w : s[i].button # b \/ s[i].state # v
  PROVE  Counted(s, w, b, v) = 0
<1>1. {i \in 1..w : s[i].button = b /\ s[i].state = v} = {}
  OBVIOUS
<1> QED
  BY <1>1, FS_EmptySet DEF Counted

LEMMA OneCounted ==
  ASSUME NEW s, NEW w, NEW b, NEW v, NEW k,
         {i \in 1..w : s[i].button = b /\ s[i].state = v} = {k}
  PROVE  Counted(s, w, b, v) = 1
  BY FS_Singleton DEF Counted

\* Motion and reports leave the buttons alone, whichever of them are written.
LEMMA QuietEmits ==
  ASSUME NEW S, NEW s \in Seq(S), NEW n, Daemon!Emit(s, n), Balances,
         \A i \in 1..Len(s) : s[i].button = None
  PROVE  /\ n \in 0..Len(s)
         /\ UNCHANGED <<lost, balance>>
         /\ Len(out') \in 0..Len(s) /\ DOMAIN out' = 1..Len(out')
         /\ \A i \in DOMAIN out' : i \in 1..Len(s) /\ out'[i] = s[i]
<1>1. PICK w \in 0..Len(s) : Writes(s, w)
  BY EmitWrites
<1>2. n \in 0..Len(s) /\ Len(s) \in Nat
  BY EmitWrites
<1>3. lost' = lost
  <2>1. \A i \in w + 1..Len(s) : s[i].button = None
    BY <1>2
  <2> QED
    BY <1>1, <2>1 DEF Writes
<1>4. ASSUME NEW b \in Button, NEW v PROVE Counted(s, w, b, v) = 0
  <2>1. \A i \in 1..w : s[i].button # b
    BY <1>2, TouchpadAssumption
  <2> QED
    BY <2>1, NoneCounted
<1>5. balance' = balance
  <2>1. balance' = [b \in Button |-> IF b \in lost THEN 0 ELSE balance[b] + 0 - 0]
    BY <1>1, <1>3, <1>4 DEF Writes
  <2>2. \A b \in Button : balance'[b] = balance[b]
    BY <2>1 DEF Balances
  <2>3. balance' \in [Button -> Int]
    BY <2>1 DEF Balances
  <2> QED
    BY <2>2, <2>3 DEF Balances
<1> QED
  BY <1>1, <1>2, <1>3, <1>5 DEF Writes

LEMMA NothingEmitted ==
  ASSUME Balances, Daemon!EmitNothing
  PROVE  UNCHANGED <<lost, balance>> /\ out' = <<>>
<1> DEFINE s == <<>>
<1>1. s \in Seq(Nat) /\ \A i \in 1..Len(s) : s[i].button = None
  OBVIOUS
<1>2. Daemon!Emit(s, 0)
  BY DEF Daemon!EmitNothing
<1>3. UNCHANGED <<lost, balance>>
  <2> HIDE DEF s
  <2> QED
    BY <1>1, <1>2, QuietEmits
<1>4. out' = <<>>
  BY <1>2, SubSeqEmpty DEF Daemon!Emit, Daemon!Bit
<1> QED
  BY <1>3, <1>4

\* A key is written, or its button is lost.
LEMMA KeyEmits ==
  ASSUME Balances, NEW b \in Button, NEW v \in {0, 1}, NEW n, Daemon!Emit(<<Daemon!Key(b, v)>>, n)
  PROVE  /\ lost' \in {lost, lost \cup {b}}
         /\ \A c \in Button :
              balance'[c] = IF c \in lost' THEN 0
                            ELSE balance[c] + (IF c # b THEN 0 ELSE IF v = 1 THEN 1 ELSE -1)
         /\ balance' \in [Button -> Int]
         /\ DOMAIN out' = 1..Len(out')
         /\ \A i \in DOMAIN out' : out'[i] = Daemon!Key(b, v)
<1> DEFINE k == Daemon!Key(b, v)
           s == <<k>>
<1>1. k.button = b /\ k.state = v
  BY DEF Daemon!Key
<1>2. s \in Seq({k}) /\ Len(s) = 1 /\ s[1] = k
  OBVIOUS
<1>3. Daemon!Emit(s, n)
  OBVIOUS
<1> HIDE DEF k, s
<1>4. PICK w \in 0..Len(s) : Writes(s, w)
  BY <1>2, <1>3, EmitWrites
<1>5. None \notin Button
  BY TouchpadAssumption
<1>6. w = 0 \/ w = 1
  BY <1>2
<1>7. ASSUME NEW c \in Button, c \notin lost'
      PROVE  Counted(s, w, c, 1) - Counted(s, w, c, 0)
               = IF c # b THEN 0 ELSE IF v = 1 THEN 1 ELSE -1
  <2>1. CASE c # b
    <3>1. \A u : Counted(s, w, c, u) = 0
      BY <1>1, <1>2, <2>1, NoneCounted
    <3> QED
      BY <2>1, <3>1
  <2>2. CASE c = b
    <3>1. w = 1
      <4> SUFFICES ASSUME w = 0 PROVE FALSE
        BY <1>6
      <4>1. s[1].button \in {s[i].button : i \in w + 1..Len(s)}
        BY <1>2
      <4> QED
        BY <1>1, <1>2, <1>4, <1>5, <1>7, <2>2, <4>1 DEF Writes
    <3>2. Counted(s, w, c, v) = 1
      <4>1. {i \in 1..w : s[i].button = c /\ s[i].state = v} = {1}
        BY <1>1, <1>2, <2>2, <3>1
      <4> QED
        BY <4>1, OneCounted
    <3>3. Counted(s, w, c, 1 - v) = 0
      BY <1>1, <1>2, <3>1, NoneCounted
    <3>4. CASE v = 1
      BY <2>2, <3>2, <3>3, <3>4
    <3>5. CASE v = 0
      BY <2>2, <3>2, <3>3, <3>5
    <3> QED
      BY <3>4, <3>5
  <2> QED
    BY <2>1, <2>2
<1>8. \A c \in Button : Counted(s, w, c, 1) \in Int /\ Counted(s, w, c, 0) \in Int
  <2> SUFFICES ASSUME NEW c \in Button, NEW u \in {0, 1} PROVE Counted(s, w, c, u) \in Int
    OBVIOUS
  <2>1. CASE w = 1 /\ c = b /\ u = v
    <3>1. {i \in 1..w : s[i].button = c /\ s[i].state = u} = {1}
      BY <1>1, <1>2, <2>1
    <3>2. Counted(s, w, c, u) = 1
      BY <3>1, OneCounted
    <3> QED
      BY <3>2
  <2>2. CASE ~(w = 1 /\ c = b /\ u = v)
    BY <1>1, <1>2, <1>6, <2>2, NoneCounted
  <2> QED
    BY <2>1, <2>2
<1>9. \A c \in Button :
        balance'[c] = IF c \in lost' THEN 0
                      ELSE balance[c] + (IF c # b THEN 0 ELSE IF v = 1 THEN 1 ELSE -1)
  <2> SUFFICES ASSUME NEW c \in Button, c \notin lost'
               PROVE  balance'[c] = balance[c] + (IF c # b THEN 0 ELSE IF v = 1 THEN 1 ELSE -1)
    BY <1>4 DEF Writes
  <2>1. balance'[c] = balance[c] + Counted(s, w, c, 1) - Counted(s, w, c, 0)
    BY <1>4 DEF Writes
  <2>2. balance[c] \in Int
    BY DEF Balances
  <2> QED
    BY <1>7, <1>8, <2>1, <2>2
<1>10. balance' \in [Button -> Int]
  BY <1>4, <1>9 DEF Writes, Balances
<1>11. lost' \in {lost, lost \cup {b}}
  <2>1. {s[i].button : i \in w + 1..Len(s)} \subseteq {b}
    BY <1>1, <1>2, <1>6
  <2> QED
    BY <1>4, <1>5, <2>1 DEF Writes
<1> QED
  BY <1>1, <1>2, <1>4, <1>6, <1>9, <1>10, <1>11 DEF Writes, k

\* A tap leaves the balance as it was, or BTN_LEFT is lost.
LEMMA TapEmits ==
  ASSUME Balances, NEW n, Daemon!Emit(Daemon!TapEvents, n)
  PROVE  /\ lost' \in {lost, lost \cup {"left"}}
         /\ \A c \in Button : balance'[c] = IF c \in lost' THEN 0 ELSE balance[c]
         /\ balance' \in [Button -> Int]
         /\ ~Daemon!Taps => n = 0 /\ out' = <<>>
<1>1. CASE ~Daemon!Taps
  <2>1. Daemon!TapEvents = <<>>
    BY <1>1 DEF Daemon!TapEvents
  <2>2. n = 0
    BY <2>1 DEF Daemon!Emit
  <2>3. Daemon!EmitNothing
    BY <2>1, <2>2 DEF Daemon!EmitNothing
  <2> QED
    BY <2>2, <2>3, NothingEmitted DEF Balances
<1>2. CASE Daemon!Taps
  <2> DEFINE p == Daemon!Key("left", 1)
             r == Daemon!Key("left", 0)
             y == Daemon!Syn
             s == <<p, y, r>>
  <2>1. Daemon!TapEvents = s
    BY <1>2 DEF Daemon!TapEvents
  <2>2. /\ p.button = "left" /\ p.state = 1
        /\ y.button = None
        /\ r.button = "left" /\ r.state = 0
    BY DEF Daemon!Key, Daemon!Syn, Daemon!Written
  <2>3. s \in Seq({p, y, r}) /\ Len(s) = 3 /\ s[1] = p /\ s[2] = y /\ s[3] = r
    OBVIOUS
  <2>4. Daemon!Emit(s, n)
    BY <2>1
  <2> HIDE DEF p, r, y, s
  <2>5. PICK w \in 0..Len(s) : Writes(s, w)
    BY <2>3, <2>4, EmitWrites
  <2>6. "left" \in Button /\ None \notin Button
    BY TouchpadAssumption DEF Button
  <2>7. w = 0 \/ w = 1 \/ w = 2 \/ w = 3
    BY <2>3
  <2>8. \A i \in 1..3 : s[i].button = "left" \/ s[i].button = None
    <3>1. \A i \in 1..3 : i = 1 \/ i = 2 \/ i = 3
      OBVIOUS
    <3> QED
      BY <2>2, <2>3, <3>1
  <2>9. lost' \in {lost, lost \cup {"left"}}
    <3>1. {s[i].button : i \in w + 1..Len(s)} \ {None} \subseteq {"left"}
      BY <2>3, <2>8
    <3> QED
      BY <2>5, <3>1 DEF Writes
  <2>10. ASSUME NEW c \in Button, c \notin lost'
         PROVE  /\ Counted(s, w, c, 1) - Counted(s, w, c, 0) = 0
                /\ Counted(s, w, c, 1) \in Int /\ Counted(s, w, c, 0) \in Int
    <3>1. CASE c # "left"
      <4>1. \A u : Counted(s, w, c, u) = 0
        BY <2>3, <2>6, <2>8, <3>1, NoneCounted
      <4> QED
        BY <4>1
    <3>2. CASE c = "left"
      <4>1. w = 3
        <5> SUFFICES ASSUME w # 3 PROVE FALSE
          OBVIOUS
        <5>1. s[3].button \in {s[i].button : i \in w + 1..Len(s)}
          BY <2>3
        <5> QED
          BY <2>2, <2>3, <2>5, <2>6, <2>10, <3>2, <5>1 DEF Writes
      <4>2. \A i \in 1..3 : i = 1 \/ i = 2 \/ i = 3
        OBVIOUS
      <4>3. Counted(s, w, c, 1) = 1
        <5>1. \A i \in 1..w : (s[i].button = c /\ s[i].state = 1) <=> i = 1
          BY <2>2, <2>3, <2>6, <3>2, <4>1, <4>2
        <5>2. {i \in 1..w : s[i].button = c /\ s[i].state = 1} = {1}
          BY <4>1, <5>1
        <5> QED
          BY <5>2, OneCounted
      <4>4. Counted(s, w, c, 0) = 1
        <5>1. \A i \in 1..w : (s[i].button = c /\ s[i].state = 0) <=> i = 3
          BY <2>2, <2>3, <2>6, <3>2, <4>1, <4>2
        <5>2. {i \in 1..w : s[i].button = c /\ s[i].state = 0} = {3}
          BY <4>1, <5>1
        <5> QED
          BY <5>2, OneCounted
      <4> QED
        BY <4>3, <4>4
    <3> QED
      BY <3>1, <3>2
  <2>11. \A c \in Button : balance'[c] = IF c \in lost' THEN 0 ELSE balance[c]
    <3> SUFFICES ASSUME NEW c \in Button, c \notin lost' PROVE balance'[c] = balance[c]
      BY <2>5 DEF Writes
    <3>1. balance'[c] = balance[c] + Counted(s, w, c, 1) - Counted(s, w, c, 0)
      BY <2>5 DEF Writes
    <3>2. balance[c] \in Int
      BY DEF Balances
    <3> QED
      BY <2>10, <3>1, <3>2
  <2>12. balance' \in [Button -> Int]
    BY <2>5, <2>11 DEF Writes, Balances
  <2> QED
    BY <1>2, <2>9, <2>11, <2>12
<1> QED
  BY <1>1, <1>2

-----------------------------------------------------------------------------
(* Motion is last in a frame *)

Moving == {"abs_x", "abs_y"}

\* MotionIsLast, of the events s of a pad that has m fingers.
MovesLast(s, m) ==
  \A j \in DOMAIN s : s[j].code \in Moving =>
    m > 0 /\ \A i \in DOMAIN s : s[i].code \in DOMAIN Rank => i < j

Still(s) == s \in Seq(Events) /\ \A i \in DOMAIN s : s[i].code \notin Moving

LEMMA StillJoins ==
  ASSUME NEW s, NEW t, Still(s), Still(t)
  PROVE  Still(s \o t)
<1>1. s \in Seq(Events) /\ t \in Seq(Events) /\ s \o t \in Seq(Events)
  BY DEF Still
<1>2. ASSUME NEW i \in DOMAIN (s \o t) PROVE (s \o t)[i].code \notin Moving
  BY <1>1, Joined DEF Still
<1> QED
  BY <1>1, <1>2 DEF Still

LEMMA SingleIsStill ==
  ASSUME NEW e \in Events, e.code \notin Moving
  PROVE  Still(<<e>>)
<1>1. <<e>> \in Seq(Events) /\ \A i \in DOMAIN <<e>> : <<e>>[i] = e
  OBVIOUS
<1> QED
  BY <1>1 DEF Still

LEMMA NothingIsStill == Still(<<>>)
  BY DEF Still

LEMMA TouchesAreStill ==
  ASSUME NEW n \in 0..MaxFingers, NEW m \in 0..MaxFingers
  PROVE  Still(Touches(n, m))
<1>1. ASSUME NEW code \in Telling, NEW before, NEW after
      PROVE  Still(Changed(code, before, after))
  <2>1. Event(code, Bit(after)) \in Events /\ Event(code, Bit(after)).code \notin Moving
    BY BitIsBit DEF Event, Events, Codes, Telling, Moving
  <2> QED
    BY <2>1, SingleIsStill, NothingIsStill DEF Changed
<1>2. Still(IF n = m THEN <<>> ELSE <<Event("mt", m)>>)
  <2>1. Event("mt", m) \in Events /\ Event("mt", m).code \notin Moving
    BY DEF Event, Events, Codes, Moving
  <2> QED
    BY <2>1, SingleIsStill, NothingIsStill
<1>3. /\ Still(Changed("touch", n > 0, m > 0)) /\ Still(Changed("doubletap", n = 2, m = 2))
      /\ Still(Changed("tripletap", n = 3, m = 3)) /\ Still(Changed("quadtap", n = 4, m = 4))
  BY <1>1 DEF Telling
<1> QED
  BY <1>2, <1>3, StillJoins DEF Touches

LEMMA MovesLastJoins ==
  ASSUME NEW m, NEW s \in Seq(Events), NEW t \in Seq(Events), MovesLast(s, m), MovesLast(t, m),
         Still(s) \/ Unranked(t)
  PROVE  MovesLast(s \o t, m)
<1> DEFINE u == s \o t
<1>1. /\ Len(s) \in Nat /\ DOMAIN s = 1..Len(s) /\ DOMAIN u \subseteq Nat
      /\ DOMAIN t \subseteq Nat \ {0}
  OBVIOUS
<1>2. \A i \in DOMAIN u : \/ i \in DOMAIN s /\ u[i] = s[i]
                          \/ i - Len(s) \in DOMAIN t /\ u[i] = t[i - Len(s)]
  BY Joined
<1> HIDE DEF u
<1>3. ASSUME NEW j \in DOMAIN u, u[j].code \in Moving
      PROVE  m > 0 /\ \A i \in DOMAIN u : u[i].code \in DOMAIN Rank => i < j
  <2>1. CASE j \in DOMAIN s /\ u[j] = s[j]
    <3>1. Unranked(t)
      BY <1>3, <2>1 DEF Still
    <3>2. m > 0 /\ \A i \in DOMAIN s : s[i].code \in DOMAIN Rank => i < j
      BY <1>3, <2>1 DEF MovesLast
    <3> QED
      BY <1>2, <3>1, <3>2 DEF Unranked
  <2>2. CASE j - Len(s) \in DOMAIN t /\ u[j] = t[j - Len(s)]
    <3>1. m > 0 /\ \A i \in DOMAIN t : t[i].code \in DOMAIN Rank => i < j - Len(s)
      BY <1>3, <2>2 DEF MovesLast
    <3>2. j > Len(s) /\ j \in Nat
      BY <1>1, <2>2
    <3>3. ASSUME NEW i \in DOMAIN u, u[i].code \in DOMAIN Rank PROVE i < j
      <4>1. CASE i \in DOMAIN s
        BY <1>1, <3>2, <4>1
      <4>2. CASE i - Len(s) \in DOMAIN t /\ u[i] = t[i - Len(s)]
        <5>1. i - Len(s) < j - Len(s)
          BY <3>1, <3>3, <4>2
        <5> QED
          BY <1>1, <3>2, <5>1
      <4> QED
        BY <1>2, <4>1, <4>2
    <3> QED
      BY <3>1, <3>3
  <2> QED
    BY <1>2, <2>1, <2>2
<1>4. MovesLast(u, m)
  BY <1>3 DEF MovesLast
<1> QED
  BY <1>4 DEF u

LEMMA StillMovesLast == \A s, m : Still(s) \/ (Unranked(s) /\ m > 0) => MovesLast(s, m)
  BY DEF Still, Unranked, MovesLast

LEMMA FrameMovesLast ==
  ASSUME contacts \in 0..MaxFingers, Frame
  PROVE  MotionIsLast'
<1>1. PICK m \in 0..MaxFingers, A \in SUBSET Axes, b \in Clicks \cup {"none"} :
        SendFrame(m, A, b)
  BY DEF Frame
<1> DEFINE touches == Touches(contacts, m)
           motion == Motion(A)
           e == Event(b, Bit(b \notin pressed))
           syn == Event("syn", 0)
<1>2. contacts' = m /\ (m = 0 => A = {})
  BY <1>1 DEF SendFrame
<1>3. Still(touches) /\ MovesLast(touches, m)
  BY TouchesAreStill, StillMovesLast
<1>4. Unranked(motion) /\ MovesLast(motion, m)
  <2>1. /\ Event("abs_x", 0) \in Events /\ Event("abs_x", 0).code \notin DOMAIN Rank
        /\ Event("abs_y", 0) \in Events /\ Event("abs_y", 0).code \notin DOMAIN Rank
    BY PadAssumption, RankIs DEF Event, Events, Codes, Telling
  <2>2. Unranked(motion)
    BY <2>1, SingleIsUnranked, NothingIsUnranked, UnrankedJoin DEF Motion
  <2>3. CASE m = 0
    <3>1. motion = <<>>
      BY <1>2, <2>3 DEF Motion
    <3> QED
      BY <2>2, <3>1, NothingIsStill, StillMovesLast
  <2>4. CASE m > 0
    BY <2>2, <2>4, StillMovesLast
  <2> QED
    BY <2>3, <2>4, PadAssumption
<1>5. Still(<<syn>>) /\ Unranked(<<syn>>) /\ MovesLast(<<syn>>, m)
  <2>1. syn \in Events /\ syn.code \notin DOMAIN Rank \cup Moving
    BY PadAssumption, RankIs DEF Event, Events, Codes, Telling, Moving
  <2> QED
    BY <2>1, SingleIsUnranked, SingleIsStill, StillMovesLast
<1>6. b \in Button => Still(<<e>>) /\ Unranked(<<e>>) /\ MovesLast(<<e>>, m)
  <2>1. b \in Button => e \in Events /\ e.code \notin DOMAIN Rank \cup Moving
    BY BitIsBit, RankIs DEF Event, Events, Codes, Telling, Button, Moving
  <2> QED
    BY <2>1, SingleIsUnranked, SingleIsStill, StillMovesLast
<1>7. \/ frame' = (touches \o motion) \o <<syn>>
      \/ /\ b \in Button
         /\ \/ frame' = (<<e>> \o (touches \o motion)) \o <<syn>>
            \/ frame' = ((touches \o motion) \o <<e>>) \o <<syn>>
  BY <1>1 DEF SendFrame, Click
<1>8. MotionIsLast' <=> MovesLast(frame', contacts')
  BY DEF MotionIsLast, MovesLast, Moving
<1> HIDE DEF touches, motion, e, syn
<1>9. /\ touches \in Seq(Events) /\ motion \in Seq(Events) /\ <<syn>> \in Seq(Events)
      /\ b \in Button => <<e>> \in Seq(Events)
      /\ touches \o motion \in Seq(Events)
  BY <1>3, <1>4, <1>5, <1>6 DEF Still, Unranked
<1>10. MovesLast(touches \o motion, m)
  BY <1>3, <1>4, <1>9, MovesLastJoins
<1>11. CASE frame' = (touches \o motion) \o <<syn>>
  BY <1>2, <1>5, <1>8, <1>9, <1>10, <1>11, MovesLastJoins
<1>12. CASE b \in Button /\ frame' = (<<e>> \o (touches \o motion)) \o <<syn>>
  <2>1. <<e>> \o (touches \o motion) \in Seq(Events)
    BY <1>9, <1>12
  <2>2. MovesLast(<<e>> \o (touches \o motion), m)
    BY <1>6, <1>9, <1>10, <1>12, MovesLastJoins
  <2>3. MovesLast((<<e>> \o (touches \o motion)) \o <<syn>>, m)
    BY <1>5, <1>9, <2>1, <2>2, MovesLastJoins
  <2> QED
    BY <1>2, <1>8, <1>12, <2>3
<1>13. CASE b \in Button /\ frame' = ((touches \o motion) \o <<e>>) \o <<syn>>
  <2>1. (touches \o motion) \o <<e>> \in Seq(Events)
    BY <1>9, <1>13
  <2>2. MovesLast((touches \o motion) \o <<e>>, m)
    BY <1>6, <1>9, <1>10, <1>13, MovesLastJoins
  <2>3. MovesLast(((touches \o motion) \o <<e>>) \o <<syn>>, m)
    BY <1>5, <1>9, <2>1, <2>2, MovesLastJoins
  <2> QED
    BY <1>2, <1>8, <1>13, <2>3
<1> QED
  BY <1>7, <1>11, <1>12, <1>13

LEMMA MotionStaysLast ==
  ASSUME FrameOK, InOrder, MotionIsLast, frame # <<>>, frame' = Tail(frame), contacts' = contacts
  PROVE  MotionIsLast'
<1>1. /\ DOMAIN frame \subseteq Nat \ {0} /\ DOMAIN frame' \subseteq Nat
      /\ \A i \in DOMAIN frame' : i + 1 \in DOMAIN frame /\ frame'[i] = frame[i + 1]
  BY RestOfFrame
<1>2. ASSUME NEW j \in DOMAIN frame', frame'[j].code \in Moving
      PROVE  contacts' > 0 /\ \A i \in DOMAIN frame' : frame'[i].code \in DOMAIN Rank => i < j
  <2>1. contacts > 0 /\ \A i \in DOMAIN frame : frame[i].code \in DOMAIN Rank => i < j + 1
    BY <1>1, <1>2 DEF MotionIsLast, Moving
  <2>2. ASSUME NEW i \in DOMAIN frame', frame'[i].code \in DOMAIN Rank PROVE i < j
    <3>1. i + 1 < j + 1
      BY <1>1, <2>1, <2>2
    <3> QED
      BY <1>1, <3>1
  <2> QED
    BY <2>1, <2>2
<1> QED
  BY <1>2 DEF MotionIsLast, Moving
-----------------------------------------------------------------------------
(* The daemon's invariant at the start, and while no event is processed *)

LEMMA SameButtons == Daemon!Button = Button /\ \A b : Daemon!Bit(b) = Bit(b)
  BY DEF Daemon!Button, Button, Daemon!Bit, Bit

LEMMA DaemonStarts == Daemon!Init => Daemon!TouchpadInv
<1> SUFFICES ASSUME Daemon!Init PROVE Daemon!TouchpadInv
  OBVIOUS
<1>1. /\ frame = <<>> /\ contacts = 0 /\ pressed = {} /\ skipped = FALSE
      /\ touch_active = FALSE /\ touch_fingers = 0 /\ known = {} /\ moved = FALSE
      /\ tap_emitted = FALSE /\ touch_start = None /\ active_click_button = None
      /\ typing = DwtTimeout /\ balance = [b \in Button |-> 0] /\ lost = {}
      /\ failed = FALSE /\ travelled = FALSE /\ typed_on = {}
      /\ last_typing_time = [k \in Keyboards |-> None]
  BY SameButtons DEF Daemon!Init, Daemon!PadInit
<1>2. \A c : ~Unread(c)
  BY <1>1 DEF Unread
<1>3. Handled = {}
  BY <1>1, <1>2 DEF Handled
<1>4. FrameOK /\ InOrder /\ MotionIsLast
  BY <1>1 DEF FrameOK, InOrder, MotionIsLast
<1>5. Daemon!TypeOK
  <2>1. 0 \in 0..MaxFingers /\ DwtTimeout \in 0..DwtTimeout
    BY PadAssumption, TouchpadAssumption
  <2>2. balance \in [Daemon!Button -> {0, 1, 2}]
    BY <1>1, SameButtons
  <2>3. /\ pressed \subseteq Daemon!Button /\ lost \subseteq Daemon!Button
        /\ known \subseteq {"x", "y"} /\ {failed, travelled} \subseteq BOOLEAN
        /\ typed_on \subseteq Keyboards
        /\ last_typing_time \in [Keyboards -> {None} \cup 0..DwtTimeout]
        /\ touch_active \in BOOLEAN /\ moved \in BOOLEAN /\ tap_emitted \in BOOLEAN
    BY <1>1
  <2>4. /\ contacts \in 0..MaxFingers /\ touch_fingers \in 0..3
        /\ touch_start \in {None} \cup 0..TapTimeout
        /\ active_click_button \in Daemon!Button \cup {None}
        /\ typing \in 0..DwtTimeout
    BY <1>1, <2>1
  <2> QED
    BY <2>2, <2>3, <2>4 DEF Daemon!TypeOK
<1>6. Daemon!TrackerFollowsPad
  BY <1>1 DEF Daemon!TrackerFollowsPad
<1>7. Daemon!ButtonsBalanced
  <2>1. ASSUME NEW b \in Button
        PROVE  /\ balance[b] = 0 /\ b \notin lost
               /\ Bit(active_click_button = b) = 0
               /\ Bit(b # "left" /\ b \in Handled) = 0
    BY <1>1, <1>3, TouchpadAssumption DEF Bit
  <2>2. active_click_button = None /\ "left" \notin Handled
    BY <1>1, <1>3
  <2> QED
    BY <2>1, <2>2, SameFrames, SameButtons DEF Daemon!ButtonsBalanced
<1>8. Daemon!TapIsRuledOut
  BY <1>1 DEF Daemon!TapIsRuledOut
<1>9. Daemon!FingersTold
  BY <1>1 DEF Daemon!FingersTold
<1> QED
  BY <1>4, <1>5, <1>6, <1>7, <1>8, <1>9, SameFrames DEF Daemon!TouchpadInv, Daemon!TrackerInv

LEMMA DaemonPadUntouched ==
  ASSUME UNCHANGED <<contacts, pressed, frame, skipped>>, Daemon!TrackerInv
  PROVE  /\ Daemon!FrameOK' /\ Daemon!InOrder' /\ Daemon!MotionIsLast'
         /\ \A c : Daemon!Unread(c)' <=> Daemon!Unread(c)
         /\ Daemon!Handled' = Daemon!Handled
<1>1. FrameOK' /\ (\A c : Unread(c)' <=> Unread(c)) /\ Handled' = Handled
  BY PadUntouched, SameFrames DEF padVars, Daemon!TrackerInv
<1>2. InOrder' /\ MotionIsLast'
  BY SameFrames DEF Daemon!TrackerInv, InOrder, MotionIsLast
<1> QED
  BY <1>1, <1>2, SameFrames, SameSteps

\* An event of a keyboard: what it does to the typing times.
LEMMA DaemonKeyboards ==
  ASSUME Daemon!TrackerInv, NEW k \in Keyboards, Daemon!KeyTyped(k) \/ Daemon!KeyReleased(k)
  PROVE  /\ UNCHANGED <<contacts, pressed, frame, skipped, touch_active, touch_fingers, known,
                        moved, tap_emitted, touch_start, active_click_button, balance, lost,
                        failed, travelled>>
         /\ out' = <<>>
         /\ last_typing_time' \in [Keyboards -> {None} \cup 0..DwtTimeout]
         /\ typing' \in 0..DwtTimeout
         /\ typed_on' \subseteq Keyboards
         /\ \A l \in typed_on' : (l \in typed_on /\ last_typing_time'[l] = last_typing_time[l])
                                   \/ last_typing_time'[l] = 0
<1>1. /\ last_typing_time \in [Keyboards -> {None} \cup 0..DwtTimeout]
      /\ typed_on \subseteq Keyboards /\ 0 \in 0..DwtTimeout
  BY TouchpadAssumption DEF Daemon!TrackerInv, Daemon!TypeOK
<1>2. Daemon!ShareTime(k)
  BY DEF Daemon!KeyTyped, Daemon!KeyReleased
<1>3. CASE Daemon!KeyTyped(k)
  <2>1. /\ last_typing_time' = [last_typing_time EXCEPT ![k] = 0]
        /\ typed_on' = typed_on \/ typed_on' = typed_on \cup {k}
        /\ typing' = last_typing_time'[k]
    BY <1>2, <1>3 DEF Daemon!KeyTyped, Daemon!ShareTime
  <2> QED
    BY <1>1, <1>2, <2>1 DEF Daemon!ShareTime, Daemon!padVars, Daemon!wrapperVars
<1>4. CASE Daemon!KeyReleased(k)
  <2>1. /\ UNCHANGED <<last_typing_time, typed_on>> /\ last_typing_time[k] # None
        /\ typing' = last_typing_time'[k]
    BY <1>2, <1>4 DEF Daemon!KeyReleased, Daemon!ShareTime
  <2> QED
    BY <1>1, <1>2, <2>1 DEF Daemon!ShareTime, Daemon!padVars, Daemon!wrapperVars
<1> QED
  BY <1>3, <1>4

\* What time does to the ages.
LEMMA DaemonTicks ==
  ASSUME Daemon!TrackerInv, Daemon!Tick
  PROVE  /\ UNCHANGED <<contacts, pressed, frame, skipped, touch_active, touch_fingers, known,
                        moved, tap_emitted, active_click_button, balance, lost, failed,
                        travelled, typed_on>>
         /\ touch_start' \in {None} \cup 0..TapTimeout
         /\ touch_start' # None <=> touch_start # None
         /\ last_typing_time' \in [Keyboards -> {None} \cup 0..DwtTimeout]
         /\ typing' \in 0..DwtTimeout
         /\ Daemon!TapIsRuledOut'
<1>1. UNCHANGED <<contacts, pressed, frame, skipped, touch_active, touch_fingers, known, moved,
                  tap_emitted, active_click_button, balance, lost, failed, travelled, typed_on>>
  BY DEF Daemon!Tick, Daemon!padVars, Daemon!historyVars
<1>2. /\ touch_start \in {None} \cup 0..TapTimeout /\ typing \in 0..DwtTimeout
      /\ last_typing_time \in [Keyboards -> {None} \cup 0..DwtTimeout]
      /\ typed_on \subseteq Keyboards
  BY DEF Daemon!TrackerInv, Daemon!TypeOK
<1>3. /\ touch_start' = Daemon!Aged(touch_start, TapTimeout)
      /\ typing' = Daemon!Aged(typing, DwtTimeout)
      /\ last_typing_time' = [k \in Keyboards |-> Daemon!Aged(last_typing_time[k], DwtTimeout)]
  BY DEF Daemon!Tick
<1>4. ASSUME NEW limit \in Nat, NEW age \in {None} \cup 0..limit
      PROVE  /\ Daemon!Aged(age, limit) \in {None} \cup 0..limit
             /\ Daemon!Aged(age, limit) # None <=> age # None
             /\ age \in 0..limit - 1 => Daemon!Aged(age, limit) = age + 1
             /\ Daemon!Aged(age, limit) \in 0..limit - 1 =>
                  age \in 0..limit - 1 /\ Daemon!Aged(age, limit) = age + 1
  BY TouchpadAssumption DEF Daemon!Aged
<1>5. /\ touch_start' \in {None} \cup 0..TapTimeout
      /\ touch_start' # None <=> touch_start # None
      /\ touch_start' \in 0..TapTimeout - 1 =>
           touch_start \in 0..TapTimeout - 1 /\ touch_start' = touch_start + 1
  BY <1>2, <1>3, <1>4, TouchpadAssumption
<1>6. typing' \in 0..DwtTimeout
  BY <1>2, <1>3, <1>4, TouchpadAssumption
<1>7. last_typing_time' \in [Keyboards -> {None} \cup 0..DwtTimeout]
  BY <1>2, <1>3, <1>4, TouchpadAssumption
<1>8. ASSUME touch_start' \in 0..TapTimeout - 1, NEW k \in typed_on'
      PROVE  last_typing_time'[k] \in 0..touch_start'
  <2>1. touch_start \in 0..TapTimeout - 1 /\ touch_start' = touch_start + 1
    BY <1>5, <1>8
  <2>2. k \in Keyboards /\ last_typing_time[k] \in 0..touch_start
    BY <1>1, <1>2, <1>8, <2>1 DEF Daemon!TrackerInv, Daemon!TapIsRuledOut
  <2>3. last_typing_time[k] \in 0..DwtTimeout - 1
    BY <2>1, <2>2, TouchpadAssumption
  <2>4. last_typing_time'[k] = last_typing_time[k] + 1
    BY <1>2, <1>3, <1>4, <2>2, <2>3, TouchpadAssumption
  <2> QED
    BY <2>1, <2>2, <2>4
<1>9. Daemon!TapIsRuledOut'
  BY <1>1, <1>8 DEF Daemon!TrackerInv, Daemon!TapIsRuledOut
<1> QED
  BY <1>1, <1>5, <1>6, <1>7, <1>9

DaemonWorld == \/ Daemon!Tick
               \/ \E k \in Keyboards : Daemon!KeyTyped(k) \/ Daemon!KeyReleased(k)

\* Steps that leave the pad and the wrapper alone but for what time does.
LEMMA DaemonWorldKeepsInv ==
  ASSUME Daemon!TrackerInv, DaemonWorld \/ UNCHANGED Daemon!vars
  PROVE  Daemon!TrackerInv'
<1> USE DEF Daemon!TrackerInv
<1>1. /\ UNCHANGED <<contacts, pressed, frame, skipped, touch_active, touch_fingers, known, moved,
                     tap_emitted, active_click_button, balance, lost, failed, travelled>>
      /\ touch_start' # None <=> touch_start # None
      /\ touch_start' \in {None} \cup 0..TapTimeout /\ typing' \in 0..DwtTimeout
      /\ last_typing_time' \in [Keyboards -> {None} \cup 0..DwtTimeout]
      /\ typed_on' \subseteq Keyboards
      /\ Daemon!TapIsRuledOut'
  <2>1. /\ touch_start \in {None} \cup 0..TapTimeout /\ typing \in 0..DwtTimeout
        /\ last_typing_time \in [Keyboards -> {None} \cup 0..DwtTimeout]
        /\ typed_on \subseteq Keyboards
    BY DEF Daemon!TypeOK
  <2>2. CASE Daemon!Tick
    BY <2>1, <2>2, DaemonTicks
  <2>3. CASE \E k \in Keyboards : Daemon!KeyTyped(k) \/ Daemon!KeyReleased(k)
    <3>1. PICK k \in Keyboards : Daemon!KeyTyped(k) \/ Daemon!KeyReleased(k)
      BY <2>3
    <3>2. /\ UNCHANGED <<touch_start, tap_emitted, travelled>>
          /\ \A l \in typed_on' :
               (l \in typed_on /\ last_typing_time'[l] = last_typing_time[l])
                 \/ last_typing_time'[l] = 0
      BY <3>1, DaemonKeyboards
    <3>3. Daemon!TapIsRuledOut'
      <4>1. ASSUME touch_start \in 0..TapTimeout - 1 PROVE 0 \in 0..touch_start
        BY <4>1, TouchpadAssumption
      <4> QED
        BY <3>2, <4>1 DEF Daemon!TapIsRuledOut
    <3> QED
      BY <2>1, <3>1, <3>2, <3>3, DaemonKeyboards
  <2>4. CASE UNCHANGED Daemon!vars
    <3>1. Daemon!TapIsRuledOut'
      BY <2>4 DEF Daemon!vars, Daemon!TapIsRuledOut
    <3> QED
      BY <2>1, <2>4, <3>1 DEF Daemon!vars
  <2> QED
    BY <2>2, <2>3, <2>4 DEF DaemonWorld
<1>2. /\ Daemon!FrameOK' /\ Daemon!InOrder' /\ Daemon!MotionIsLast'
      /\ \A c : Daemon!Unread(c)' <=> Daemon!Unread(c)
      /\ Daemon!Handled' = Daemon!Handled
  BY <1>1, DaemonPadUntouched
<1>3. Daemon!TypeOK'
  BY <1>1 DEF Daemon!TypeOK
<1>4. Daemon!TrackerFollowsPad'
  BY <1>1, <1>2 DEF Daemon!TrackerFollowsPad
<1>5. Daemon!ButtonsBalanced'
  BY <1>1, <1>2 DEF Daemon!ButtonsBalanced
<1> QED
  BY <1>1, <1>2, <1>3, <1>4, <1>5

LEMMA DaemonFrameKeepsInv ==
  ASSUME Daemon!TrackerInv, Daemon!PadFrame
  PROVE  Daemon!TrackerInv'
<1> USE DEF Daemon!TrackerInv
<1>1. contacts \in 0..MaxFingers /\ pressed \subseteq Button /\ Frame
  BY SameSteps, SameButtons DEF Daemon!TypeOK, Daemon!PadFrame
<1>2. /\ FrameOK' /\ frame' # <<>> /\ frame = <<>>
      /\ contacts' \in 0..MaxFingers /\ pressed' \subseteq Button
      /\ ~Unread("touch")' => (contacts' > 0 <=> contacts > 0)
      /\ Handled' = Handled
  BY <1>1, FrameIsSent
<1>3. InOrder' /\ MotionIsLast'
  BY <1>1, FrameIsStaged, FrameMovesLast DEF Staged, InOrder
<1>4. UNCHANGED <<touch_active, touch_fingers, known, moved, tap_emitted, touch_start,
                  active_click_button, last_typing_time, typing, balance, lost, failed, travelled,
                  typed_on>>
  BY DEF Daemon!PadFrame, Daemon!wrapperVars, Daemon!typingVars, Daemon!historyVars
<1>5. \A c : ~Unread(c)
  BY <1>2 DEF Unread
<1>6. Daemon!TypeOK'
  BY <1>2, <1>4, SameButtons DEF Daemon!TypeOK
<1>7. Daemon!TrackerFollowsPad'
  BY <1>2, <1>4, <1>5, SameFrames, SameSteps DEF Daemon!TrackerFollowsPad
<1>8. Daemon!ButtonsBalanced'
  BY <1>2, <1>4, SameFrames, SameSteps DEF Daemon!ButtonsBalanced
<1>9. Daemon!TapIsRuledOut'
  BY <1>4 DEF Daemon!TapIsRuledOut
<1> QED
  BY <1>2, <1>3, <1>6, <1>7, <1>8, <1>9, SameSteps
-----------------------------------------------------------------------------
(* The daemon's invariant while an event is processed *)

LEMMA DaemonEvent ==
  ASSUME Daemon!TrackerInv, NEW code, NEW V, Daemon!Consumes(code, V)
  PROVE  /\ Takes(code, V) /\ FrameOK /\ InOrder
         /\ Daemon!FrameOK' /\ Daemon!InOrder' /\ Daemon!MotionIsLast'
         /\ frame # <<>> /\ frame' = Tail(frame)
         /\ Head(frame) \in Events /\ Head(frame).value \in V /\ Says(Head(frame))
         /\ Head(frame).code = code
         /\ \A c : c # code => (Unread(c)' <=> Unread(c))
         /\ code # "syn" => frame' # <<>>
         /\ code \in DOMAIN Rank => ~Unread(code)'
         /\ code \in Moving => contacts > 0 /\ \A c \in DOMAIN Rank : ~Unread(c)
         /\ UNCHANGED <<contacts, pressed, skipped, last_typing_time, typing>>
<1>1. Takes(code, V) /\ FrameOK /\ InOrder /\ MotionIsLast /\ UNCHANGED Daemon!typingVars
  BY SameFrames, SameSteps DEF Daemon!TrackerInv, Daemon!Consumes
<1>2. /\ FrameOK' /\ \A c : c # code => (Unread(c)' <=> Unread(c))
      /\ Head(frame) \in Events /\ Head(frame).value \in V /\ Says(Head(frame))
      /\ Head(frame).code = code
      /\ code # "syn" => frame' # <<>>
  BY <1>1, EventIsTaken
<1>3. /\ frame # <<>> /\ frame' = Tail(frame)
      /\ UNCHANGED <<contacts, pressed, skipped>>
  BY <1>1 DEF Takes
<1>4. /\ 1 \in DOMAIN frame /\ frame[1] = Head(frame) /\ DOMAIN frame \subseteq Nat \ {0}
      /\ \A i \in DOMAIN frame' : i + 1 \in DOMAIN frame /\ frame'[i] = frame[i + 1]
      /\ InOrder' /\ DOMAIN frame' \subseteq Nat
  BY <1>1, <1>3, RestOfFrame
<1>5. MotionIsLast'
  BY <1>1, <1>3, MotionStaysLast
<1>6. ASSUME code \in DOMAIN Rank PROVE ~Unread(code)'
  <2> SUFFICES ASSUME NEW i \in DOMAIN frame', frame'[i].code = code PROVE FALSE
    BY DEF Unread
  <2>1. i + 1 \in DOMAIN frame /\ frame[i + 1].code = code /\ frame[1].code = code /\ 1 < i + 1
    <3>1. i >= 1 /\ i \in Int
      <4>1. frame' \in Seq(Events)
        BY <1>2 DEF FrameOK
      <4> QED
        BY <4>1
    <3>2. frame[1].code = code
      BY <1>2, <1>4
    <3>3. i + 1 \in DOMAIN frame /\ frame[i + 1].code = code
      BY <1>4
    <3> QED
      BY <3>1, <3>2, <3>3
  <2>2. Rank[code] < Rank[code]
    BY <1>1, <1>4, <1>6, <2>1 DEF InOrder
  <2>3. Rank[code] \in 0..4
    BY <1>6, RankIsNat
  <2> QED
    BY <2>2, <2>3
<1>7. ASSUME code \in Moving PROVE contacts > 0 /\ \A c \in DOMAIN Rank : ~Unread(c)
  <2>1. contacts > 0 /\ \A i \in DOMAIN frame : frame[i].code \in DOMAIN Rank => i < 1
    BY <1>1, <1>2, <1>4, <1>7 DEF MotionIsLast, Moving
  <2>2. \A i \in DOMAIN frame : frame[i].code \notin DOMAIN Rank
    BY <1>4, <2>1
  <2> QED
    BY <2>1, <2>2 DEF Unread
<1> QED
  BY <1>1, <1>2, <1>3, <1>4, <1>5, <1>6, <1>7, SameSteps DEF Daemon!typingVars

LEMMA BalancesKept ==
  ASSUME Daemon!TrackerInv
  PROVE  Balances
<1>1. lost \subseteq Button /\ balance \in [Button -> {0, 1, 2}]
  BY SameButtons DEF Daemon!TrackerInv, Daemon!TypeOK
<1>2. \A b \in lost : balance[b] = 0
  BY <1>1, SameButtons DEF Daemon!TrackerInv, Daemon!ButtonsBalanced
<1> QED
  BY <1>1, <1>2 DEF Balances

\* An event that is no click, and changes the buttons of no one.
LEMMA DaemonBalanceKept ==
  ASSUME Daemon!TrackerInv, NEW code, NEW V, Daemon!Consumes(code, V), code \notin Button,
         UNCHANGED <<active_click_button, lost, balance>>
  PROVE  Daemon!ButtonsBalanced'
<1>1. Handled' = Handled
  BY ButtonsTaken, DaemonEvent
<1>2. Daemon!Handled' = Daemon!Handled
  BY <1>1, SameFrames, SameSteps
<1> QED
  BY <1>2 DEF Daemon!TrackerInv, Daemon!ButtonsBalanced

\* An event that says nothing of the touch.
LEMMA DaemonTouchKept ==
  ASSUME Daemon!TrackerInv, NEW code, NEW V, Daemon!Consumes(code, V), code \notin {"touch", "syn"},
         UNCHANGED <<touch_active, touch_start, moved>>,
         failed => failed', tap_emitted => tap_emitted'
  PROVE  Daemon!TrackerFollowsPad'
<1>1. /\ frame' # <<>> /\ contacts' = contacts
      /\ Daemon!Unread("touch")' <=> Daemon!Unread("touch")
  BY DaemonEvent, SameFrames, SameSteps
<1> QED
  BY <1>1 DEF Daemon!TrackerInv, Daemon!TrackerFollowsPad

\* An event in the middle of a touch.
LEMMA DaemonTapKept ==
  ASSUME Daemon!TrackerInv, UNCHANGED <<travelled, typed_on, touch_start, last_typing_time>>,
         tap_emitted => tap_emitted'
  PROVE  Daemon!TapIsRuledOut'
  BY DEF Daemon!TrackerInv, Daemon!TapIsRuledOut

LEMMA DaemonMuted ==
  ASSUME Daemon!TrackerInv
  PROVE  Daemon!Muted \in BOOLEAN /\ (tap_emitted => Daemon!Muted)
  BY DEF Daemon!Muted

\* The type of what most events leave alone.
LEMMA DaemonTypesKept ==
  ASSUME Daemon!TrackerInv, NEW code, NEW V, Daemon!Consumes(code, V),
         Daemon!ButtonsBalanced', balance' \in [Button -> Int], lost' \subseteq Button,
         active_click_button' \in Button \cup {None},
         touch_active' \in BOOLEAN, touch_fingers' \in 0..3, known' \subseteq {"x", "y"},
         moved' \in BOOLEAN, tap_emitted' \in BOOLEAN, touch_start' \in {None} \cup 0..TapTimeout,
         {failed', travelled'} \subseteq BOOLEAN, typed_on' \subseteq Keyboards
  PROVE  Daemon!TypeOK'
<1>1. UNCHANGED <<contacts, pressed, last_typing_time, typing>>
  BY DaemonEvent
<1>2. \A b \in Button : balance'[b] \in {0, 1, 2}
  <2> SUFFICES ASSUME NEW b \in Button PROVE balance'[b] \in {0, 1, 2}
    OBVIOUS
  <2>1. balance'[b] = IF b \in lost' THEN 0
                      ELSE Bit(active_click_button' = b) + Bit(b # "left" /\ b \in Daemon!Handled')
    BY SameButtons DEF Daemon!ButtonsBalanced
  <2> QED
    BY <2>1 DEF Bit
<1>3. balance' \in [Daemon!Button -> {0, 1, 2}]
  BY <1>2, SameButtons
<1>4. /\ contacts' \in 0..MaxFingers /\ pressed' \subseteq Daemon!Button
      /\ typing' \in 0..DwtTimeout
      /\ last_typing_time' \in [Keyboards -> {None} \cup 0..DwtTimeout]
  BY <1>1 DEF Daemon!TrackerInv, Daemon!TypeOK
<1> QED
  BY <1>3, <1>4, SameButtons DEF Daemon!TypeOK

LEMMA DaemonTouchDownKeepsInv ==
  ASSUME Daemon!TrackerInv, Daemon!TouchDown
  PROVE  Daemon!TrackerInv'
<1>1. Daemon!Consumes("touch", {1})
  BY DEF Daemon!TouchDown
<1>2. contacts > 0
  <2>1. Head(frame).value = Bit(contacts > 0) /\ Head(frame).value = 1
    BY <1>1, DaemonEvent DEF Says
  <2> QED
    BY <2>1 DEF Bit
<1>3. UNCHANGED <<lost, balance, active_click_button, moved>>
  BY BalancesKept, NothingEmitted DEF Daemon!TouchDown
<1>4. Daemon!ButtonsBalanced'
  BY <1>1, <1>3, DaemonBalanceKept DEF Button
<1>5. Daemon!TypeOK'
  <2>1. /\ balance' \in [Button -> Int] /\ lost' \subseteq Button
        /\ active_click_button' \in Button \cup {None} /\ moved' \in BOOLEAN
    BY <1>3, SameButtons, BalancesKept DEF Balances, Daemon!TrackerInv, Daemon!TypeOK
  <2>2. /\ touch_active' \in BOOLEAN /\ touch_fingers' \in 0..3 /\ known' \subseteq {"x", "y"}
        /\ tap_emitted' \in BOOLEAN /\ touch_start' \in {None} \cup 0..TapTimeout
        /\ {failed', travelled'} \subseteq BOOLEAN /\ typed_on' \subseteq Keyboards
    <3>1. /\ touch_active' = TRUE /\ touch_fingers' = 1 /\ known' = {} /\ tap_emitted' = FALSE
          /\ touch_start' = 0 /\ failed' = FALSE /\ travelled' = FALSE /\ typed_on' = {}
      BY DEF Daemon!TouchDown
    <3>2. touch_start' \in {None} \cup 0..TapTimeout /\ touch_fingers' \in 0..3
      BY <3>1, TouchpadAssumption
    <3>3. known' \subseteq {"x", "y"} /\ {failed', travelled'} \subseteq BOOLEAN /\ typed_on' \subseteq Keyboards
      BY <3>1
    <3> QED
      BY <3>1, <3>2, <3>3
  <2> QED
    BY <1>1, <1>4, <2>1, <2>2, DaemonTypesKept
<1>6. Daemon!TrackerFollowsPad'
  <2>1. frame' # <<>> /\ ~Daemon!Unread("touch")' /\ contacts' = contacts
    BY <1>1, DaemonEvent, SameSteps, RankIs DEF Telling
  <2>2. touch_active' = TRUE /\ touch_start' # None
    BY TouchpadAssumption DEF Daemon!TouchDown
  <2> QED
    BY <1>2, <2>1, <2>2 DEF Daemon!TrackerFollowsPad
<1>7. Daemon!TapIsRuledOut'
  BY DEF Daemon!TapIsRuledOut, Daemon!TouchDown
<1> QED
  BY <1>1, <1>4, <1>5, <1>6, <1>7, DaemonEvent DEF Daemon!TrackerInv

LEMMA DaemonTouchUpKeepsInv ==
  ASSUME Daemon!TrackerInv, Daemon!TouchUp
  PROVE  Daemon!TrackerInv'
<1>1. Daemon!Consumes("touch", {0})
  BY DEF Daemon!TouchUp
<1>2. ~(contacts > 0)
  <2>1. Head(frame).value = Bit(contacts > 0) /\ Head(frame).value = 0
    BY <1>1, DaemonEvent DEF Says
  <2> QED
    BY <2>1 DEF Bit
<1>3. PICK n \in 0..3 :
        /\ Daemon!Emit(Daemon!TapEvents, n)
        /\ IF n > 0
           THEN failed' = TRUE /\ UNCHANGED <<known, moved, touch_start, touch_fingers>>
           ELSE /\ known' = {} /\ moved' = FALSE /\ touch_start' = None /\ touch_fingers' = 0
                /\ UNCHANGED failed
  BY DEF Daemon!TouchUp
<1>4. /\ lost' \in {lost, lost \cup {"left"}}
      /\ \A c \in Button : balance'[c] = IF c \in lost' THEN 0 ELSE balance[c]
      /\ balance' \in [Button -> Int]
      /\ ~Daemon!Taps => n = 0
  BY <1>3, TapEmits, BalancesKept
<1>5. moved' = FALSE
  <2>1. CASE n > 0 /\ moved
    <3>1. Unread("touch")
      BY <1>1, EventIsTaken, DaemonEvent
    <3>2. tap_emitted
      BY <2>1, <3>1, SameFrames DEF Daemon!TrackerInv, Daemon!TrackerFollowsPad
    <3>3. ~Daemon!Taps
      BY <3>2 DEF Daemon!Taps, Daemon!Muted
    <3> QED
      BY <1>4, <2>1, <3>3
  <2>2. CASE ~(n > 0 /\ moved)
    BY <1>3, <2>2 DEF Daemon!TrackerInv, Daemon!TypeOK
  <2> QED
    BY <2>1, <2>2
<1>6. active_click_button' = active_click_button
  BY DEF Daemon!TouchUp
<1>7. Daemon!ButtonsBalanced'
  <2>1. Daemon!Handled' = Daemon!Handled
    BY <1>1, ButtonsTaken, DaemonEvent, SameFrames, SameSteps DEF Button
  <2>2. \A c \in Button : lost \subseteq lost'
    BY <1>4
  <2> QED
    BY <1>4, <1>6, <2>1, <2>2, SameButtons DEF Daemon!TrackerInv, Daemon!ButtonsBalanced
<1>8. Daemon!TypeOK'
  <2>1. "left" \in Button
    BY DEF Button
  <2>2. lost' \subseteq Button /\ active_click_button' \in Button \cup {None}
    BY <1>4, <1>6, <2>1, SameButtons DEF Daemon!TrackerInv, Daemon!TypeOK
  <2>3. /\ touch_fingers' \in 0..3 /\ known' \subseteq {"x", "y"}
        /\ touch_start' \in {None} \cup 0..TapTimeout
    <3>1. /\ touch_fingers \in 0..3 /\ known \subseteq {"x", "y"}
          /\ touch_start \in {None} \cup 0..TapTimeout
      BY DEF Daemon!TrackerInv, Daemon!TypeOK
    <3>2. CASE n > 0
      <4>1. UNCHANGED <<known, touch_start, touch_fingers>>
        BY <1>3, <3>2
      <4> QED
        BY <3>1, <4>1
    <3>3. CASE ~(n > 0)
      <4>1. known' = {} /\ touch_start' = None /\ touch_fingers' = 0
        BY <1>3, <3>3
      <4> QED
        BY <4>1
    <3> QED
      BY <3>2, <3>3
  <2>4. failed' \in BOOLEAN /\ travelled' \in BOOLEAN /\ typed_on' \subseteq Keyboards
        /\ touch_active' \in BOOLEAN /\ moved' \in BOOLEAN /\ tap_emitted' \in BOOLEAN
    BY <1>3, <1>5, DaemonMuted DEF Daemon!TouchUp, Daemon!TrackerInv, Daemon!TypeOK
  <2> QED
    BY <1>1, <1>4, <1>7, <2>2, <2>3, <2>4, DaemonTypesKept
<1>9. Daemon!TrackerFollowsPad'
  <2>1. contacts' = contacts /\ touch_active' = FALSE
    BY <1>1, DaemonEvent DEF Daemon!TouchUp
  <2>2. ~failed' => touch_start' = None
    BY <1>3
  <2> QED
    BY <1>2, <1>5, <2>1, <2>2 DEF Daemon!TrackerFollowsPad
<1>10. Daemon!TapIsRuledOut'
  BY DEF Daemon!TapIsRuledOut, Daemon!TouchUp
<1> QED
  BY <1>1, <1>7, <1>8, <1>9, <1>10, DaemonEvent DEF Daemon!TrackerInv

\* Events that only tell of tool bits and slots, or of nothing the daemon follows.
LEMMA DaemonToolTapKeepsInv ==
  ASSUME Daemon!TrackerInv, Daemon!ToolTap \/ Daemon!Ignored
  PROVE  Daemon!TrackerInv'
<1>1. PICK code, V : /\ Daemon!Consumes(code, V)
                     /\ code \in {"mt", "doubletap", "tripletap", "quadtap"}
                     /\ touch_fingers' \in 0..3
  <2>1. touch_fingers \in 0..3
    BY DEF Daemon!TrackerInv, Daemon!TypeOK
  <2>2. CASE Daemon!ToolTap
    <3>1. PICK n \in 2..3 :
            /\ Daemon!Consumes(<<"doubletap", "tripletap">>[n - 1], {0, 1})
            /\ touch_fingers' = Daemon!ToolFingers(n, Head(frame).value)
      BY <2>2 DEF Daemon!ToolTap
    <3>2. n = 2 \/ n = 3
      OBVIOUS
    <3>3. touch_fingers' \in 0..3
      BY <3>1, <3>2 DEF Daemon!ToolFingers
    <3>4. <<"doubletap", "tripletap">>[n - 1] \in {"doubletap", "tripletap"}
      BY <3>2
    <3> QED
      BY <3>1, <3>3, <3>4
  <2>3. CASE Daemon!Ignored
    BY <2>1, <2>3 DEF Daemon!Ignored
  <2> QED
    BY <2>2, <2>3
<1>2. /\ UNCHANGED <<touch_active, known, moved, touch_start, active_click_button, failed,
                     travelled, typed_on>>
      /\ tap_emitted' = Daemon!Muted /\ Daemon!EmitNothing
  BY DEF Daemon!ToolTap, Daemon!Ignored
<1>3. UNCHANGED <<lost, balance>>
  BY <1>2, BalancesKept, NothingEmitted
<1>4. tap_emitted' \in BOOLEAN /\ (tap_emitted => tap_emitted')
  BY <1>2, DaemonMuted
<1>5. code \notin Button /\ code \notin {"touch", "syn"}
  BY <1>1 DEF Button
<1>6. Daemon!ButtonsBalanced'
  BY <1>1, <1>2, <1>3, <1>5, DaemonBalanceKept
<1>7. Daemon!TypeOK'
  <2>1. /\ balance' \in [Button -> Int] /\ lost' \subseteq Button
        /\ active_click_button' \in Button \cup {None}
    BY <1>2, <1>3, SameButtons, BalancesKept DEF Balances, Daemon!TrackerInv, Daemon!TypeOK
  <2>2. /\ touch_active' \in BOOLEAN /\ known' \subseteq {"x", "y"} /\ moved' \in BOOLEAN
        /\ touch_start' \in {None} \cup 0..TapTimeout
        /\ {failed', travelled'} \subseteq BOOLEAN /\ typed_on' \subseteq Keyboards
    BY <1>2 DEF Daemon!TrackerInv, Daemon!TypeOK
  <2> QED
    BY <1>1, <1>4, <1>6, <2>1, <2>2, DaemonTypesKept
<1>8. Daemon!TrackerFollowsPad'
  BY <1>1, <1>2, <1>4, <1>5, DaemonTouchKept
<1>9. Daemon!TapIsRuledOut'
  <2>1. last_typing_time' = last_typing_time
    BY <1>1, DaemonEvent
  <2> QED
    BY <1>2, <1>4, <2>1, DaemonTapKept
<1> QED
  BY <1>1, <1>6, <1>7, <1>8, <1>9, DaemonEvent DEF Daemon!TrackerInv

LEMMA DaemonAbsAxisKeepsInv ==
  ASSUME Daemon!TrackerInv, Daemon!AbsAxis
  PROVE  Daemon!TrackerInv'
<1>1. PICK axis \in {"x", "y"}, stalled \in BOOLEAN :
        /\ Daemon!Consumes(IF axis = "x" THEN "abs_x" ELSE "abs_y", {0})
        /\ IF axis \in (IF stalled THEN {} ELSE known) THEN moved' \in BOOLEAN
                                                       ELSE UNCHANGED moved
        /\ known' = (IF stalled THEN {} ELSE known) \cup {axis}
  BY DEF Daemon!AbsAxis
<1> DEFINE code == IF axis = "x" THEN "abs_x" ELSE "abs_y"
<1>2. Daemon!Consumes(code, {0}) /\ code \in Moving /\ code \notin Button /\ code # "syn"
  BY <1>1 DEF Button, Moving
<1> HIDE DEF code
<1>3. /\ UNCHANGED <<touch_active, touch_fingers, touch_start, active_click_button, failed,
                     travelled, typed_on>>
      /\ tap_emitted' = Daemon!Muted /\ Daemon!EmitNothing
  BY DEF Daemon!AbsAxis
<1>4. UNCHANGED <<lost, balance>>
  BY <1>3, BalancesKept, NothingEmitted
<1>5. tap_emitted' \in BOOLEAN /\ (tap_emitted => tap_emitted')
  BY <1>3, DaemonMuted
<1>6. Daemon!ButtonsBalanced'
  BY <1>2, <1>3, <1>4, DaemonBalanceKept
<1>7. moved' \in BOOLEAN /\ known' \subseteq {"x", "y"}
  <2>1. moved \in BOOLEAN /\ known \subseteq {"x", "y"}
    BY DEF Daemon!TrackerInv, Daemon!TypeOK
  <2>2. moved' \in BOOLEAN
    BY <1>1, <2>1
  <2>3. known' \subseteq {"x", "y"}
    BY <1>1, <2>1
  <2> QED
    BY <2>2, <2>3
<1>8. Daemon!TypeOK'
  <2>1. /\ balance' \in [Button -> Int] /\ lost' \subseteq Button
        /\ active_click_button' \in Button \cup {None}
    BY <1>3, <1>4, SameButtons, BalancesKept DEF Balances, Daemon!TrackerInv, Daemon!TypeOK
  <2>2. /\ touch_active' \in BOOLEAN /\ touch_fingers' \in 0..3
        /\ touch_start' \in {None} \cup 0..TapTimeout
        /\ {failed', travelled'} \subseteq BOOLEAN /\ typed_on' \subseteq Keyboards
    BY <1>3 DEF Daemon!TrackerInv, Daemon!TypeOK
  <2> QED
    BY <1>2, <1>5, <1>6, <1>7, <2>1, <2>2, DaemonTypesKept
<1>9. Daemon!TrackerFollowsPad'
  <2>1. /\ contacts > 0 /\ contacts' = contacts /\ ~Unread("touch") /\ frame' # <<>>
        /\ Unread("touch")' <=> Unread("touch")
    <3>1. "touch" \in DOMAIN Rank /\ "touch" # code
      BY <1>2, RankIs DEF Telling, Moving
    <3> QED
      BY <1>2, <3>1, DaemonEvent
  <2>2. touch_active
    BY <2>1, SameFrames DEF Daemon!TrackerInv, Daemon!TrackerFollowsPad
  <2>3. ~failed => (touch_start # None <=> touch_active)
    BY DEF Daemon!TrackerInv, Daemon!TrackerFollowsPad
  <2> QED
    BY <1>3, <2>1, <2>2, <2>3, SameSteps DEF Daemon!TrackerFollowsPad
<1>10. Daemon!TapIsRuledOut'
  <2>1. last_typing_time' = last_typing_time
    BY <1>2, DaemonEvent
  <2> QED
    BY <1>3, <1>5, <2>1, DaemonTapKept
<1> QED
  BY <1>2, <1>6, <1>8, <1>9, <1>10, DaemonEvent DEF Daemon!TrackerInv

\* The button that is meant is noted before it is written: it is balanced or lost.
LEMMA DaemonClickBalances ==
  ASSUME Daemon!TrackerInv, NEW b \in Button, Daemon!Consumes(b, {0, 1}), Daemon!PhysicalButton
  PROVE  /\ Daemon!ButtonsBalanced'
         /\ active_click_button' \in Button \cup {None}
         /\ balance' \in [Button -> Int] /\ lost' \subseteq Button
<1> DEFINE v == Head(frame).value
<1>1. /\ v = Bit(b \notin Handled)
      /\ Handled' = IF b \in Handled THEN Handled \ {b} ELSE Handled \cup {b}
  BY DaemonEvent, ButtonsTaken
<1>2. PICK n :
        \/ /\ b = "left" /\ v = 1
           /\ active_click_button' = Daemon!ClickButton
           /\ Daemon!Emit(<<Daemon!Key(Daemon!ClickButton, 1)>>, n)
        \/ /\ b = "left" /\ v = 0 /\ active_click_button # None
           /\ active_click_button' = None
           /\ Daemon!Emit(<<Daemon!Key(active_click_button, 0)>>, n)
        \/ /\ b # "left" \/ (v = 0 /\ active_click_button = None)
           /\ Daemon!Emit(<<Daemon!Key(b, v)>>, n)
           /\ UNCHANGED active_click_button
  <2>1. PICK c \in Button, n \in {0, 1} :
          /\ Daemon!Consumes(c, {0, 1})
          /\ \/ /\ c = "left" /\ v = 1
                /\ active_click_button' = Daemon!ClickButton
                /\ Daemon!Emit(<<Daemon!Key(Daemon!ClickButton, 1)>>, n)
             \/ /\ c = "left" /\ v = 0 /\ active_click_button # None
                /\ active_click_button' = None
                /\ Daemon!Emit(<<Daemon!Key(active_click_button, 0)>>, n)
             \/ /\ c # "left" \/ (v = 0 /\ active_click_button = None)
                /\ Daemon!Emit(<<Daemon!Key(c, v)>>, n)
                /\ UNCHANGED active_click_button
    BY SameButtons DEF Daemon!PhysicalButton, Daemon!ReleasedButton
  <2>2. c = b
    BY <2>1, DaemonEvent
  <2> QED
    BY <2>1, <2>2
<1> HIDE DEF v
<1>3. Balances
  BY BalancesKept
<1>4. /\ active_click_button # None <=> "left" \in Handled
      /\ active_click_button \in Button \cup {None} /\ None \notin Button
      /\ \A c \in Button : c \notin lost =>
           balance[c] = Bit(active_click_button = c) + Bit(c # "left" /\ c \in Handled)
  BY TouchpadAssumption, SameFrames, SameButtons
     DEF Daemon!TrackerInv, Daemon!TypeOK, Daemon!ButtonsBalanced
<1>5. /\ Daemon!ButtonsBalanced'
           <=> /\ active_click_button' # None <=> "left" \in Handled'
               /\ \A c \in Button :
                    balance'[c] = IF c \in lost' THEN 0
                                  ELSE Bit(active_click_button' = c)
                                         + Bit(c # "left" /\ c \in Handled')
  BY SameSteps, SameButtons DEF Daemon!ButtonsBalanced
<1>6. CASE b = "left" /\ v = 1
  <2> DEFINE k == Daemon!ClickButton
  <2>1. k \in Button
    BY DEF Daemon!ClickButton, Button
  <2>2. active_click_button' = k /\ Daemon!Emit(<<Daemon!Key(k, 1)>>, n)
    BY <1>2, <1>6
  <2> HIDE DEF k
  <2>3. /\ lost' \in {lost, lost \cup {k}}
        /\ \A c \in Button : balance'[c] = IF c \in lost' THEN 0
                                           ELSE balance[c] + (IF c # k THEN 0 ELSE 1)
        /\ balance' \in [Button -> Int]
    <3> DEFINE u == 1
    <3>1. u \in {0, 1} /\ Daemon!Emit(<<Daemon!Key(k, u)>>, n)
      BY <2>2
    <3>2. u = 1
      OBVIOUS
    <3> HIDE DEF u
    <3>3. /\ lost' \in {lost, lost \cup {k}}
          /\ \A c \in Button :
               balance'[c] = IF c \in lost' THEN 0
                             ELSE balance[c] + (IF c # k THEN 0 ELSE IF u = 1 THEN 1 ELSE -1)
          /\ balance' \in [Button -> Int]
      BY <1>3, <2>1, <3>1, KeyEmits
    <3> QED
      BY <3>2, <3>3
  <2>4. b \notin Handled /\ Handled' = Handled \cup {"left"} /\ active_click_button = None
    BY <1>1, <1>4, <1>6 DEF Bit
  <2>5. ASSUME NEW c \in Button, c \notin lost'
        PROVE  balance'[c] = Bit(active_click_button' = c) + Bit(c # "left" /\ c \in Handled')
    <3>1. c \notin lost
      BY <2>3, <2>5
    <3>2. balance[c] = Bit(c # "left" /\ c \in Handled)
      BY <1>4, <2>4, <3>1 DEF Bit
    <3>3. Bit(c # "left" /\ c \in Handled) = Bit(c # "left" /\ c \in Handled')
      BY <2>4 DEF Bit
    <3>4. balance'[c] = balance[c] + (IF c # k THEN 0 ELSE 1)
      BY <2>3, <2>5
    <3> QED
      BY <2>2, <3>2, <3>3, <3>4 DEF Bit
  <2>6. \A c \in Button : c \in lost' => balance'[c] = 0
    BY <2>3
  <2>7. active_click_button' # None /\ "left" \in Handled'
    BY <1>4, <2>1, <2>2, <2>4
  <2>8. lost' \subseteq Button
    BY <1>3, <2>1, <2>3 DEF Balances
  <2> QED
    BY <1>5, <2>1, <2>2, <2>3, <2>5, <2>6, <2>7, <2>8
<1>7. CASE b = "left" /\ v # 1
  <2>1. b \in Handled /\ v = 0 /\ Handled' = Handled \ {"left"}
    BY <1>1, <1>7 DEF Bit
  <2> DEFINE k == active_click_button
  <2>2. k \in Button
    BY <1>4, <1>7, <2>1
  <2>3. active_click_button' = None /\ Daemon!Emit(<<Daemon!Key(k, v)>>, n)
    BY <1>2, <1>4, <1>7, <2>1, <2>2
  <2>4. /\ lost' \in {lost, lost \cup {k}}
        /\ \A c \in Button :
             balance'[c] = IF c \in lost' THEN 0
                           ELSE balance[c] + (IF c # k THEN 0 ELSE IF v = 1 THEN 1 ELSE -1)
        /\ balance' \in [Button -> Int]
    <3>1. v \in {0, 1}
      BY <2>1
    <3> HIDE DEF k
    <3> QED
      BY <1>3, <2>2, <2>3, <3>1, KeyEmits
  <2>5. ASSUME NEW c \in Button, c \notin lost'
        PROVE  balance'[c] = Bit(active_click_button' = c) + Bit(c # "left" /\ c \in Handled')
    <3>1. c \notin lost
      BY <2>4, <2>5
    <3>2. balance[c] = Bit(k = c) + Bit(c # "left" /\ c \in Handled)
      BY <1>4, <3>1
    <3>3. Bit(c # "left" /\ c \in Handled) = Bit(c # "left" /\ c \in Handled')
      BY <2>1 DEF Bit
    <3>4. balance'[c] = balance[c] + (IF c # k THEN 0 ELSE -1)
      BY <2>1, <2>4, <2>5
    <3>5. active_click_button' # c
      BY <1>4, <2>3
    <3> HIDE DEF k
    <3> QED
      BY <3>2, <3>3, <3>4, <3>5 DEF Bit
  <2>6. \A c \in Button : c \in lost' => balance'[c] = 0
    BY <2>4
  <2>7. active_click_button' = None /\ "left" \notin Handled'
    BY <2>1, <2>3
  <2>8. lost' \subseteq Button
    BY <1>3, <2>2, <2>4 DEF Balances
  <2> QED
    BY <1>5, <2>4, <2>5, <2>6, <2>7, <2>8
<1>8. CASE b # "left"
  <2>1. active_click_button' = active_click_button /\ Daemon!Emit(<<Daemon!Key(b, v)>>, n)
    BY <1>2, <1>8
  <2>2. v \in {0, 1} /\ (v = 1 <=> b \notin Handled)
    BY <1>1 DEF Bit
  <2>3. /\ lost' \in {lost, lost \cup {b}}
        /\ \A c \in Button :
             balance'[c] = IF c \in lost' THEN 0
                           ELSE balance[c] + (IF c # b THEN 0 ELSE IF v = 1 THEN 1 ELSE -1)
        /\ balance' \in [Button -> Int]
    BY <1>3, <2>1, <2>2, KeyEmits
  <2>4. ASSUME NEW c \in Button, c \notin lost'
        PROVE  balance'[c] = Bit(active_click_button' = c) + Bit(c # "left" /\ c \in Handled')
    <3>1. c \notin lost
      BY <2>3, <2>4
    <3>2. balance[c] = Bit(active_click_button = c) + Bit(c # "left" /\ c \in Handled)
      BY <1>4, <3>1
    <3>3. balance'[c] = balance[c] + (IF c # b THEN 0 ELSE IF v = 1 THEN 1 ELSE -1)
      BY <2>3, <2>4
    <3>4. CASE c = b
      BY <1>1, <1>8, <2>1, <2>2, <3>2, <3>3, <3>4 DEF Bit
    <3>5. CASE c # b
      <4>1. c \in Handled' <=> c \in Handled
        BY <1>1, <3>5
      <4> QED
        BY <2>1, <3>2, <3>3, <3>5, <4>1 DEF Bit
    <3> QED
      BY <3>4, <3>5
  <2>5. \A c \in Button : c \in lost' => balance'[c] = 0
    BY <2>3
  <2>6. "left" \in Handled' <=> "left" \in Handled
    BY <1>1, <1>8
  <2>7. active_click_button' \in Button \cup {None} /\ lost' \subseteq Button
    BY <1>3, <1>4, <2>1, <2>3 DEF Balances
  <2> QED
    BY <1>4, <1>5, <2>1, <2>3, <2>4, <2>5, <2>6, <2>7
<1> QED
  BY <1>6, <1>7, <1>8

LEMMA DaemonPhysicalButtonKeepsInv ==
  ASSUME Daemon!TrackerInv, Daemon!PhysicalButton
  PROVE  Daemon!TrackerInv'
<1>1. PICK b \in Button : Daemon!Consumes(b, {0, 1})
  BY SameButtons DEF Daemon!PhysicalButton
<1>2. b \notin {"touch", "syn"}
  BY DEF Button
<1>3. /\ Daemon!ButtonsBalanced'
      /\ active_click_button' \in Button \cup {None}
      /\ balance' \in [Button -> Int] /\ lost' \subseteq Button
  BY <1>1, DaemonClickBalances
<1>4. /\ UNCHANGED <<touch_active, touch_fingers, known, moved, touch_start, travelled, typed_on>>
      /\ tap_emitted' = Daemon!Muted
  BY DEF Daemon!PhysicalButton
<1>5. tap_emitted' \in BOOLEAN /\ (tap_emitted => tap_emitted')
  BY <1>4, DaemonMuted
<1>6. failed' \in BOOLEAN /\ (failed => failed')
  <2>1. PICK n : failed' = (failed \/ n > 0)
    BY DEF Daemon!PhysicalButton
  <2> QED
    BY <2>1
<1>7. Daemon!TypeOK'
  <2>1. /\ touch_active \in BOOLEAN /\ touch_fingers \in 0..3 /\ known \subseteq {"x", "y"}
        /\ moved \in BOOLEAN /\ touch_start \in {None} \cup 0..TapTimeout
        /\ travelled \in BOOLEAN /\ typed_on \subseteq Keyboards
    BY DEF Daemon!TrackerInv, Daemon!TypeOK
  <2>2. /\ touch_active' \in BOOLEAN /\ touch_fingers' \in 0..3 /\ known' \subseteq {"x", "y"}
        /\ moved' \in BOOLEAN /\ touch_start' \in {None} \cup 0..TapTimeout
        /\ {failed', travelled'} \subseteq BOOLEAN /\ typed_on' \subseteq Keyboards
    BY <1>4, <1>6, <2>1
  <2> QED
    BY <1>1, <1>3, <1>5, <2>2, DaemonTypesKept
<1>8. Daemon!TrackerFollowsPad'
  BY <1>1, <1>2, <1>4, <1>5, <1>6, DaemonTouchKept
<1>9. Daemon!TapIsRuledOut'
  <2>1. last_typing_time' = last_typing_time
    BY <1>1, DaemonEvent
  <2> QED
    BY <1>4, <1>5, <2>1, DaemonTapKept
<1> QED
  BY <1>1, <1>3, <1>7, <1>8, <1>9, DaemonEvent DEF Daemon!TrackerInv

\* What a report writes is motion and reports.
Pulse == {"rel_x", "rel_y", "wheel"}
Quiet == [type : Pulse \cup {"syn"}, button : {None}, state : {0}]

LEMMA SynIsQuiet == <<Daemon!Syn>> \in Seq(Quiet) /\ <<>> \in Seq(Quiet)
  BY DEF Daemon!Syn, Daemon!Written, Quiet

LEMMA PulsesAreQuiet ==
  ASSUME NEW pulses \in Daemon!Pulses
  PROVE  [i \in 1..Len(pulses) |-> Daemon!Written(pulses[i])] \o <<Daemon!Syn>> \in Seq(Quiet)
<1>1. pulses \in Seq(Pulse)
  <2>1. pulses \in {<<>>, <<"rel_x">>, <<"rel_y">>, <<"rel_x", "rel_y">>, <<"wheel">>}
    <3>1. CASE touch_fingers <= 1
      BY <3>1 DEF Daemon!Pulses
    <3>2. CASE ~(touch_fingers <= 1) /\ touch_fingers = 2
      BY <3>2 DEF Daemon!Pulses
    <3>3. CASE ~(touch_fingers <= 1) /\ touch_fingers # 2
      BY <3>3 DEF Daemon!Pulses
    <3> QED
      BY <3>1, <3>2, <3>3
  <2>2. /\ <<>> \in Seq(Pulse) /\ <<"rel_x">> \in Seq(Pulse) /\ <<"rel_y">> \in Seq(Pulse)
        /\ <<"rel_x", "rel_y">> \in Seq(Pulse) /\ <<"wheel">> \in Seq(Pulse)
    BY DEF Pulse
  <2> QED
    BY <2>1, <2>2
<1>2. \A t \in Pulse : Daemon!Written(t) \in Quiet
  BY DEF Daemon!Written, Quiet
<1>3. Len(pulses) \in Nat /\ \A i \in 1..Len(pulses) : pulses[i] \in Pulse
  BY <1>1
<1>4. [i \in 1..Len(pulses) |-> Daemon!Written(pulses[i])] \in Seq(Quiet)
  BY <1>2, <1>3
<1> QED
  BY <1>4, SynIsQuiet

LEMMA QuietKeepsButtons ==
  ASSUME Daemon!TrackerInv, NEW s \in Seq(Quiet), NEW n, Daemon!Emit(s, n)
  PROVE  UNCHANGED <<lost, balance>>
<1>1. \A i \in 1..Len(s) : s[i].button = None
  <2>1. \A i \in 1..Len(s) : s[i] \in Quiet
    OBVIOUS
  <2> QED
    BY <2>1 DEF Quiet
<1> QED
  BY <1>1, BalancesKept, QuietEmits

\* A displacement that was not written is kept only if a write failed.
LEMMA SynReportSettles ==
  ASSUME Daemon!TrackerInv, Daemon!SynReport
  PROVE  /\ UNCHANGED <<lost, balance>>
         /\ failed' \in BOOLEAN /\ (failed => failed')
         /\ tap_emitted' \in BOOLEAN /\ (tap_emitted => tap_emitted')
         /\ travelled' \in BOOLEAN /\ (travelled' => tap_emitted')
         /\ moved' \in BOOLEAN /\ (moved' => moved /\ failed' /\ tap_emitted')
<1>1. /\ failed \in BOOLEAN /\ tap_emitted \in BOOLEAN /\ travelled \in BOOLEAN
      /\ moved \in BOOLEAN /\ (travelled => tap_emitted)
  BY DEF Daemon!TrackerInv, Daemon!TypeOK, Daemon!TapIsRuledOut
<1>2. CASE Daemon!SynTyped
  <2>1. moved' = FALSE /\ tap_emitted' = TRUE /\ travelled' = travelled
    BY <1>2 DEF Daemon!SynTyped
  <2>2. PICK n \in {0, 1} : /\ Daemon!Emit(IF moved THEN <<Daemon!Syn>> ELSE <<>>, n)
                            /\ failed' = (failed \/ n > 0)
    BY <1>2 DEF Daemon!SynTyped
  <2>3. (IF moved THEN <<Daemon!Syn>> ELSE <<>>) \in Seq(Quiet)
    BY SynIsQuiet
  <2>4. UNCHANGED <<lost, balance>>
    BY <2>2, <2>3, QuietKeepsButtons
  <2>5. failed' \in BOOLEAN /\ (failed => failed')
    BY <2>2
  <2> QED
    BY <1>1, <2>1, <2>4, <2>5
<1>3. CASE Daemon!SynMotion
  <2>1. PICK pulses \in Daemon!Pulses, n \in 0..3 :
          /\ Daemon!Emit([i \in 1..Len(pulses) |-> Daemon!Written(pulses[i])] \o <<Daemon!Syn>>, n)
          /\ moved' = Daemon!Kept(n)
          /\ travelled' = (travelled \/ \E i \in DOMAIN out' : out'[i] # Daemon!Syn)
          /\ failed' = (failed \/ n > 0)
    BY <1>3 DEF Daemon!SynMotion
  <2>2. UNCHANGED <<lost, balance>>
    BY <2>1, PulsesAreQuiet, QuietKeepsButtons
  <2>3. tap_emitted' = TRUE /\ moved = TRUE
    BY <1>1, <1>3 DEF Daemon!SynMotion, Daemon!Moves
  <2>4. failed' \in BOOLEAN /\ (failed => failed') /\ travelled' \in BOOLEAN
    BY <2>1
  <2>5. moved' \in BOOLEAN /\ (moved' => n > 1)
    <3>1. moved' = (n > 1)
      BY <2>1 DEF Daemon!Kept
    <3> DEFINE many == n > 1
    <3>2. many \in BOOLEAN
      OBVIOUS
    <3>3. moved' = many
      BY <3>1
    <3>4. moved' \in BOOLEAN
      <4> HIDE DEF many
      <4> QED
        BY <3>2, <3>3
    <3>5. moved' => many
      <4> HIDE DEF many
      <4> QED
        BY <3>3
    <3> QED
      BY <3>4, <3>5
  <2>6. n > 1 => n > 0
    OBVIOUS
  <2>7. moved' => failed'
    BY <2>1, <2>5, <2>6
  <2> QED
    BY <2>2, <2>3, <2>4, <2>5, <2>7
<1>4. CASE Daemon!SynStill
  <2>1. moved' = moved /\ travelled' = travelled /\ ~moved /\ tap_emitted' = Daemon!Muted
    BY <1>4 DEF Daemon!SynStill
  <2>2. PICK n \in {0, 1} : Daemon!Emit(<<Daemon!Syn>>, n) /\ failed' = (failed \/ n > 0)
    BY <1>4 DEF Daemon!SynStill
  <2>3. UNCHANGED <<lost, balance>>
    BY <2>2, SynIsQuiet, QuietKeepsButtons
  <2>4. failed' \in BOOLEAN /\ (failed => failed')
    BY <2>2
  <2> QED
    BY <1>1, <2>1, <2>3, <2>4, DaemonMuted
<1> QED
  BY <1>2, <1>3, <1>4 DEF Daemon!SynReport

LEMMA DaemonSynReportKeepsInv ==
  ASSUME Daemon!TrackerInv, Daemon!SynReport
  PROVE  Daemon!TrackerInv'
<1>1. /\ Daemon!Consumes("syn", {0})
      /\ UNCHANGED <<touch_active, touch_fingers, known, touch_start, active_click_button, typed_on>>
  BY DEF Daemon!SynReport
<1>2. /\ UNCHANGED <<lost, balance>>
      /\ failed' \in BOOLEAN /\ (failed => failed')
      /\ tap_emitted' \in BOOLEAN /\ (tap_emitted => tap_emitted')
      /\ travelled' \in BOOLEAN /\ (travelled' => tap_emitted')
      /\ moved' \in BOOLEAN /\ (moved' => moved /\ failed' /\ tap_emitted')
  BY SynReportSettles
<1>3. Daemon!ButtonsBalanced'
  BY <1>1, <1>2, DaemonBalanceKept DEF Button
<1>4. Daemon!TypeOK'
  <2>1. /\ balance' \in [Button -> Int] /\ lost' \subseteq Button
        /\ active_click_button' \in Button \cup {None}
    BY <1>1, <1>2, SameButtons, BalancesKept DEF Balances, Daemon!TrackerInv, Daemon!TypeOK
  <2>2. /\ touch_active' \in BOOLEAN /\ touch_fingers' \in 0..3 /\ known' \subseteq {"x", "y"}
        /\ touch_start' \in {None} \cup 0..TapTimeout /\ typed_on' \subseteq Keyboards
    BY <1>1 DEF Daemon!TrackerInv, Daemon!TypeOK
  <2> QED
    BY <1>1, <1>2, <1>3, <2>1, <2>2, DaemonTypesKept
<1>5. Daemon!TrackerFollowsPad'
  <2>1. contacts' = contacts /\ (Daemon!Unread("touch")' <=> Daemon!Unread("touch"))
    BY <1>1, DaemonEvent, SameFrames, SameSteps
  <2> QED
    BY <1>1, <1>2, <2>1 DEF Daemon!TrackerInv, Daemon!TrackerFollowsPad
<1>6. Daemon!TapIsRuledOut'
  <2>1. last_typing_time' = last_typing_time
    BY <1>1, DaemonEvent
  <2> QED
    BY <1>1, <1>2, <2>1 DEF Daemon!TrackerInv, Daemon!TapIsRuledOut
<1> QED
  BY <1>1, <1>3, <1>4, <1>5, <1>6, DaemonEvent DEF Daemon!TrackerInv

LEMMA DaemonInvPreserved ==
  Daemon!TrackerInv /\ [Daemon!Next]_(Daemon!vars) => Daemon!TrackerInv'
<1>1. CASE Daemon!TrackerInv /\ Daemon!Next
  BY <1>1, DaemonWorldKeepsInv, DaemonFrameKeepsInv, DaemonTouchDownKeepsInv,
     DaemonTouchUpKeepsInv, DaemonToolTapKeepsInv, DaemonPhysicalButtonKeepsInv,
     DaemonAbsAxisKeepsInv, DaemonSynReportKeepsInv
  DEF Daemon!Next, Daemon!Process, DaemonWorld
<1>2. CASE Daemon!TrackerInv /\ UNCHANGED Daemon!vars
  BY <1>2, DaemonWorldKeepsInv
<1> QED
  BY <1>1, <1>2
-----------------------------------------------------------------------------
(* The daemon's count of fingers *)

LEMMA SameTools ==
  /\ Daemon!Rank = Rank
  /\ \A n, v : Daemon!ToolFingers(n, v) = ToolFingers(n, v)
  /\ Daemon!Followed \subseteq Telling
  /\ \A code \in Telling : code \in Daemon!Followed <=> Rank[code] \in 1..3
<1>1. Daemon!Rank = Rank /\ \A n, v : Daemon!ToolFingers(n, v) = ToolFingers(n, v)
  BY DEF Daemon!Rank, Rank, Daemon!ToolFingers, ToolFingers
<1>2. Daemon!Followed = Telling \ {"quadtap"}
  BY DEF Daemon!Followed, Telling
<1>3. \A code \in Telling : code # "quadtap" <=> Rank[code] \in 1..3
  BY RankIs DEF Telling
<1> QED
  BY <1>1, <1>2, <1>3

\* Without the fourth bit, the last of the others still tells of up to three fingers.
LEMMA LastOfThreeTells ==
  ASSUME NEW n \in Nat, NEW m \in 0..3, m >= n - 1, NEW k \in 1..3,
         Shows(k, n) <=> ~Shows(k, m),
         \A l \in 1..3 : l > k => (Shows(l, n) <=> Shows(l, m))
  PROVE  ToolFingers(k, Bit(Shows(k, m))) = m
<1>1. CASE m = n - 1 /\ n = 4
  <2>1. Shows(3, m) /\ ~Shows(3, n)
    BY <1>1 DEF Shows
  <2>2. k = 3
    BY <2>1
  <2> QED
    BY <1>1, <2>1, <2>2 DEF ToolFingers, Bit
<1>2. CASE ~(m = n - 1 /\ n = 4)
  <2>1. \A l \in 1..4 : l > k => (Shows(l, n) <=> Shows(l, m))
    <3>1. ~Shows(4, n) /\ ~Shows(4, m)
      BY <1>2 DEF Shows
    <3>2. \A l \in 1..4 : l \in 1..3 \/ l = 4
      OBVIOUS
    <3> QED
      BY <3>1, <3>2
  <2>2. m \in 0..4 /\ k \in 1..4
    OBVIOUS
  <2> QED
    BY <2>1, <2>2, LastTells
<1> QED
  BY <1>1, <1>2

LEMMA NoneOfThreeTells ==
  ASSUME NEW n \in Nat, NEW m \in 0..3, m >= n - 1,
         \A l \in 1..3 : Shows(l, n) <=> Shows(l, m)
  PROVE  n = m
<1>1. n > 0 <=> m > 0
  BY DEF Shows
<1>2. (n = 2 <=> m = 2) /\ (n = 3 <=> m = 3)
  BY DEF Shows
<1> QED
  BY <1>1, <1>2

LEMMA DaemonFrameTells ==
  ASSUME Daemon!TrackerInv, Daemon!FingersTold, Daemon!PadFrame
  PROVE  Daemon!FingersTold'
<1>1. /\ contacts' \in 0..MaxFingers
      /\ Staged(frame', 0, 4, contacts, contacts')
      /\ \A code \in Telling :
           (Shows(Rank[code], contacts) <=> ~Shows(Rank[code], contacts'))
             => Has(frame', code)
      /\ skipped' = (contacts' < contacts - 1
                       \/ (skipped /\ (contacts > 0 \/ contacts' = 0)))
  BY SameSteps, FrameIsStaged DEF Daemon!TrackerInv, Daemon!TypeOK, Daemon!PadFrame
<1>2. touch_fingers' = touch_fingers /\ failed' = failed /\ frame = <<>> /\ contacts \in Nat
  BY DEF Daemon!PadFrame, Daemon!wrapperVars, Daemon!historyVars, Daemon!Frame,
         Daemon!SendFrame, Daemon!TrackerInv, Daemon!TypeOK
<1>3. ASSUME ~skipped', contacts' <= 3
      PROVE  contacts' >= contacts - 1 /\ contacts' \in 0..3
  <2>1. ~(contacts' < contacts - 1)
    BY <1>1, <1>3
  <2> QED
    BY <1>1, <1>2, <1>3, <2>1, PadAssumption
<1>4. \A l \in 1..3 : \E code \in Daemon!Followed : code \in Telling /\ Rank[code] = l
  <2>1. \A l \in 1..3 : l = 1 \/ l = 2 \/ l = 3
    OBVIOUS
  <2>2. /\ {"touch", "doubletap", "tripletap"} \subseteq Telling
        /\ {"touch", "doubletap", "tripletap"} = Daemon!Followed
    BY DEF Telling, Daemon!Followed
  <2> QED
    BY <2>1, <2>2, RankIs
<1>5. ASSUME ~skipped', contacts' <= 3, failed' => contacts' > 0,
             \A i \in DOMAIN frame' : frame'[i].code \notin Daemon!Followed
      PROVE  touch_fingers' = contacts'
  <2>1. \A code \in Daemon!Followed : ~Has(frame', code)
    BY <1>5 DEF Has
  <2>2. \A l \in 1..3 : Shows(l, contacts) <=> Shows(l, contacts')
    BY <1>1, <1>4, <2>1
  <2>3. contacts = contacts'
    BY <1>2, <1>3, <1>5, <2>2, NoneOfThreeTells
  <2>4. ~skipped
    <3>1. contacts > 0 \/ contacts' = 0
      BY <1>2, <2>3
    <3> QED
      BY <1>1, <1>5, <3>1
  <2>5. \A i \in DOMAIN frame : frame[i].code \notin Daemon!Followed
    BY <1>2
  <2>6. contacts <= 3 /\ (failed => contacts > 0)
    BY <1>2, <1>5, <2>3
  <2> QED
    BY <1>2, <2>3, <2>4, <2>5, <2>6 DEF Daemon!FingersTold
<1>6. ASSUME ~skipped', contacts' <= 3, NEW i \in DOMAIN frame', frame'[i].code \in Daemon!Followed,
             \A j \in DOMAIN frame' : frame'[j].code \in Daemon!Followed => j <= i
      PROVE  ToolFingers(Rank[frame'[i].code], frame'[i].value) = contacts'
  <2> DEFINE k == Rank[frame'[i].code]
  <2>1. /\ frame'[i].value = Bit(Shows(k, contacts'))
        /\ Shows(k, contacts) <=> ~Shows(k, contacts')
        /\ k \in 1..3
    <3>1. frame'[i].code \in Telling
      BY <1>6, SameTools
    <3> QED
      BY <1>1, <1>6, <3>1, SameTools DEF Staged
  <2>2. ASSUME NEW l \in 1..3, l > k PROVE Shows(l, contacts) <=> Shows(l, contacts')
    <3>1. PICK code \in Daemon!Followed : code \in Telling /\ Rank[code] = l
      BY <1>4
    <3>2. ASSUME Has(frame', code) PROVE FALSE
      <4>1. PICK j \in DOMAIN frame' : frame'[j].code = code
        BY <3>2 DEF Has
      <4>2. j <= i /\ j # i
        BY <1>6, <2>1, <2>2, <3>1, <4>1
      <4>3. j < i
        <5>1. i \in Nat /\ j \in Nat
          BY <1>1 DEF Staged
        <5> QED
          BY <4>2, <5>1
      <4>4. Rank[frame'[j].code] < Rank[frame'[i].code]
        <5>1. frame'[i].code \in DOMAIN Rank /\ frame'[j].code \in DOMAIN Rank
          BY <1>6, <3>1, <4>1, SameTools, TellingRank
        <5> QED
          BY <1>1, <4>3, <5>1 DEF Staged
      <4> QED
        BY <2>1, <2>2, <3>1, <4>1, <4>4
    <3>3. ~(Shows(l, contacts) <=> ~Shows(l, contacts'))
      BY <1>1, <3>1, <3>2
    <3> QED
      BY <3>3
  <2> HIDE DEF k
  <2>3. ToolFingers(k, Bit(Shows(k, contacts'))) = contacts'
    BY <1>2, <1>3, <1>6, <2>1, <2>2, LastOfThreeTells
  <2> QED
    BY <2>1, <2>3 DEF k
<1> QED
  BY <1>5, <1>6, SameTools DEF Daemon!FingersTold

LEMMA DaemonEventTells ==
  ASSUME Daemon!TrackerInv, Daemon!FingersTold, NEW code, NEW V, Daemon!Consumes(code, V),
         failed => failed' \/ contacts > 0,
         code \notin Daemon!Followed => touch_fingers' = touch_fingers,
         (code \in Daemon!Followed /\ ToolFingers(Rank[code], Head(frame).value) = contacts)
           => touch_fingers' = contacts
  PROVE  Daemon!FingersTold'
<1>1. /\ FrameOK /\ InOrder /\ frame # <<>> /\ frame' = Tail(frame) /\ Head(frame).code = code
      /\ UNCHANGED <<contacts, skipped>>
  BY DaemonEvent
<1>2. /\ 1 \in DOMAIN frame /\ frame[1] = Head(frame)
      /\ DOMAIN frame \subseteq Nat \ {0}
      /\ DOMAIN frame' \subseteq Nat
      /\ \A i \in DOMAIN frame' : i + 1 \in DOMAIN frame /\ frame'[i] = frame[i + 1]
      /\ \A i \in DOMAIN frame : i # 1 => i - 1 \in DOMAIN frame' /\ frame'[i - 1] = frame[i]
  BY <1>1, RestOfFrame
<1> DEFINE premise == ~skipped /\ contacts <= 3 /\ (failed => contacts > 0)
<1>3. premise' => premise
  BY <1>1
<1>4. premise =>
        /\ (\A i \in DOMAIN frame : frame[i].code \notin Daemon!Followed)
             => touch_fingers = contacts
        /\ \A i \in DOMAIN frame :
             (/\ frame[i].code \in Daemon!Followed
              /\ \A j \in DOMAIN frame : frame[j].code \in Daemon!Followed => j <= i)
               => ToolFingers(Rank[frame[i].code], frame[i].value) = contacts
  BY SameTools DEF Daemon!FingersTold
<1>5. (premise' =>
         /\ (\A i \in DOMAIN frame' : frame'[i].code \notin Daemon!Followed)
              => touch_fingers' = contacts'
         /\ \A i \in DOMAIN frame' :
              (/\ frame'[i].code \in Daemon!Followed
               /\ \A j \in DOMAIN frame' : frame'[j].code \in Daemon!Followed => j <= i)
                => ToolFingers(Rank[frame'[i].code], frame'[i].value) = contacts')
      => Daemon!FingersTold'
  BY SameTools DEF Daemon!FingersTold
<1> HIDE DEF premise
<1>6. ASSUME premise', \A i \in DOMAIN frame' : frame'[i].code \notin Daemon!Followed
      PROVE  touch_fingers' = contacts'
  <2>1. \A j \in DOMAIN frame : j # 1 => frame[j].code \notin Daemon!Followed
    BY <1>2, <1>6
  <2>2. CASE code \notin Daemon!Followed
    <3>1. \A j \in DOMAIN frame : frame[j].code \notin Daemon!Followed
      BY <1>1, <1>2, <2>1, <2>2
    <3> QED
      BY <1>1, <1>3, <1>4, <1>6, <2>2, <3>1
  <2>3. CASE code \in Daemon!Followed
    <3>1. \A j \in DOMAIN frame : frame[j].code \in Daemon!Followed => j <= 1
      BY <1>2, <2>1
    <3>2. ToolFingers(Rank[code], Head(frame).value) = contacts
      BY <1>1, <1>2, <1>3, <1>4, <1>6, <2>3, <3>1
    <3> QED
      BY <1>1, <2>3, <3>2
  <2> QED
    BY <2>2, <2>3
<1>7. ASSUME premise', NEW i \in DOMAIN frame', frame'[i].code \in Daemon!Followed,
             \A j \in DOMAIN frame' : frame'[j].code \in Daemon!Followed => j <= i
      PROVE  ToolFingers(Rank[frame'[i].code], frame'[i].value) = contacts'
  <2>1. /\ i + 1 \in DOMAIN frame /\ frame[i + 1].code \in Daemon!Followed
        /\ frame'[i] = frame[i + 1]
    BY <1>2, <1>7
  <2>2. ASSUME NEW j \in DOMAIN frame, frame[j].code \in Daemon!Followed PROVE j <= i + 1
    <3>1. CASE j = 1
      BY <1>2, <3>1
    <3>2. CASE j # 1
      <4>1. j - 1 \in DOMAIN frame' /\ frame'[j - 1].code \in Daemon!Followed
        BY <1>2, <2>2, <3>2
      <4>2. j - 1 <= i
        BY <1>7, <4>1
      <4> QED
        BY <1>2, <4>2
    <3> QED
      BY <3>1, <3>2
  <2>3. premise
    BY <1>3, <1>7
  <2> QED
    BY <1>1, <1>4, <2>1, <2>2, <2>3
<1> QED
  BY <1>5, <1>6, <1>7

LEMMA DaemonTouchTells ==
  ASSUME Daemon!TrackerInv, Daemon!FingersTold, Daemon!TouchDown \/ Daemon!TouchUp
  PROVE  Daemon!FingersTold'
<1>1. "touch" \in Daemon!Followed /\ Rank["touch"] = 1
  BY RankIs DEF Daemon!Followed
<1>2. CASE Daemon!TouchDown
  <2>1. Daemon!Consumes("touch", {1}) /\ touch_fingers' = 1
    BY <1>2 DEF Daemon!TouchDown
  <2>2. Head(frame).value = 1 /\ Head(frame).value = Bit(contacts > 0)
    BY <2>1, DaemonEvent DEF Says
  <2>3. contacts > 0
    BY <2>2 DEF Bit
  <2>4. ToolFingers(Rank["touch"], Head(frame).value) = touch_fingers'
    BY <1>1, <2>1, <2>2 DEF ToolFingers
  <2> QED
    BY <1>1, <2>1, <2>3, <2>4, DaemonEventTells
<1>3. CASE Daemon!TouchUp
  <2>1. Daemon!Consumes("touch", {0})
    BY <1>3 DEF Daemon!TouchUp
  <2>2. Head(frame).value = 0 /\ Head(frame).value = Bit(contacts > 0) /\ contacts' = contacts
    BY <2>1, DaemonEvent DEF Says
  <2>3. \/ failed' = TRUE
        \/ touch_fingers' = 0 /\ failed' = failed
    BY <1>3 DEF Daemon!TouchUp
  <2>4. CASE failed' = TRUE
    <3>1. ~(contacts' > 0)
      BY <2>2 DEF Bit
    <3> QED
      BY <2>4, <3>1 DEF Daemon!FingersTold
  <2>5. CASE touch_fingers' = 0 /\ failed' = failed
    <3>1. ToolFingers(Rank["touch"], Head(frame).value) = touch_fingers'
      BY <1>1, <2>2, <2>5 DEF ToolFingers
    <3> QED
      BY <1>1, <2>1, <2>5, <3>1, DaemonEventTells
  <2> QED
    BY <2>3, <2>4, <2>5
<1> QED
  BY <1>2, <1>3

LEMMA DaemonToolTapTells ==
  ASSUME Daemon!TrackerInv, Daemon!FingersTold, Daemon!ToolTap
  PROVE  Daemon!FingersTold'
<1>1. PICK n \in 2..3 : /\ Daemon!Consumes(<<"doubletap", "tripletap">>[n - 1], {0, 1})
                        /\ touch_fingers' = ToolFingers(n, Head(frame).value)
  BY SameTools DEF Daemon!ToolTap
<1>2. failed' = failed
  BY DEF Daemon!ToolTap
<1> DEFINE code == <<"doubletap", "tripletap">>[n - 1]
<1>3. code \in Daemon!Followed /\ Rank[code] = n
  <2>1. n = 2 \/ n = 3
    OBVIOUS
  <2> QED
    BY <2>1, RankIs DEF Daemon!Followed
<1>4. Daemon!Consumes(code, {0, 1})
  BY <1>1
<1> HIDE DEF code
<1> QED
  BY <1>1, <1>2, <1>3, <1>4, DaemonEventTells

LEMMA DaemonOtherTells ==
  ASSUME Daemon!TrackerInv, Daemon!FingersTold,
         Daemon!Ignored \/ Daemon!PhysicalButton \/ Daemon!AbsAxis \/ Daemon!SynReport
  PROVE  Daemon!FingersTold'
<1>1. touch_fingers' = touch_fingers
  BY DEF Daemon!Ignored, Daemon!PhysicalButton, Daemon!AbsAxis, Daemon!SynReport
<1>2. failed => failed'
  <2>1. CASE Daemon!Ignored
    BY <2>1 DEF Daemon!Ignored
  <2>2. CASE Daemon!PhysicalButton
    <3>1. PICK n : failed' = (failed \/ n > 0)
      BY <2>2 DEF Daemon!PhysicalButton
    <3> QED
      BY <3>1
  <2>3. CASE Daemon!AbsAxis
    BY <2>3 DEF Daemon!AbsAxis
  <2>4. CASE Daemon!SynReport
    BY <2>4, SynReportSettles
  <2> QED
    BY <2>1, <2>2, <2>3, <2>4
<1>3. PICK code, V : Daemon!Consumes(code, V) /\ code \notin Daemon!Followed
  <2>1. CASE Daemon!Ignored
    BY <2>1 DEF Daemon!Ignored, Daemon!Followed
  <2>2. CASE Daemon!PhysicalButton
    BY <2>2 DEF Daemon!PhysicalButton, Daemon!Followed, Daemon!Button
  <2>3. CASE Daemon!AbsAxis
    BY <2>3 DEF Daemon!AbsAxis, Daemon!Followed
  <2>4. CASE Daemon!SynReport
    BY <2>4 DEF Daemon!SynReport, Daemon!Followed
  <2> QED
    BY <2>1, <2>2, <2>3, <2>4
<1> QED
  BY <1>1, <1>2, <1>3, DaemonEventTells

LEMMA DaemonFingersPreserved ==
  Daemon!TouchpadInv /\ [Daemon!Next]_(Daemon!vars) => Daemon!FingersTold'
<1> SUFFICES ASSUME Daemon!TrackerInv, Daemon!FingersTold, [Daemon!Next]_(Daemon!vars)
             PROVE  Daemon!FingersTold'
  BY DEF Daemon!TouchpadInv
<1>1. CASE UNCHANGED Daemon!vars \/ DaemonWorld
  <2>1. UNCHANGED <<frame, contacts, skipped, touch_fingers, failed>>
    BY <1>1, DaemonTicks, DaemonKeyboards DEF Daemon!vars, DaemonWorld
  <2> QED
    BY <2>1 DEF Daemon!FingersTold
<1>2. CASE Daemon!PadFrame
  BY <1>2, DaemonFrameTells
<1>3. CASE Daemon!Process
  BY <1>3, DaemonTouchTells, DaemonToolTapTells, DaemonOtherTells DEF Daemon!Process
<1> QED
  BY <1>1, <1>2, <1>3 DEF Daemon!Next, DaemonWorld
-----------------------------------------------------------------------------
(* The theorems of the daemon *)

\* DeviceWrapper tracks the pad as process_absolute_event does, though any write
\* to uinput may fail and end the handling of an event at once: what a lost write
\* leaves behind is undone by the next touch, the buttons whose writes all
\* succeeded are balanced, and the count of up to three fingers is right.
THEOREM DaemonPadInvariant == Daemon!Spec => []Daemon!TouchpadInv
<1>1. Daemon!TouchpadInv /\ [Daemon!Next]_(Daemon!vars) => Daemon!TouchpadInv'
  BY DaemonInvPreserved, DaemonFingersPreserved DEF Daemon!TouchpadInv
<1> QED
  BY DaemonStarts, <1>1, PTL DEF Daemon!Spec

\* What is written when an event that is not written is handled.
LEMMA DaemonIsSilent ==
  ASSUME Daemon!TrackerInv,
         \/ Daemon!PadFrame \/ DaemonWorld \/ Daemon!TouchDown
         \/ Daemon!ToolTap \/ Daemon!Ignored \/ Daemon!AbsAxis
         \/ (Daemon!TouchUp /\ ~Daemon!Taps)
  PROVE  out' = <<>>
<1>1. CASE Daemon!PadFrame \/ DaemonWorld
  BY <1>1, DaemonKeyboards DEF Daemon!PadFrame, Daemon!Tick, DaemonWorld
<1>2. CASE Daemon!TouchDown \/ Daemon!ToolTap \/ Daemon!Ignored \/ Daemon!AbsAxis
  <2>1. Daemon!EmitNothing
    BY <1>2 DEF Daemon!TouchDown, Daemon!ToolTap, Daemon!Ignored, Daemon!AbsAxis
  <2> QED
    BY <2>1, BalancesKept, NothingEmitted
<1>3. CASE Daemon!TouchUp /\ ~Daemon!Taps
  <2>1. PICK n : Daemon!Emit(Daemon!TapEvents, n)
    BY <1>3 DEF Daemon!TouchUp
  <2> QED
    BY <1>3, <2>1, BalancesKept, TapEmits
<1> QED
  BY <1>1, <1>2, <1>3

\* Only the end of a touch taps.
LEMMA DaemonTapsEndTouches ==
  ASSUME Daemon!TrackerInv, Daemon!Next, Daemon!Tapped
  PROVE  Daemon!TouchUp /\ Daemon!Taps
<1>1. out' # <<>> /\ Head(frame).code = "touch"
  BY DEF Daemon!Tapped
<1>2. ~(Daemon!PhysicalButton \/ Daemon!SynReport)
  <2>1. ASSUME NEW code, NEW V, Daemon!Consumes(code, V) PROVE code = "touch"
    BY <1>1, <2>1, DaemonEvent
  <2>2. ~Daemon!PhysicalButton
    BY <2>1 DEF Daemon!PhysicalButton, Daemon!Button
  <2>3. ~Daemon!SynReport
    BY <2>1 DEF Daemon!SynReport
  <2> QED
    BY <2>2, <2>3
<1> QED
  BY <1>1, <1>2, DaemonIsSilent DEF Daemon!Next, Daemon!Process, DaemonWorld

\* A physical click is written as one key, a press by the fingers as ClickButton.
LEMMA DaemonClickWrites ==
  ASSUME Daemon!TrackerInv, Daemon!PhysicalButton
  PROVE  \E k \in Button, v \in {0, 1} :
           /\ \A i \in 1..Len(out') : out'[i] = Daemon!Key(k, v)
           /\ Head(frame) = Event("left", 1) => k = Daemon!ClickButton
<1> DEFINE h == Head(frame).value
<1>1. PICK b \in Button, n \in {0, 1} :
        /\ Daemon!Consumes(b, {0, 1})
        /\ \/ /\ b = "left" /\ h = 1
              /\ Daemon!Emit(<<Daemon!Key(Daemon!ClickButton, 1)>>, n)
           \/ /\ b = "left" /\ h = 0 /\ active_click_button # None
              /\ Daemon!Emit(<<Daemon!Key(active_click_button, 0)>>, n)
           \/ /\ b # "left" \/ (h = 0 /\ active_click_button = None)
              /\ Daemon!Emit(<<Daemon!Key(b, h)>>, n)
  BY SameButtons DEF Daemon!PhysicalButton, Daemon!ReleasedButton
<1>2. h \in {0, 1} /\ Head(frame).code = b
  BY <1>1, DaemonEvent
<1>3. Head(frame) = Event("left", 1) => b = "left" /\ h = 1
  BY <1>2 DEF Event
<1>4. Daemon!ClickButton \in Button
  BY DEF Daemon!ClickButton, Button
<1>5. active_click_button \in Button \cup {None}
  BY SameButtons DEF Daemon!TrackerInv, Daemon!TypeOK
<1> HIDE DEF h
<1>6. ASSUME NEW k \in Button, NEW v \in {0, 1}, Daemon!Emit(<<Daemon!Key(k, v)>>, n)
      PROVE  \A i \in 1..Len(out') : out'[i] = Daemon!Key(k, v)
  <2>1. DOMAIN out' = 1..Len(out') /\ \A i \in DOMAIN out' : out'[i] = Daemon!Key(k, v)
    BY <1>6, BalancesKept, KeyEmits
  <2> QED
    BY <2>1
<1>7. PICK k \in Button, v \in {0, 1} :
        /\ Daemon!Emit(<<Daemon!Key(k, v)>>, n)
        /\ b = "left" /\ h = 1 => k = Daemon!ClickButton
  <2>1. CASE b = "left" /\ h = 1
    <3>1. Daemon!Emit(<<Daemon!Key(Daemon!ClickButton, 1)>>, n)
      BY <1>1, <2>1
    <3> QED
      BY <1>4, <3>1
  <2>2. CASE b = "left" /\ h = 0 /\ active_click_button # None
    <3>1. Daemon!Emit(<<Daemon!Key(active_click_button, 0)>>, n)
      BY <1>1, <2>2
    <3> QED
      BY <1>5, <2>2, <3>1
  <2>3. CASE b # "left" \/ (h = 0 /\ active_click_button = None)
    <3>1. Daemon!Emit(<<Daemon!Key(b, h)>>, n) /\ ~(b = "left" /\ h = 1)
      BY <1>1, <2>3
    <3> QED
      BY <1>2, <3>1
  <2> QED
    BY <1>1, <2>1, <2>2, <2>3
<1> QED
  BY <1>3, <1>6, <1>7

\* device.rs:134: whatever writes failed, a touch that travelled never ends in a
\* tap; with DWT on, neither does one during which a key was typed on a keyboard
\* whose time is still the one event_loop.rs:132 shares.
THEOREM DaemonTapsAreStill == Daemon!Spec => Daemon!NoTapAfterTravelOrTyping
<1>1. Daemon!TouchpadInv /\ [Daemon!Next]_(Daemon!vars)
      => [Daemon!Tapped => /\ ~travelled
                           /\ disable_while_typing =>
                                \A k \in typed_on : typing # last_typing_time[k]]_(Daemon!vars)
  <2> SUFFICES ASSUME Daemon!TouchpadInv, Daemon!Next, Daemon!Tapped
               PROVE  /\ ~travelled
                      /\ disable_while_typing =>
                           \A k \in typed_on : typing # last_typing_time[k]
    OBVIOUS
  <2>1. Daemon!Taps
    BY DaemonTapsEndTouches DEF Daemon!TouchpadInv
  <2>2. ~travelled
    BY <2>1 DEF Daemon!TouchpadInv, Daemon!TrackerInv, Daemon!TapIsRuledOut, Daemon!Taps,
                Daemon!Muted
  <2>3. ASSUME disable_while_typing, NEW k \in typed_on, typing = last_typing_time[k] PROVE FALSE
    <3>1. touch_start \in 0..TapTimeout - 1
      BY <2>1, TouchpadAssumption DEF Daemon!TouchpadInv, Daemon!TrackerInv, Daemon!TypeOK,
                                      Daemon!Taps
    <3>2. typing \in 0..touch_start
      BY <2>3, <3>1 DEF Daemon!TouchpadInv, Daemon!TrackerInv, Daemon!TapIsRuledOut
    <3>3. typing < DwtTimeout
      BY <3>1, <3>2, TouchpadAssumption
    <3> QED
      BY <2>1, <2>3, <3>3 DEF Daemon!Taps, Daemon!Muted, Daemon!dwt_active
  <2> QED
    BY <2>2, <2>3
<1> QED
  BY <1>1, DaemonPadInvariant, PTL DEF Daemon!Spec, Daemon!NoTapAfterTravelOrTyping

\* device.rs:239: while DWT is active, nothing but physical buttons and reports is
\* written, wherever in a frame it begins or ends.
THEOREM DwtStopsTheDaemonsPad == Daemon!Spec => Daemon!DwtStopsMotion
<1>1. Daemon!TouchpadInv /\ [Daemon!Next]_(Daemon!vars)
      => [Daemon!dwt_active =>
            /\ ~Daemon!Tapped
            /\ \A i \in 1..Len(out') : out'[i].type \in {"button", "syn"}]_(Daemon!vars)
  <2> SUFFICES ASSUME Daemon!TrackerInv, Daemon!Next, Daemon!dwt_active
               PROVE  /\ ~Daemon!Tapped
                      /\ \A i \in 1..Len(out') : out'[i].type \in {"button", "syn"}
    BY DEF Daemon!TouchpadInv
  <2>1. ~Daemon!Taps
    BY DEF Daemon!Taps, Daemon!Muted
  <2>2. ~Daemon!Tapped
    BY <2>1, DaemonTapsEndTouches
  <2>3. CASE Daemon!PhysicalButton
    <3>1. PICK k \in Button, v \in {0, 1} : \A i \in 1..Len(out') : out'[i] = Daemon!Key(k, v)
      BY <2>3, DaemonClickWrites
    <3> QED
      BY <2>2, <3>1 DEF Daemon!Key
  <2>4. CASE Daemon!SynReport
    <3> DEFINE s == IF moved THEN <<Daemon!Syn>> ELSE <<>>
    <3>1. PICK n : Daemon!Emit(s, n)
      BY <2>4 DEF Daemon!SynReport, Daemon!SynTyped, Daemon!SynMotion, Daemon!SynStill,
                  Daemon!Moves
    <3>2. s \in Seq(Quiet) /\ \A i \in 1..Len(s) : s[i] = Daemon!Syn
      BY SynIsQuiet
    <3> HIDE DEF s
    <3>3. \A i \in 1..Len(s) : s[i].button = None
      BY <3>2 DEF Daemon!Syn, Daemon!Written
    <3>4. \A i \in 1..Len(out') : out'[i] = Daemon!Syn
      BY <3>1, <3>2, <3>3, BalancesKept, QuietEmits
    <3> QED
      BY <2>2, <3>4 DEF Daemon!Syn, Daemon!Written
  <2>5. CASE ~(Daemon!PhysicalButton \/ Daemon!SynReport)
    <3>1. out' = <<>>
      BY <2>1, <2>5, DaemonIsSilent DEF Daemon!Next, Daemon!Process, DaemonWorld
    <3> QED
      BY <2>2, <3>1
  <2> QED
    BY <2>3, <2>4, <2>5
<1> QED
  BY <1>1, DaemonPadInvariant, PTL DEF Daemon!Spec, Daemon!DwtStopsMotion

\* Comment device.rs:181: a click on a settled count of up to three fingers is
\* written as the button of the fingers on the pad, unless the last touch ended in
\* a tap that could not be written.
THEOREM DaemonClicksAreOfFingers == Daemon!Spec => Daemon!ClickMatchesFingers
<1>1. Daemon!TouchpadInv /\ [Daemon!Next]_(Daemon!vars)
      => [(/\ frame # <<>> /\ Head(frame) = Daemon!Event("left", 1) /\ ~skipped
           /\ contacts <= 3
           /\ failed => contacts > 0
           /\ \A i \in 1..Len(frame) :
                frame[i].code \in {"left", "abs_x", "abs_y", "syn"})
          => \A i \in 1..Len(out') :
               out'[i].button = CASE contacts = 2 -> "right"
                                  [] contacts = 3 -> "middle"
                                  [] OTHER -> "left"]_(Daemon!vars)
  <2> SUFFICES ASSUME Daemon!TrackerInv, Daemon!FingersTold, Daemon!Next,
                      frame # <<>>, Head(frame) = Event("left", 1), ~skipped, contacts <= 3,
                      failed => contacts > 0,
                      \A i \in 1..Len(frame) :
                        frame[i].code \in {"left", "abs_x", "abs_y", "syn"},
                      NEW i \in 1..Len(out')
               PROVE  out'[i].button = CASE contacts = 2 -> "right"
                                         [] contacts = 3 -> "middle"
                                         [] OTHER -> "left"
    BY DEF Daemon!TouchpadInv, Daemon!Event, Event
  <2>1. \A j \in DOMAIN frame : frame[j].code \notin Daemon!Followed
    <3>1. frame \in Seq(Events)
      BY SameFrames DEF Daemon!TrackerInv, FrameOK
    <3> QED
      BY <3>1 DEF Daemon!Followed
  <2>2. touch_fingers = contacts
    BY <2>1 DEF Daemon!FingersTold
  <2>3. Head(frame).code = "left"
    BY DEF Event
  <2>4. out' # <<>>
    OBVIOUS
  <2>5. Daemon!PhysicalButton
    <3>1. ~Daemon!TouchUp
      BY <2>3, DaemonEvent DEF Daemon!TouchUp
    <3>2. ~Daemon!SynReport
      BY <2>3, DaemonEvent DEF Daemon!SynReport
    <3> QED
      BY <2>4, <3>1, <3>2, DaemonIsSilent DEF Daemon!Next, Daemon!Process, DaemonWorld
  <2>6. out'[i].button = Daemon!ClickButton
    <3>1. PICK k \in Button, v \in {0, 1} :
            /\ \A j \in 1..Len(out') : out'[j] = Daemon!Key(k, v)
            /\ k = Daemon!ClickButton
      BY <2>5, DaemonClickWrites
    <3> HIDE DEF Daemon!ClickButton
    <3> QED
      BY <3>1 DEF Daemon!Key
  <2> QED
    BY <2>2, <2>6 DEF Daemon!ClickButton
<1> QED
  BY <1>1, DaemonPadInvariant, PTL DEF Daemon!Spec, Daemon!ClickMatchesFingers
=============================================================================
