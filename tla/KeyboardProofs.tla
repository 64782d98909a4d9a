---------------------------- MODULE KeyboardProofs ----------------------------
(***************************************************************************)
(* Proofs, for every set of keyboards and keys and all delays, that the    *)
(* keyboard path keeps KeyboardInv and implements KeyStream.               *)
(***************************************************************************)
EXTENDS Keyboard, TLAPS

(***************************************************************************)
(* The alternation of presses and releases survives the two things that    *)
(* happen to a queue: the kernel appends an event, the drain takes the     *)
(* oldest one.                                                             *)
(***************************************************************************)

\* Queueing a change of the key itself.
LEMMA AlternatesAppendToggle ==
  ASSUME NEW q \in Seq(KeyEvent), NEW k \in Key, NEW s, NEW v \in {0, 1},
         NEW dn \in BOOLEAN, NEW dn2 \in BOOLEAN,
         Alternates(q, k, s, dn), s # "gone",
         s \in {"none", "pressed", "repeat", "released"},
         dn <=> v = 0, dn2 <=> v = 1
  PROVE  Alternates(Append(q, [code |-> k, value |-> v]), k, s, dn2)
<1> DEFINE e == [code |-> k, value |-> v]
           r == Append(q, e)
<1>1. /\ Len(q) \in Nat /\ Len(r) = Len(q) + 1
      /\ \A i \in 1..Len(q) : r[i] = q[i]
      /\ r[Len(q) + 1] = e
      /\ e.code = k /\ e.value = v
  BY DEF KeyEvent
<1>2. \A i \in 1..Len(q) : ToggleAt(r, k, i) <=> ToggleAt(q, k, i)
  BY <1>1 DEF ToggleAt
<1>3. ToggleAt(r, k, Len(q) + 1)
  BY <1>1 DEF ToggleAt
<1> HIDE DEF r, e
<1>4. ASSUME NEW i \in 1..Len(r), ToggleAt(r, k, i),
             \A j \in 1..(i-1) : ~ ToggleAt(r, k, j)
      PROVE  IF r[i].value = 1 THEN s \in {"none", "released"}
                               ELSE s \in {"none"} \cup HeldStates
  <2>1. CASE i \in 1..Len(q)
    BY <2>1, <1>1, <1>2, <1>4 DEF Alternates, FirstToggleFits
  <2>2. CASE i = Len(q) + 1
    <3>1. \A j \in 1..Len(q) : ~ ToggleAt(q, k, j)
      BY <2>2, <1>2, <1>4, <1>1
    <3>2. (s \in HeldStates => dn) /\ (s = "released" => ~ dn)
      BY <3>1 DEF Alternates, CaughtUp
    <3> QED
      BY <2>2, <3>2, <1>1 DEF HeldStates, Stream!HeldStates
  <2> QED
    BY <2>1, <2>2, <1>1
<1>5. ASSUME NEW i \in 1..Len(r), NEW j \in 1..Len(r), i < j,
             ToggleAt(r, k, i), ToggleAt(r, k, j),
             \A l \in (i+1)..(j-1) : ~ ToggleAt(r, k, l)
      PROVE  r[i].value # r[j].value
  <2>1. i \in 1..Len(q)
    BY <1>1, <1>5
  <2>2. CASE j \in 1..Len(q)
    BY <2>1, <2>2, <1>1, <1>2, <1>5 DEF Alternates, NextToggleDiffers
  <2>3. CASE j = Len(q) + 1
    <3>1. \A l \in (i+1)..Len(q) : ~ ToggleAt(q, k, l)
      BY <2>3, <2>1, <1>2, <1>5, <1>1
    <3>2. q[i].value = 1 <=> dn
      BY <3>1, <2>1, <1>2, <1>5 DEF Alternates, LastToggleFits
    <3> QED
      BY <3>2, <2>1, <2>3, <1>1
  <2> QED
    BY <2>2, <2>3, <1>1
<1>6. ASSUME NEW i \in 1..Len(r), ToggleAt(r, k, i),
             \A j \in (i+1)..Len(r) : ~ ToggleAt(r, k, j)
      PROVE  r[i].value = 1 <=> dn2
  <2>1. i = Len(q) + 1
    BY <1>6, <1>1, <1>3
  <2> QED
    BY <2>1, <1>1
<1> QED
  BY <1>1, <1>3, <1>4, <1>5, <1>6
  DEF Alternates, FirstToggleFits, NextToggleDiffers, LastToggleFits,
      CaughtUp, r, e

\* Queueing an event that is not a change of the key: another key, or the
\* kernel's autorepeat.
LEMMA AlternatesAppendOther ==
  ASSUME NEW q \in Seq(KeyEvent), NEW k \in Key, NEW s, NEW dn \in BOOLEAN,
         NEW e \in KeyEvent, e.code # k \/ e.value = 2,
         Alternates(q, k, s, dn)
  PROVE  Alternates(Append(q, e), k, s, dn)
<1> DEFINE r == Append(q, e)
<1>1. /\ Len(q) \in Nat /\ Len(r) = Len(q) + 1
      /\ \A i \in 1..Len(q) : r[i] = q[i]
      /\ r[Len(q) + 1] = e
  OBVIOUS
<1>2. \A i \in 1..Len(q) : ToggleAt(r, k, i) <=> ToggleAt(q, k, i)
  BY <1>1 DEF ToggleAt
<1>3. ~ ToggleAt(r, k, Len(q) + 1)
  BY <1>1 DEF ToggleAt
<1> HIDE DEF r
<1>4. ASSUME NEW i \in 1..Len(r), ToggleAt(r, k, i)
      PROVE  i \in 1..Len(q) /\ ToggleAt(q, k, i) /\ r[i] = q[i]
  BY <1>1, <1>2, <1>3, <1>4
<1>5. ASSUME NEW i \in 1..Len(r), ToggleAt(r, k, i),
             \A j \in 1..(i-1) : ~ ToggleAt(r, k, j)
      PROVE  IF r[i].value = 1 THEN s \in {"none", "released"}
                               ELSE s \in {"none"} \cup HeldStates
  BY <1>1, <1>2, <1>4, <1>5 DEF Alternates, FirstToggleFits
<1>6. ASSUME NEW i \in 1..Len(r), NEW j \in 1..Len(r), i < j,
             ToggleAt(r, k, i), ToggleAt(r, k, j),
             \A l \in (i+1)..(j-1) : ~ ToggleAt(r, k, l)
      PROVE  r[i].value # r[j].value
  <2>1. /\ i \in 1..Len(q) /\ j \in 1..Len(q) /\ r[i] = q[i] /\ r[j] = q[j]
        /\ ToggleAt(q, k, i) /\ ToggleAt(q, k, j)
    BY <1>4, <1>6
  <2>2. \A l \in (i+1)..(j-1) : ~ ToggleAt(q, k, l)
    BY <1>1, <1>2, <1>6, <2>1
  <2> QED
    BY <2>1, <2>2, <1>6 DEF Alternates, NextToggleDiffers
<1>7. ASSUME NEW i \in 1..Len(r), ToggleAt(r, k, i),
             \A j \in (i+1)..Len(r) : ~ ToggleAt(r, k, j)
      PROVE  r[i].value = 1 <=> dn
  <2>1. i \in 1..Len(q) /\ ToggleAt(q, k, i) /\ r[i] = q[i]
    BY <1>4, <1>7
  <2>2. \A j \in (i+1)..Len(q) : ~ ToggleAt(q, k, j)
    BY <1>1, <1>2, <1>7, <2>1
  <2> QED
    BY <2>1, <2>2 DEF Alternates, LastToggleFits
<1>8. (\A i \in 1..Len(r) : ~ ToggleAt(r, k, i)) =>
        (s \in HeldStates => dn) /\ (s = "released" => ~ dn)
  BY <1>1, <1>2 DEF Alternates, CaughtUp
<1> QED
  BY <1>5, <1>6, <1>7, <1>8
  DEF Alternates, FirstToggleFits, NextToggleDiffers, LastToggleFits,
      CaughtUp, r

\* Indices of a queue and of its tail.
LEMMA TailIndices ==
  ASSUME NEW q \in Seq(KeyEvent), q # <<>>, NEW k \in Key
  PROVE  /\ Tail(q) \in Seq(KeyEvent)
         /\ Len(q) \in Nat \ {0}
         /\ Len(Tail(q)) = Len(q) - 1
         /\ \A i \in 1..Len(Tail(q)) :
              /\ Tail(q)[i] = q[i + 1]
              /\ ToggleAt(Tail(q), k, i) <=> ToggleAt(q, k, i + 1)
BY DEF ToggleAt

\* Processing the oldest event when it is a press or a release of the key.
LEMMA AlternatesTailToggle ==
  ASSUME NEW q \in Seq(KeyEvent), q # <<>>, NEW k \in Key, NEW s,
         NEW dn \in BOOLEAN, Alternates(q, k, s, dn),
         ToggleAt(q, k, 1)
  PROVE  /\ q[1].value = 1 =>
              /\ s \in {"none", "released"}
              /\ Alternates(Tail(q), k, "pressed", dn)
         /\ q[1].value = 0 =>
              /\ s \in {"none"} \cup HeldStates
              /\ Alternates(Tail(q), k, "released", dn)
<1> DEFINE r == Tail(q)
           n == IF q[1].value = 1 THEN "pressed" ELSE "released"
<1>1. /\ Len(q) \in Nat \ {0} /\ Len(r) = Len(q) - 1
      /\ \A i \in 1..Len(r) : /\ r[i] = q[i + 1]
                              /\ ToggleAt(r, k, i) <=> ToggleAt(q, k, i + 1)
  BY TailIndices
<1> HIDE DEF r
<1>2. q[1].value \in {0, 1}
  BY DEF ToggleAt
<1>3. IF q[1].value = 1 THEN s \in {"none", "released"}
                        ELSE s \in {"none"} \cup HeldStates
  BY <1>1 DEF Alternates, FirstToggleFits
<1>4. FirstToggleFits(r, k, n)
  <2> SUFFICES ASSUME NEW i \in 1..Len(r), ToggleAt(r, k, i),
                      \A j \in 1..(i-1) : ~ ToggleAt(r, k, j)
               PROVE  IF r[i].value = 1 THEN n \in {"none", "released"}
                                        ELSE n \in {"none"} \cup HeldStates
    BY DEF FirstToggleFits
  <2>1. \A l \in 2..i : ~ ToggleAt(q, k, l)
    <3> SUFFICES ASSUME NEW l \in 2..i PROVE ~ ToggleAt(q, k, l)
      OBVIOUS
    <3>1. l - 1 \in 1..(i-1) /\ l - 1 \in 1..Len(r) /\ (l - 1) + 1 = l
      BY <1>1
    <3> QED
      BY <3>1, <1>1
  <2>2. /\ i + 1 \in 1..Len(q) /\ 1 \in 1..Len(q) /\ 1 < i + 1
    BY <1>1
  <2>5. ToggleAt(q, k, i + 1) /\ r[i] = q[i + 1]
    BY <1>1
  <2>3. q[1].value # q[i + 1].value
    BY <2>1, <2>2, <2>5 DEF Alternates, NextToggleDiffers
  <2>4. q[i + 1].value \in {0, 1}
    BY <2>5 DEF ToggleAt
  <2> QED
    BY <1>2, <2>3, <2>4, <2>5 DEF HeldStates, Stream!HeldStates
<1>5. NextToggleDiffers(r, k)
  <2> SUFFICES ASSUME NEW i \in 1..Len(r), NEW j \in 1..Len(r), i < j,
                      ToggleAt(r, k, i), ToggleAt(r, k, j),
                      \A l \in (i+1)..(j-1) : ~ ToggleAt(r, k, l)
               PROVE  r[i].value # r[j].value
    BY DEF NextToggleDiffers
  <2>1. \A l \in (i+2)..j : ~ ToggleAt(q, k, l)
    <3> SUFFICES ASSUME NEW l \in (i+2)..j PROVE ~ ToggleAt(q, k, l)
      OBVIOUS
    <3>1. l - 1 \in (i+1)..(j-1) /\ l - 1 \in 1..Len(r) /\ (l - 1) + 1 = l
      BY <1>1
    <3> QED
      BY <3>1, <1>1
  <2>2. /\ i + 1 \in 1..Len(q) /\ j + 1 \in 1..Len(q) /\ i + 1 < j + 1
        /\ (i + 1) + 1 = i + 2 /\ (j + 1) - 1 = j
    BY <1>1
  <2>3. /\ ToggleAt(q, k, i + 1) /\ r[i] = q[i + 1]
        /\ ToggleAt(q, k, j + 1) /\ r[j] = q[j + 1]
    BY <1>1
  <2> QED
    BY <2>1, <2>2, <2>3 DEF Alternates, NextToggleDiffers
<1>6. LastToggleFits(r, k, dn)
  <2> SUFFICES ASSUME NEW i \in 1..Len(r), ToggleAt(r, k, i),
                      \A j \in (i+1)..Len(r) : ~ ToggleAt(r, k, j)
               PROVE  r[i].value = 1 <=> dn
    BY DEF LastToggleFits
  <2>1. \A l \in (i+2)..Len(q) : ~ ToggleAt(q, k, l)
    <3> SUFFICES ASSUME NEW l \in (i+2)..Len(q) PROVE ~ ToggleAt(q, k, l)
      OBVIOUS
    <3>1. l - 1 \in (i+1)..Len(r) /\ l - 1 \in 1..Len(r) /\ (l - 1) + 1 = l
      BY <1>1
    <3> QED
      BY <3>1, <1>1
  <2>2. i + 1 \in 1..Len(q) /\ (i + 1) + 1 = i + 2
    BY <1>1
  <2>3. ToggleAt(q, k, i + 1) /\ r[i] = q[i + 1]
    BY <1>1
  <2> QED
    BY <2>1, <2>2, <2>3 DEF Alternates, LastToggleFits
<1>7. CaughtUp(r, k, n, dn)
  <2> SUFFICES ASSUME \A i \in 1..Len(r) : ~ ToggleAt(r, k, i)
               PROVE  (n \in HeldStates => dn) /\ (n = "released" => ~ dn)
    BY DEF CaughtUp
  <2>1. \A l \in 2..Len(q) : ~ ToggleAt(q, k, l)
    <3> SUFFICES ASSUME NEW l \in 2..Len(q) PROVE ~ ToggleAt(q, k, l)
      OBVIOUS
    <3>1. l - 1 \in 1..Len(r) /\ (l - 1) + 1 = l
      BY <1>1
    <3> QED
      BY <3>1, <1>1
  <2>2. q[1].value = 1 <=> dn
    BY <1>1, <2>1 DEF Alternates, LastToggleFits
  <2> QED
    BY <1>2, <2>2 DEF HeldStates, Stream!HeldStates
<1> QED
  BY <1>2, <1>3, <1>4, <1>5, <1>6, <1>7 DEF Alternates, r

\* Processing the oldest event when it changes another key or none.
LEMMA AlternatesTailOther ==
  ASSUME NEW q \in Seq(KeyEvent), q # <<>>, NEW k \in Key, NEW s,
         NEW dn \in BOOLEAN, Alternates(q, k, s, dn),
         ~ ToggleAt(q, k, 1)
  PROVE  Alternates(Tail(q), k, s, dn)
<1> DEFINE r == Tail(q)
<1>1. /\ Len(q) \in Nat \ {0} /\ Len(r) = Len(q) - 1
      /\ \A i \in 1..Len(r) : /\ r[i] = q[i + 1]
                              /\ ToggleAt(r, k, i) <=> ToggleAt(q, k, i + 1)
  BY TailIndices
<1> HIDE DEF r
<1>2. ASSUME NEW l \in 1..Len(q), ToggleAt(q, k, l)
      PROVE  l - 1 \in 1..Len(r) /\ ToggleAt(r, k, l - 1)
  <2>1. l # 1 /\ l - 1 \in 1..Len(r) /\ (l - 1) + 1 = l
    BY <1>1, <1>2
  <2> QED
    BY <2>1, <1>1, <1>2
<1>3. FirstToggleFits(r, k, s)
  <2> SUFFICES ASSUME NEW i \in 1..Len(r), ToggleAt(r, k, i),
                      \A j \in 1..(i-1) : ~ ToggleAt(r, k, j)
               PROVE  IF r[i].value = 1 THEN s \in {"none", "released"}
                                        ELSE s \in {"none"} \cup HeldStates
    BY DEF FirstToggleFits
  <2>1. \A l \in 1..((i+1)-1) : ~ ToggleAt(q, k, l)
    <3> SUFFICES ASSUME NEW l \in 1..i, ToggleAt(q, k, l) PROVE FALSE
      BY <1>1
    <3>1. l \in 1..Len(q) /\ (l - 1 \in 1..(i-1) \/ l = 1)
      BY <1>1
    <3> QED
      BY <3>1, <1>1, <1>2
  <2>2. i + 1 \in 1..Len(q)
    BY <1>1
  <2>3. ToggleAt(q, k, i + 1) /\ r[i] = q[i + 1]
    BY <1>1
  <2> QED
    BY <2>1, <2>2, <2>3 DEF Alternates, FirstToggleFits
<1>4. NextToggleDiffers(r, k)
  <2> SUFFICES ASSUME NEW i \in 1..Len(r), NEW j \in 1..Len(r), i < j,
                      ToggleAt(r, k, i), ToggleAt(r, k, j),
                      \A l \in (i+1)..(j-1) : ~ ToggleAt(r, k, l)
               PROVE  r[i].value # r[j].value
    BY DEF NextToggleDiffers
  <2>1. \A l \in (i+2)..j : ~ ToggleAt(q, k, l)
    <3> SUFFICES ASSUME NEW l \in (i+2)..j PROVE ~ ToggleAt(q, k, l)
      OBVIOUS
    <3>1. l - 1 \in (i+1)..(j-1) /\ l - 1 \in 1..Len(r) /\ (l - 1) + 1 = l
      BY <1>1
    <3> QED
      BY <3>1, <1>1
  <2>2. /\ i + 1 \in 1..Len(q) /\ j + 1 \in 1..Len(q) /\ i + 1 < j + 1
        /\ (i + 1) + 1 = i + 2 /\ (j + 1) - 1 = j
    BY <1>1
  <2>3. /\ ToggleAt(q, k, i + 1) /\ r[i] = q[i + 1]
        /\ ToggleAt(q, k, j + 1) /\ r[j] = q[j + 1]
    BY <1>1
  <2> QED
    BY <2>1, <2>2, <2>3 DEF Alternates, NextToggleDiffers
<1>5. LastToggleFits(r, k, dn)
  <2> SUFFICES ASSUME NEW i \in 1..Len(r), ToggleAt(r, k, i),
                      \A j \in (i+1)..Len(r) : ~ ToggleAt(r, k, j)
               PROVE  r[i].value = 1 <=> dn
    BY DEF LastToggleFits
  <2>1. \A l \in (i+2)..Len(q) : ~ ToggleAt(q, k, l)
    <3> SUFFICES ASSUME NEW l \in (i+2)..Len(q) PROVE ~ ToggleAt(q, k, l)
      OBVIOUS
    <3>1. l - 1 \in (i+1)..Len(r) /\ l - 1 \in 1..Len(r) /\ (l - 1) + 1 = l
      BY <1>1
    <3> QED
      BY <3>1, <1>1
  <2>2. i + 1 \in 1..Len(q) /\ (i + 1) + 1 = i + 2
    BY <1>1
  <2>3. ToggleAt(q, k, i + 1) /\ r[i] = q[i + 1]
    BY <1>1
  <2> QED
    BY <2>1, <2>2, <2>3 DEF Alternates, LastToggleFits
<1>6. CaughtUp(r, k, s, dn)
  BY <1>1, <1>2 DEF Alternates, CaughtUp
<1> QED
  BY <1>3, <1>4, <1>5, <1>6 DEF Alternates, r

-----------------------------------------------------------------------------
(* Ages stay between 0 and Cap. *)
LEMMA CapLemma ==
  /\ Cap \in Nat \ {0}
  /\ RepeatDelay <= Cap /\ RepeatInterval <= Cap
  /\ \A age \in 0..Cap : Older(age) \in 0..Cap
BY KeyboardAssumption DEF Cap, Older, Stream!Cap, Stream!Older

\* The first event of a batch: a key event of a queue that is not empty.
LEMMA BatchHead ==
  ASSUME TypeOK, left > 0
  PROVE  /\ cur \in tracked /\ cur \in Keyboard
         /\ pending[cur] \in Seq(KeyEvent)
         /\ pending[cur] # <<>>
         /\ Head(pending[cur]) = pending[cur][1]
         /\ Head(pending[cur]) \in KeyEvent
         /\ Head(pending[cur]).code \in Key
         /\ Head(pending[cur]).value \in 0..2
         /\ Tail(pending[cur]) \in Seq(KeyEvent)
         /\ Len(Tail(pending[cur])) = Len(pending[cur]) - 1
<1>1. /\ cur \in tracked /\ cur \in Keyboard
      /\ pending[cur] \in Seq(KeyEvent)
      /\ Len(pending[cur]) > 0
  BY DEF TypeOK
<1>2. pending[cur] # <<>>
  BY <1>1
<1>3. pending[cur][1] \in KeyEvent /\ Head(pending[cur]) = pending[cur][1]
  BY <1>1, <1>2
<1> QED
  BY <1>1, <1>2, <1>3 DEF KeyEvent

\* Ageing and firing a held key change its age and nothing else but the flag.
LEMMA HeldKeyLemma ==
  ASSUME NEW h \in HeldKey
  PROVE  /\ h.code \in Key /\ h.last_fire \in 0..Cap
         /\ h.initial_fired \in BOOLEAN
         /\ Aged(h) \in HeldKey /\ Aged(h).code = h.code
         /\ Aged(h).last_fire = Older(h.last_fire)
         /\ Aged(h).initial_fired = h.initial_fired
         /\ Fire(h) \in HeldKey /\ Fire(h).code = h.code
         /\ Due(h) => Fire(h).last_fire = 0 /\ Fire(h).initial_fired
         /\ ~ Due(h) => Fire(h) = h
<1>0. 0 \in 0..Cap
  BY CapLemma
<1>1. /\ h.code \in Key /\ h.last_fire \in 0..Cap
      /\ h.initial_fired \in BOOLEAN
      /\ h = [code |-> h.code, last_fire |-> h.last_fire,
              initial_fired |-> h.initial_fired]
  BY DEF HeldKey
<1>2. Aged(h) = [code |-> h.code, last_fire |-> Older(h.last_fire),
                 initial_fired |-> h.initial_fired]
  BY <1>1 DEF Aged
<1>3. Due(h) => Fire(h) = [code |-> h.code, last_fire |-> 0,
                           initial_fired |-> TRUE]
  BY <1>1 DEF Fire
<1>4. ~ Due(h) => Fire(h) = h
  BY DEF Fire
<1>5. Older(h.last_fire) \in 0..Cap
  BY <1>1, CapLemma
<1>6. /\ Aged(h) \in HeldKey /\ Aged(h).code = h.code
      /\ Aged(h).last_fire = Older(h.last_fire)
      /\ Aged(h).initial_fired = h.initial_fired
  BY <1>1, <1>2, <1>5 DEF HeldKey
<1>7. /\ Fire(h) \in HeldKey /\ Fire(h).code = h.code
      /\ Due(h) => Fire(h).last_fire = 0 /\ Fire(h).initial_fired
  <2>1. CASE Due(h)
    <3>1. Fire(h) = [code |-> h.code, last_fire |-> 0, initial_fired |-> TRUE]
      BY <2>1, <1>3
    <3>2. Fire(h) \in HeldKey
      BY <3>1, <1>0, <1>1 DEF HeldKey
    <3>3. /\ Fire(h).code = h.code /\ Fire(h).last_fire = 0
          /\ Fire(h).initial_fired
      BY <3>1
    <3> QED
      BY <3>2, <3>3
  <2>2. CASE ~ Due(h)
    BY <2>2, <1>4
  <2> QED
    BY <2>1, <2>2
<1> QED
  BY <1>1, <1>4, <1>6, <1>7

\* A step of the client's record of one key.
LEMMA SentType ==
  ASSUME TypeOK, NEW d \in Keyboard, NEW k \in Key,
         NEW s \in {"pressed", "released"}
  PROVE  /\ [sent EXCEPT ![d][k] = s]
              \in [Keyboard -> [Key -> {"none", "pressed", "repeat", "released",
                                        "gone"}]]
         /\ [since EXCEPT ![d][k] = 0] \in [Keyboard -> [Key -> 0..Cap]]
<1>1. 0 \in 0..Cap
  BY CapLemma
<1>2. [sent EXCEPT ![d][k] = s]
        \in [Keyboard -> [Key -> {"none", "pressed", "repeat", "released",
                                  "gone"}]]
  BY DEF TypeOK
<1>3. [since EXCEPT ![d][k] = 0] \in [Keyboard -> [Key -> 0..Cap]]
  BY <1>1 DEF TypeOK
<1> QED
  BY <1>2, <1>3

\* Every step keeps every variable in its type.
LEMMA TypeStep == TypeOK /\ [Next]_vars => TypeOK'
<1> SUFFICES ASSUME TypeOK, [Next]_vars PROVE TypeOK'
  OBVIOUS
<1> USE CapLemma, KeyboardAssumption
<1>1. ASSUME NEW d \in Keyboard, NEW k \in Key, NEW v \in 0..2, Queue(d, k, v)
      PROVE  /\ pending' \in [Keyboard -> Seq(KeyEvent)]
             /\ \A e \in Keyboard : Len(pending'[e]) >= Len(pending[e])
  <2> DEFINE r == Append(pending[d], [code |-> k, value |-> v])
  <2>1. [code |-> k, value |-> v] \in KeyEvent
    BY DEF KeyEvent
  <2>2. pending[d] \in Seq(KeyEvent)
    BY DEF TypeOK
  <2>3. r \in Seq(KeyEvent) /\ Len(r) >= Len(pending[d])
    BY <2>1, <2>2
  <2>4. pending' = [pending EXCEPT ![d] = r]
    BY <1>1 DEF Queue
  <2>5. \A e \in Keyboard : Len(pending[e]) \in Nat
    BY DEF TypeOK
  <2> HIDE DEF r
  <2> QED
    BY <2>3, <2>4, <2>5 DEF TypeOK
<1>2. ASSUME NEW d \in Keyboard, NEW k \in Key,
             KernelPress(d, k) \/ KernelRelease(d, k)
      PROVE  TypeOK'
  <2>1. \E v \in 0..2 : Queue(d, k, v)
    BY <1>2 DEF KernelPress, KernelRelease
  <2>2. /\ pending' \in [Keyboard -> Seq(KeyEvent)]
        /\ \A e \in Keyboard : Len(pending'[e]) >= Len(pending[e])
    BY <2>1, <1>1
  <2>3. /\ down' \in [Keyboard -> SUBSET Key]
        /\ softrep' \in [Keyboard -> Key \cup {None}]
    <3>1. CASE KernelPress(d, k)
      BY <3>1 DEF KernelPress, TypeOK
    <3>2. CASE KernelRelease(d, k)
      BY <3>2 DEF KernelRelease, TypeOK
    <3> QED
      BY <1>2, <3>1, <3>2
  <2>4. left' > 0 => (cur' \in tracked' /\ left' <= Len(pending'[cur']))
    BY <1>2, <2>2 DEF KernelPress, KernelRelease, TypeOK, drainVars
  <2> QED
    BY <1>2, <2>2, <2>3, <2>4
    DEF KernelPress, KernelRelease, TypeOK, drainVars, clientVars
<1>3. ASSUME NEW d \in Keyboard, KernelAutorepeat(d) PROVE TypeOK'
  <2>1. softrep[d] \in Key /\ Queue(d, softrep[d], 2)
    BY <1>3 DEF KernelAutorepeat, TypeOK
  <2>2. /\ pending' \in [Keyboard -> Seq(KeyEvent)]
        /\ \A e \in Keyboard : Len(pending'[e]) >= Len(pending[e])
    BY <2>1, <1>1
  <2>3. left' > 0 => (cur' \in tracked' /\ left' <= Len(pending'[cur']))
    BY <1>3, <2>2 DEF KernelAutorepeat, TypeOK, drainVars
  <2> QED
    BY <1>3, <2>2, <2>3 DEF KernelAutorepeat, TypeOK, drainVars, clientVars
<1>4. ASSUME NEW d \in Keyboard, Unplug(d) PROVE TypeOK'
  BY <1>4 DEF Unplug, TypeOK, drainVars, clientVars
<1>5. CASE Tick
  <2>1. held' \in [Keyboard -> SUBSET HeldKey]
    <3>1. \A d \in Keyboard : held'[d] \in SUBSET HeldKey
      BY <1>5, HeldKeyLemma DEF Tick, TypeOK
    <3> QED
      BY <1>5, <3>1 DEF Tick
  <2>2. since' \in [Keyboard -> [Key -> 0..Cap]]
    BY <1>5 DEF Tick, TypeOK, Stream!Tick, Older
  <2> QED
    BY <1>5, <2>1, <2>2
    DEF Tick, TypeOK, Stream!Tick, kernelVars, drainVars
<1>6. CASE Dispatch
  <2>1. held' \in [Keyboard -> SUBSET HeldKey]
    <3>1. \A d \in Keyboard : held'[d] \in SUBSET HeldKey
      BY <1>6, HeldKeyLemma DEF Dispatch, EmitKeyRepeats, TypeOK
    <3> QED
      BY <1>6, <3>1 DEF Dispatch, EmitKeyRepeats
  <2>2. /\ sent' \in [Keyboard -> [Key -> {"none", "pressed", "repeat",
                                           "released", "gone"}]]
        /\ since' \in [Keyboard -> [Key -> 0..Cap]]
    <3>1. \A d \in Keyboard, k \in Key :
            /\ sent'[d][k] \in {"none", "pressed", "repeat", "released", "gone"}
            /\ since'[d][k] \in 0..Cap
      BY <1>6 DEF Dispatch, EmitKeyRepeats, TypeOK
    <3> QED
      BY <1>6, <3>1 DEF Dispatch, EmitKeyRepeats
  <2> QED
    BY <1>6, <2>1, <2>2 DEF Dispatch, TypeOK, kernelVars
<1>7. ASSUME NEW d \in Keyboard, Fetch(d) PROVE TypeOK'
  <2>1. CASE d \in plugged
    <3>1. Len(pending[d]) \in Nat /\ d \in tracked
      BY <1>7 DEF Fetch, TypeOK
    <3>2. /\ cur' = d /\ left' \in Nat /\ left' <= Len(pending[d])
      BY <1>7, <2>1, <3>1 DEF Fetch
    <3>3. fds' \in SUBSET tracked
      BY <1>7 DEF Fetch, TypeOK
    <3> QED
      BY <1>7, <2>1, <3>1, <3>2, <3>3
      DEF Fetch, TypeOK, kernelVars, clientVars
  <2>2. CASE d \notin plugged
    BY <1>7, <2>2 DEF Fetch, TypeOK, kernelVars, clientVars
  <2> QED
    BY <2>1, <2>2
<1>8. ASSUME NEW d \in Keyboard, RemoveDead(d) PROVE TypeOK'
  <2>1. left' = 0 /\ fds' = {} /\ dead_fds' \in SUBSET (tracked' \ plugged')
    BY <1>8 DEF RemoveDead, TypeOK, kernelVars
  <2> QED
    BY <1>8, <2>1 DEF RemoveDead, TypeOK, kernelVars
<1>9. CASE ProcessKeyboardEvent
  <2>1. left > 0 /\ left' = left - 1
    BY <1>9 DEF ProcessKeyboardEvent
  <2> DEFINE ev == Head(pending[cur])
  <2>2. /\ cur \in tracked /\ cur \in Keyboard /\ ev.code \in Key
        /\ Tail(pending[cur]) \in Seq(KeyEvent)
        /\ Len(Tail(pending[cur])) = Len(pending[cur]) - 1
    BY <2>1, BatchHead
  <2>3. /\ pending' = [pending EXCEPT ![cur] = Tail(pending[cur])]
        /\ pending' \in [Keyboard -> Seq(KeyEvent)]
        /\ Len(pending'[cur]) = Len(pending[cur]) - 1
    BY <1>9, <2>2 DEF ProcessKeyboardEvent, TypeOK
  <2>4. /\ held' \in [Keyboard -> SUBSET HeldKey]
        /\ typing' \in 0..DwtTimeout
        /\ sent' \in [Keyboard -> [Key -> {"none", "pressed", "repeat",
                                           "released", "gone"}]]
        /\ since' \in [Keyboard -> [Key -> 0..Cap]]
    <3>1. CASE KeyDown(cur, ev.code)
      <4>1. [code |-> ev.code, last_fire |-> 0, initial_fired |-> FALSE]
              \in HeldKey
        BY <2>2 DEF HeldKey
      <4> HIDE DEF ev
      <4>2. held' \in [Keyboard -> SUBSET HeldKey]
        BY <4>1, <2>2, <3>1 DEF KeyDown, TypeOK
      <4>3. typing' \in 0..DwtTimeout
        BY <3>1 DEF KeyDown
      <4> QED
        BY <4>1, <4>2, <4>3, <2>2, <3>1, SentType DEF KeyDown
    <3>2. CASE KeyUp(cur, ev.code)
      <4> HIDE DEF ev
      <4>1. held' \in [Keyboard -> SUBSET HeldKey]
        BY <2>2, <3>2 DEF KeyUp, TypeOK
      <4>2. typing' \in 0..DwtTimeout
        BY <3>2 DEF KeyUp, TypeOK
      <4> QED
        BY <4>1, <4>2, <2>2, <3>2, SentType DEF KeyUp
    <3>3. CASE KernelRepeatDropped
      BY <3>3 DEF KernelRepeatDropped, TypeOK
    <3> QED
      BY <1>9, <3>1, <3>2, <3>3 DEF ProcessKeyboardEvent
  <2>5. left' > 0 => (cur' \in tracked' /\ left' <= Len(pending'[cur']))
    BY <1>9, <2>1, <2>2, <2>3 DEF ProcessKeyboardEvent, TypeOK
  <2>6. left' \in Nat
    BY <2>1 DEF TypeOK
  <2>7. UNCHANGED <<down, softrep, plugged, tracked, draining, fds, cur,
                    dead_fds>>
    BY <1>9 DEF ProcessKeyboardEvent
  <2> QED
    BY <2>3, <2>4, <2>5, <2>6, <2>7 DEF TypeOK
<1>10. CASE EndDrain
  <2>1. left' = 0 /\ cur' \in Keyboard \cup {None} /\ draining' \in BOOLEAN
    BY <1>10 DEF EndDrain
  <2> QED
    BY <1>10, <2>1 DEF EndDrain, TypeOK, kernelVars, clientVars
<1>11. CASE UNCHANGED vars
  BY <1>11 DEF vars, TypeOK
<1>12. CASE Kernel
  BY <1>12, <1>2, <1>3, <1>4 DEF Kernel
<1>13. CASE DrainStep
  BY <1>13, <1>7, <1>8, <1>9, <1>10 DEF DrainStep
<1> QED
  BY <1>5, <1>6, <1>11, <1>12, <1>13 DEF Next

-----------------------------------------------------------------------------
(* The oldest unprocessed event fits what the client has been told. *)
LEMMA HeadFits ==
  ASSUME TypeOK, StreamsAlternate, left > 0
  PROVE  LET ev == Head(pending[cur]) IN
         /\ ev.value = 1 => sent[cur][ev.code] \in {"none", "released"}
         /\ ev.value = 0 => sent[cur][ev.code] \in {"none"} \cup HeldStates
<1> DEFINE q == pending[cur]
           k == Head(pending[cur]).code
<1>1. /\ cur \in tracked /\ q \in Seq(KeyEvent) /\ q # <<>>
      /\ Head(q) = q[1] /\ k \in Key
  BY BatchHead
<1>2. Alternates(q, k, sent[cur][k], k \in down[cur])
  BY <1>1 DEF StreamsAlternate
<1>3. CASE q[1].value \in {0, 1}
  <2>1. ToggleAt(q, k, 1)
    BY <1>1, <1>3 DEF ToggleAt
  <2>2. (k \in down[cur]) \in BOOLEAN
    OBVIOUS
  <2> HIDE DEF k, q
  <2>3. /\ q[1].value = 1 => sent[cur][k] \in {"none", "released"}
        /\ q[1].value = 0 => sent[cur][k] \in {"none"} \cup HeldStates
    BY <1>1, <1>2, <2>1, <2>2, AlternatesTailToggle
  <2> QED
    BY <1>1, <2>3 DEF k, q
<1> QED
  BY <1>1, <1>3

(* What one step does to held_keys and to the client's view of the keys. *)

\* HeldMatchesSent for one key of one device.
Matches(d, k) ==
  /\ sent[d][k] \in HeldStates <=> \E h \in held[d] : h.code = k
  /\ \A h \in held[d] : h.code = k =>
       /\ h.last_fire = since[d][k]
       /\ h.initial_fired <=> sent[d][k] = "repeat"

LEMMA HeldMatchesSentStep ==
  TypeOK /\ StreamsAlternate /\ HeldMatchesSent /\ [Next]_vars
    => HeldMatchesSent'
<1> SUFFICES ASSUME TypeOK, StreamsAlternate, HeldMatchesSent, [Next]_vars,
                    NEW d \in Keyboard, NEW k \in Key
             PROVE  Matches(d, k)'
  BY DEF HeldMatchesSent, Matches
<1>0. Matches(d, k) /\ held[d] \subseteq HeldKey
  BY DEF HeldMatchesSent, Matches, TypeOK
<1>1. ASSUME UNCHANGED <<held, sent, since>> PROVE Matches(d, k)'
  BY <1>0, <1>1 DEF Matches
<1>2. CASE Kernel
  BY <1>1, <1>2 DEF Kernel, KernelPress, KernelRelease, KernelAutorepeat,
                    Unplug, clientVars
<1>3. CASE Tick
  <2>1. held'[d] = {Aged(h) : h \in held[d]} /\ sent' = sent
    BY <1>3 DEF Tick, Stream!Tick
  <2>2. since'[d][k] = IF sent[d][k] \in HeldStates THEN Older(since[d][k])
                                                     ELSE since[d][k]
    BY <1>3 DEF Tick, Stream!Tick, HeldStates, Older
  <2>3. sent'[d][k] \in HeldStates <=> \E g \in held'[d] : g.code = k
    BY <1>0, <2>1, HeldKeyLemma DEF Matches
  <2>4. ASSUME NEW g \in held'[d], g.code = k
        PROVE  /\ g.last_fire = since'[d][k]
               /\ g.initial_fired <=> sent'[d][k] = "repeat"
    <3>1. PICK h \in held[d] : g = Aged(h)
      BY <2>1
    <3>2. /\ h \in HeldKey /\ h.code = k
          /\ g.last_fire = Older(h.last_fire)
          /\ g.initial_fired = h.initial_fired
      BY <1>0, <2>4, <3>1, HeldKeyLemma
    <3>3. /\ sent[d][k] \in HeldStates /\ h.last_fire = since[d][k]
          /\ h.initial_fired <=> sent[d][k] = "repeat"
      BY <1>0, <3>2 DEF Matches
    <3> QED
      BY <2>1, <2>2, <3>2, <3>3
  <2> QED
    BY <2>3, <2>4 DEF Matches
<1>4. CASE Dispatch
  <2> DEFINE repeats == \E h \in held[d] : h.code = k /\ Due(h)
  <2>1. /\ held'[d] = {Fire(h) : h \in held[d]}
        /\ sent'[d][k] = IF repeats THEN "repeat" ELSE sent[d][k]
        /\ since'[d][k] = IF repeats THEN 0 ELSE since[d][k]
    BY <1>4 DEF Dispatch, EmitKeyRepeats
  <2>2. repeats => sent[d][k] \in HeldStates
    BY <1>0 DEF Matches
  <2>3. "repeat" \in HeldStates
    BY DEF HeldStates, Stream!HeldStates
  <2>4. sent'[d][k] \in HeldStates <=> \E g \in held'[d] : g.code = k
    <3>1. sent'[d][k] \in HeldStates <=> sent[d][k] \in HeldStates
      BY <2>1, <2>2, <2>3
    <3>2. (\E g \in held'[d] : g.code = k) <=> \E h \in held[d] : h.code = k
      BY <1>0, <2>1, HeldKeyLemma
    <3> QED
      BY <1>0, <3>1, <3>2 DEF Matches
  <2>5. ASSUME NEW g \in held'[d], g.code = k
        PROVE  /\ g.last_fire = since'[d][k]
               /\ g.initial_fired <=> sent'[d][k] = "repeat"
    <3>1. PICK h \in held[d] : g = Fire(h)
      BY <2>1
    <3>2. h \in HeldKey /\ h.code = k
      BY <1>0, <2>5, <3>1, HeldKeyLemma
    <3>3. \A f \in held[d] : f.code = k =>
            /\ f.last_fire = since[d][k]
            /\ f.initial_fired <=> sent[d][k] = "repeat"
      BY <1>0 DEF Matches
    <3>4. repeats <=> Due(h)
      <4>1. ASSUME NEW f \in held[d], f.code = k, Due(f) PROVE Due(h)
        BY <3>2, <3>3, <4>1 DEF Due
      <4> QED
        BY <3>2, <4>1
    <3>5. CASE Due(h)
      <4>1. g.last_fire = 0 /\ g.initial_fired
        BY <3>1, <3>2, <3>5, HeldKeyLemma
      <4> HIDE DEF repeats
      <4> QED
        BY <2>1, <3>4, <3>5, <4>1
    <3>6. CASE ~ Due(h)
      <4>1. g = h
        BY <3>1, <3>2, <3>6, HeldKeyLemma
      <4> HIDE DEF repeats
      <4> QED
        BY <2>1, <3>2, <3>3, <3>4, <3>6, <4>1
    <3> QED
      BY <3>5, <3>6
  <2> QED
    BY <2>4, <2>5 DEF Matches
<1>5. ASSUME NEW e \in Keyboard, Fetch(e) PROVE Matches(d, k)'
  BY <1>1, <1>5 DEF Fetch, clientVars
<1>6. ASSUME NEW e \in Keyboard, RemoveDead(e) PROVE Matches(d, k)'
  <2>1. CASE e = d
    <3>1. held'[d] = {} /\ sent'[d][k] = "gone"
      BY <1>6, <2>1 DEF RemoveDead, TypeOK
    <3> QED
      BY <3>1 DEF Matches, HeldStates, Stream!HeldStates
  <2>2. CASE e # d
    <3>1. held'[d] = held[d] /\ sent'[d] = sent[d] /\ since'[d] = since[d]
      BY <1>6, <2>2 DEF RemoveDead, TypeOK
    <3> QED
      BY <1>0, <3>1 DEF Matches
  <2> QED
    BY <2>1, <2>2
<1>7. CASE ProcessKeyboardEvent
  <2> DEFINE ev == Head(pending[cur])
  <2>1. left > 0
    BY <1>7 DEF ProcessKeyboardEvent
  <2>2. cur \in Keyboard /\ ev.code \in Key
    BY <2>1, BatchHead
  <2>3. ASSUME NEW c \in Key, KeyDown(cur, c), sent[cur][c] \notin HeldStates
        PROVE  Matches(d, k)'
    <3> DEFINE new == [code |-> c, last_fire |-> 0, initial_fired |-> FALSE]
    <3>0. /\ held' = [held EXCEPT ![cur] = @ \cup {new}]
          /\ new.code = c /\ new.last_fire = 0 /\ new.initial_fired = FALSE
      BY <2>3 DEF KeyDown
    <3> HIDE DEF new
    <3>1. CASE cur = d /\ c = k
      <4>1. sent'[d][k] = "pressed" /\ since'[d][k] = 0
        BY <2>3, <3>1 DEF KeyDown, TypeOK
      <4>2. held'[d] = held[d] \cup {new}
        BY <3>0, <3>1 DEF TypeOK
      <4>3. \A h \in held[d] : h.code # k
        BY <1>0, <2>3, <3>1 DEF Matches
      <4> QED
        BY <3>0, <3>1, <4>1, <4>2, <4>3
        DEF Matches, HeldStates, Stream!HeldStates
    <3>2. CASE cur # d \/ c # k
      <4>1. sent'[d][k] = sent[d][k] /\ since'[d][k] = since[d][k]
        BY <2>2, <2>3, <3>2 DEF KeyDown, TypeOK
      <4>2. \A h : h.code = k => (h \in held'[d] <=> h \in held[d])
        BY <2>2, <3>0, <3>2 DEF TypeOK
      <4> QED
        BY <1>0, <4>1, <4>2 DEF Matches
    <3> QED
      BY <3>1, <3>2
  <2>4. ASSUME NEW c \in Key, KeyUp(cur, c) PROVE Matches(d, k)'
    <3>0. held' = [held EXCEPT ![cur] = {h \in @ : h.code # c}]
      BY <2>4 DEF KeyUp
    <3>1. CASE cur = d /\ c = k
      <4>1. sent'[d][k] = "released"
        BY <2>4, <3>1 DEF KeyUp, TypeOK
      <4>2. \A h \in held'[d] : h.code # k
        BY <3>0, <3>1 DEF TypeOK
      <4> QED
        BY <4>1, <4>2 DEF Matches, HeldStates, Stream!HeldStates
    <3>2. CASE cur # d \/ c # k
      <4>1. sent'[d][k] = sent[d][k] /\ since'[d][k] = since[d][k]
        BY <2>2, <2>4, <3>2 DEF KeyUp, TypeOK
      <4>2. \A h : h.code = k => (h \in held'[d] <=> h \in held[d])
        BY <2>2, <3>0, <3>2 DEF TypeOK
      <4> QED
        BY <1>0, <4>1, <4>2 DEF Matches
    <3> QED
      BY <3>1, <3>2
  <2>5. CASE KernelRepeatDropped
    BY <1>1, <2>5 DEF KernelRepeatDropped
  <2>6. CASE ev.value = 1 /\ KeyDown(cur, ev.code)
    <3>1. sent[cur][ev.code] \notin HeldStates
      BY <2>1, <2>6, HeadFits DEF HeldStates, Stream!HeldStates
    <3> QED
      BY <2>2, <2>3, <2>6, <3>1
  <2>7. CASE ev.value = 0 /\ KeyUp(cur, ev.code)
    BY <2>2, <2>4, <2>7
  <2> QED
    BY <1>7, <2>5, <2>6, <2>7 DEF ProcessKeyboardEvent
<1>8. CASE EndDrain
  BY <1>1, <1>8 DEF EndDrain, clientVars
<1>9. CASE UNCHANGED vars
  BY <1>1, <1>9 DEF vars
<1>10. CASE DrainStep
  BY <1>5, <1>6, <1>7, <1>8, <1>10 DEF DrainStep
<1> QED
  BY <1>2, <1>3, <1>4, <1>9, <1>10 DEF Next

LEMMA GoneIsUntrackedStep ==
  TypeOK /\ StreamsAlternate /\ HeldMatchesSent /\ GoneIsUntracked
    /\ [Next]_vars => GoneIsUntracked'
<1> SUFFICES ASSUME TypeOK, StreamsAlternate, HeldMatchesSent,
                    GoneIsUntracked, [Next]_vars,
                    NEW d \in Keyboard, NEW k \in Key
             PROVE  (sent[d][k] = "gone" <=> d \notin tracked)'
  BY DEF GoneIsUntracked
<1>0. sent[d][k] = "gone" <=> d \notin tracked
  BY DEF GoneIsUntracked
<1>1. CASE UNCHANGED <<sent, tracked>>
  BY <1>0, <1>1
<1>2. CASE Kernel
  BY <1>1, <1>2 DEF Kernel, KernelPress, KernelRelease, KernelAutorepeat,
                    Unplug, clientVars
<1>3. CASE Tick
  BY <1>1, <1>3 DEF Tick, Stream!Tick
<1>4. CASE Dispatch
  <2>1. (\E h \in held[d] : h.code = k) => sent[d][k] # "gone"
    BY DEF HeldMatchesSent, HeldStates, Stream!HeldStates
  <2>2. sent'[d][k] = "gone" <=> sent[d][k] = "gone"
    BY <1>4, <2>1 DEF Dispatch, EmitKeyRepeats
  <2> QED
    BY <1>0, <1>4, <2>2 DEF Dispatch
<1>5. ASSUME NEW e \in Keyboard, Fetch(e)
      PROVE  (sent[d][k] = "gone" <=> d \notin tracked)'
  BY <1>1, <1>5 DEF Fetch, clientVars
<1>6. ASSUME NEW e \in Keyboard, RemoveDead(e)
      PROVE  (sent[d][k] = "gone" <=> d \notin tracked)'
  BY <1>0, <1>6 DEF RemoveDead, TypeOK
<1>7. CASE ProcessKeyboardEvent
  <2> DEFINE ev == Head(pending[cur])
  <2>1. left > 0 /\ tracked' = tracked
    BY <1>7 DEF ProcessKeyboardEvent
  <2>2. cur \in Keyboard /\ cur \in tracked /\ ev.code \in Key
    BY <2>1, BatchHead
  <2> HIDE DEF ev
  <2>3. \/ KeyDown(cur, ev.code) \/ KeyUp(cur, ev.code)
        \/ KernelRepeatDropped
    BY <1>7 DEF ProcessKeyboardEvent, ev
  <2>4. sent'[d][k] # sent[d][k] =>
          d \in tracked /\ sent'[d][k] \in {"pressed", "released"}
    <3>1. CASE KeyDown(cur, ev.code)
      BY <2>2, <3>1 DEF KeyDown, TypeOK
    <3>2. CASE KeyUp(cur, ev.code)
      BY <2>2, <3>2 DEF KeyUp, TypeOK
    <3>3. CASE KernelRepeatDropped
      BY <3>3 DEF KernelRepeatDropped
    <3> QED
      BY <2>3, <3>1, <3>2, <3>3
  <2> QED
    BY <1>0, <2>1, <2>4
<1>8. CASE EndDrain
  BY <1>1, <1>8 DEF EndDrain, clientVars
<1>9. CASE UNCHANGED vars
  BY <1>1, <1>9 DEF vars
<1>10. CASE DrainStep
  BY <1>5, <1>6, <1>7, <1>8, <1>10 DEF DrainStep
<1> QED
  BY <1>2, <1>3, <1>4, <1>9, <1>10 DEF Next

LEMMA StreamsAlternateStep ==
  TypeOK /\ StreamsAlternate /\ HeldMatchesSent /\ GoneIsUntracked
    /\ [Next]_vars => StreamsAlternate'
<1> DEFINE Alt(d, k) == Alternates(pending[d], k, sent[d][k], k \in down[d])
<1> SUFFICES ASSUME TypeOK, StreamsAlternate, HeldMatchesSent,
                    GoneIsUntracked, [Next]_vars
             PROVE  StreamsAlternate'
  OBVIOUS
<1>a. tracked' \subseteq Keyboard
  BY TypeStep DEF TypeOK
<1> SUFFICES ASSUME NEW d \in Keyboard, NEW k \in Key, d \in tracked'
             PROVE  Alt(d, k)'
  BY <1>a DEF StreamsAlternate
<1>0. /\ pending[d] \in Seq(KeyEvent)
      /\ sent[d][k] \in {"none", "pressed", "repeat", "released", "gone"}
  BY DEF TypeOK
<1>1. ASSUME d \in tracked, UNCHANGED <<down, pending, sent>>
      PROVE  Alt(d, k)'
  BY <1>1 DEF StreamsAlternate
\* The kernel's three ways to queue an event for a device.
<1>2. ASSUME d \in tracked, NEW e \in Keyboard, NEW c \in Key, NEW v \in 0..2,
             Queue(e, c, v), sent' = sent, e # d \/ c # k \/ v = 2,
             (k \in down'[d]) = (k \in down[d])
      PROVE  Alt(d, k)'
  <2>1. Alt(d, k)
    BY <1>2 DEF StreamsAlternate
  <2>2. CASE e # d
    <3>1. pending'[d] = pending[d]
      BY <1>2, <2>2 DEF Queue, TypeOK
    <3> QED
      BY <1>2, <2>1, <3>1
  <2>3. CASE e = d
    <3> DEFINE ev == [code |-> c, value |-> v]
    <3>1. pending'[d] = Append(pending[d], ev)
      BY <1>2, <2>3 DEF Queue, TypeOK
    <3>2. ev \in KeyEvent /\ ev.code = c /\ ev.value = v
      BY DEF KeyEvent
    <3> HIDE DEF ev
    <3>3. Alternates(Append(pending[d], ev), k, sent[d][k], k \in down[d])
      <4> DEFINE dn == k \in down[d]
      <4>1. dn \in BOOLEAN /\ Alternates(pending[d], k, sent[d][k], dn)
        BY <2>1
      <4> HIDE DEF dn
      <4>2. Alternates(Append(pending[d], ev), k, sent[d][k], dn)
        BY <1>0, <1>2, <2>3, <3>2, <4>1, AlternatesAppendOther
      <4> QED
        BY <4>2 DEF dn
    <3> QED
      BY <1>2, <3>1, <3>3
  <2> QED
    BY <2>2, <2>3
<1>3. ASSUME d \in tracked, NEW v \in {0, 1}, Queue(d, k, v), sent' = sent,
             (k \in down[d]) <=> v = 0, (k \in down'[d]) <=> v = 1
      PROVE  Alt(d, k)'
  <2>1. Alt(d, k) /\ sent[d][k] # "gone"
    BY <1>3 DEF StreamsAlternate, GoneIsUntracked
  <2>2. pending'[d] = Append(pending[d], [code |-> k, value |-> v])
    BY <1>3 DEF Queue, TypeOK
  <2>3. Alternates(Append(pending[d], [code |-> k, value |-> v]),
                   k, sent[d][k], k \in down'[d])
    <3> DEFINE dn == k \in down[d]
               dn2 == k \in down'[d]
    <3>1. /\ dn \in BOOLEAN /\ Alternates(pending[d], k, sent[d][k], dn)
          /\ dn2 \in BOOLEAN /\ (dn <=> v = 0) /\ (dn2 <=> v = 1)
      BY <1>3, <2>1
    <3> HIDE DEF dn, dn2
    <3>2. Alternates(Append(pending[d], [code |-> k, value |-> v]),
                     k, sent[d][k], dn2)
      BY <1>0, <2>1, <3>1, AlternatesAppendToggle
    <3> QED
      BY <3>2 DEF dn2
  <2> QED
    BY <1>3, <2>2, <2>3
<1>4. ASSUME NEW e \in Keyboard, NEW c \in Key, KernelPress(e, c)
      PROVE  Alt(d, k)'
  <2>1. /\ d \in tracked /\ sent' = sent /\ Queue(e, c, 1)
        /\ c \notin down[e] /\ down' = [down EXCEPT ![e] = @ \cup {c}]
    BY <1>4 DEF KernelPress, clientVars
  <2>2. CASE e = d /\ c = k
    <3>1. k \notin down[d] /\ k \in down'[d]
      BY <2>1, <2>2 DEF TypeOK
    <3> QED
      BY <1>3, <2>1, <2>2, <3>1
  <2>3. CASE e # d \/ c # k
    <3>1. (k \in down'[d]) = (k \in down[d])
      BY <2>1, <2>3 DEF TypeOK
    <3> QED
      BY <1>2, <2>1, <2>3, <3>1
  <2> QED
    BY <2>2, <2>3
<1>5. ASSUME NEW e \in Keyboard, NEW c \in Key, KernelRelease(e, c)
      PROVE  Alt(d, k)'
  <2>1. /\ d \in tracked /\ sent' = sent /\ Queue(e, c, 0)
        /\ c \in down[e] /\ down' = [down EXCEPT ![e] = @ \ {c}]
    BY <1>5 DEF KernelRelease, clientVars
  <2>2. CASE e = d /\ c = k
    <3>1. k \in down[d] /\ k \notin down'[d]
      BY <2>1, <2>2 DEF TypeOK
    <3> QED
      BY <1>3, <2>1, <2>2, <3>1
  <2>3. CASE e # d \/ c # k
    <3>1. (k \in down'[d]) = (k \in down[d])
      BY <2>1, <2>3 DEF TypeOK
    <3> QED
      BY <1>2, <2>1, <2>3, <3>1
  <2> QED
    BY <2>2, <2>3
<1>6. ASSUME NEW e \in Keyboard, KernelAutorepeat(e) PROVE Alt(d, k)'
  <2>1. /\ d \in tracked /\ sent' = sent /\ down' = down
        /\ softrep[e] \in Key /\ Queue(e, softrep[e], 2)
    BY <1>6 DEF KernelAutorepeat, TypeOK, clientVars
  <2> QED
    BY <1>2, <2>1
<1>7. ASSUME NEW e \in Keyboard, Unplug(e) PROVE Alt(d, k)'
  BY <1>1, <1>7 DEF Unplug, clientVars
<1>8. CASE Tick
  BY <1>1, <1>8 DEF Tick, Stream!Tick, kernelVars
<1>9. CASE Dispatch
  <2>1. /\ d \in tracked /\ pending' = pending /\ down' = down
    BY <1>9 DEF Dispatch, kernelVars
  <2>2. Alternates(pending[d], k, sent[d][k], k \in down[d])
    BY <2>1 DEF StreamsAlternate
  <2>3. CASE sent'[d][k] = sent[d][k]
    BY <2>1, <2>2, <2>3
  <2>4. CASE sent'[d][k] # sent[d][k]
    <3>1. sent'[d][k] = "repeat" /\ sent[d][k] \in HeldStates
      BY <1>9, <2>4 DEF Dispatch, EmitKeyRepeats, HeldMatchesSent
    <3>2. Alternates(pending[d], k, "repeat", k \in down[d])
      BY <2>2, <3>1
      DEF Alternates, FirstToggleFits, CaughtUp, HeldStates, Stream!HeldStates
    <3> QED
      BY <2>1, <3>1, <3>2
  <2> QED
    BY <2>3, <2>4
<1>10. ASSUME NEW e \in Keyboard, Fetch(e) PROVE Alt(d, k)'
  BY <1>1, <1>10 DEF Fetch, kernelVars, clientVars
<1>11. ASSUME NEW e \in Keyboard, RemoveDead(e) PROVE Alt(d, k)'
  <2>1. /\ d \in tracked /\ pending' = pending /\ down' = down
        /\ sent'[d] = sent[d]
    BY <1>11 DEF RemoveDead, kernelVars, TypeOK
  <2> QED
    BY <2>1 DEF StreamsAlternate
<1>12. CASE ProcessKeyboardEvent
  <2> DEFINE c == Head(pending[cur]).code
             v == Head(pending[cur]).value
             q == pending[cur]
  <2>1. left > 0 /\ tracked' = tracked /\ down' = down
    BY <1>12 DEF ProcessKeyboardEvent
  <2>2. /\ cur \in Keyboard /\ cur \in tracked /\ c \in Key /\ v \in 0..2
        /\ q \in Seq(KeyEvent) /\ q # <<>> /\ c = q[1].code /\ v = q[1].value
        /\ 1 \in 1..Len(q)
    BY <2>1, BatchHead
  <2>3. /\ \/ v = 1 /\ KeyDown(cur, c)
           \/ v = 0 /\ KeyUp(cur, c)
           \/ v = 2 /\ KernelRepeatDropped
        /\ pending' = [pending EXCEPT ![cur] = Tail(q)]
    BY <1>12 DEF ProcessKeyboardEvent
  <2> HIDE DEF c, v, q
  <2>4. Alternates(pending[d], k, sent[d][k], k \in down[d])
    BY <2>1 DEF StreamsAlternate
  <2>5. CASE d # cur
    <3>1. pending'[d] = pending[d] /\ sent'[d] = sent[d]
      BY <2>2, <2>3, <2>5
      DEF KeyDown, KeyUp, KernelRepeatDropped, TypeOK
    <3> QED
      BY <2>1, <2>4, <3>1
  <2>6. CASE d = cur /\ (c # k \/ v = 2)
    <3>1. pending'[d] = Tail(q)
      BY <2>2, <2>3, <2>6 DEF TypeOK
    <3>2. sent'[d][k] = sent[d][k]
      BY <2>2, <2>3, <2>6 DEF KeyDown, KeyUp, KernelRepeatDropped, TypeOK
    <3>3. ~ ToggleAt(q, k, 1)
      BY <2>2, <2>6 DEF ToggleAt
    <3>4. Alternates(Tail(q), k, sent[d][k], k \in down[d])
      <4> DEFINE dn == k \in down[d]
      <4>1. dn \in BOOLEAN /\ Alternates(q, k, sent[d][k], dn)
        BY <2>4, <2>6 DEF q
      <4> HIDE DEF dn
      <4>2. Alternates(Tail(q), k, sent[d][k], dn)
        BY <2>2, <3>3, <4>1, AlternatesTailOther
      <4> QED
        BY <4>2 DEF dn
    <3> QED
      BY <2>1, <3>1, <3>2, <3>4
  <2>7. CASE d = cur /\ c = k /\ v \in {0, 1}
    <3>1. pending'[d] = Tail(q)
      BY <2>2, <2>3, <2>7 DEF TypeOK
    <3>2. sent'[d][k] = IF v = 1 THEN "pressed" ELSE "released"
      BY <2>2, <2>3, <2>7 DEF KeyDown, KeyUp, TypeOK
    <3>3. ToggleAt(q, k, 1)
      BY <2>2, <2>7 DEF ToggleAt
    <3> DEFINE dn == k \in down[d]
    <3>4. dn \in BOOLEAN /\ Alternates(q, k, sent[d][k], dn)
      BY <2>4, <2>7 DEF q
    <3> HIDE DEF dn
    <3>5. Alternates(Tail(q), k, sent'[d][k], dn)
      BY <2>2, <2>7, <3>2, <3>3, <3>4, AlternatesTailToggle
    <3> QED
      BY <2>1, <3>1, <3>5 DEF dn
  <2> QED
    BY <2>2, <2>5, <2>6, <2>7
<1>13. CASE EndDrain
  BY <1>1, <1>13 DEF EndDrain, kernelVars, clientVars
<1>14. CASE UNCHANGED vars
  BY <1>1, <1>14 DEF vars
<1>15. CASE Kernel
  BY <1>4, <1>5, <1>6, <1>7, <1>15 DEF Kernel
<1>16. CASE DrainStep
  BY <1>10, <1>11, <1>12, <1>13, <1>16 DEF DrainStep
<1> QED
  BY <1>8, <1>9, <1>14, <1>15, <1>16 DEF Next

-----------------------------------------------------------------------------
(* The theorems. *)

LEMMA InvInit == Init => KeyboardInv
<1> SUFFICES ASSUME Init PROVE KeyboardInv
  OBVIOUS
<1>1. TypeOK
  <2>1. /\ DwtTimeout \in 0..DwtTimeout /\ 0 \in 0..Cap
        /\ <<>> \in Seq(KeyEvent)
    BY KeyboardAssumption, CapLemma
  <2>2. /\ softrep \in [Keyboard -> Key \cup {None}]
        /\ pending \in [Keyboard -> Seq(KeyEvent)]
        /\ held \in [Keyboard -> SUBSET HeldKey]
    BY <2>1 DEF Init
  <2>3. /\ sent \in [Keyboard -> [Key -> {"none", "pressed", "repeat",
                                          "released", "gone"}]]
        /\ since \in [Keyboard -> [Key -> 0..Cap]]
    BY <2>1 DEF Init
  <2>4. /\ down \in [Keyboard -> SUBSET Key]
        /\ plugged = Keyboard /\ tracked = Keyboard /\ typing = DwtTimeout
        /\ draining = FALSE /\ fds = {} /\ cur = None /\ left = 0
        /\ dead_fds = {}
    BY DEF Init
  <2>5. /\ plugged \in SUBSET Keyboard /\ tracked \in SUBSET Keyboard
        /\ typing \in 0..DwtTimeout /\ draining \in BOOLEAN
        /\ fds \in SUBSET tracked /\ cur \in Keyboard \cup {None}
        /\ dead_fds \in SUBSET (tracked \ plugged)
    BY <2>1, <2>4
  <2>6. left \in Nat /\ ~ (left > 0)
    BY <2>4
  <2> QED
    BY <2>2, <2>3, <2>4, <2>5, <2>6 DEF TypeOK
<1>2. HeldMatchesSent /\ GoneIsUntracked
  BY DEF Init, HeldMatchesSent, GoneIsUntracked, HeldStates, Stream!HeldStates
<1>3. StreamsAlternate
  BY DEF Init, StreamsAlternate, Alternates, FirstToggleFits,
         NextToggleDiffers, LastToggleFits, CaughtUp, HeldStates,
         Stream!HeldStates
<1> QED
  BY <1>1, <1>2, <1>3 DEF KeyboardInv

\* The inductive invariant: types, held_keys = what the client holds, and the
\* alternation of every key between the client, the queue and the hardware.
THEOREM KeyboardInvariant == Spec => []KeyboardInv
<1>1. KeyboardInv /\ [Next]_vars => KeyboardInv'
  BY TypeStep, HeldMatchesSentStep, GoneIsUntrackedStep, StreamsAlternateStep
  DEF KeyboardInv
<1> QED
  BY InvInit, <1>1, PTL DEF Spec

\* Every variable of the keyboard path keeps its type.
THEOREM KeyboardTypes == Spec => []TypeOK
<1>1. KeyboardInv => TypeOK
  BY DEF KeyboardInv
<1> QED
  BY KeyboardInvariant, <1>1, PTL

\* held_keys is what the client believes to be held, ages included: no key
\* repeats for ever after its release, none stops repeating while it is held.
THEOREM HeldKeysAreTheClients == Spec => []HeldMatchesSent
<1>1. KeyboardInv => HeldMatchesSent
  BY DEF KeyboardInv
<1> QED
  BY KeyboardInvariant, <1>1, PTL

\* When the queue holds no change of a key, client and hardware agree on it.
THEOREM NoKeyEventIsLost == Spec => []ClientCatchesUp
<1>1. KeyboardInv => ClientCatchesUp
  BY DEF KeyboardInv, StreamsAlternate, Alternates, ClientCatchesUp, TypeOK
<1> QED
  BY KeyboardInvariant, <1>1, PTL

\* A step of the keyboard path is a step of the promised stream or none.
LEMMA StreamStep ==
  KeyboardInv /\ [Next]_vars => [Stream!Next]_(Stream!streamVars)
<1> SUFFICES ASSUME KeyboardInv, [Next]_vars
             PROVE  Stream!Next \/ UNCHANGED <<sent, since>>
  BY DEF Stream!streamVars
<1> USE DEF KeyboardInv
<1>1. CASE Kernel
  BY <1>1 DEF Kernel, KernelPress, KernelRelease, KernelAutorepeat, Unplug,
              clientVars
<1>2. CASE Tick
  BY <1>2 DEF Tick, Stream!Next
<1>3. CASE Dispatch
  <2> DEFINE S == {p \in Keyboard \X Key :
                     \E h \in held[p[1]] : h.code = p[2] /\ Due(h)}
  <2>1. \A d \in Keyboard, k \in Key :
          <<d, k>> \in S <=> \E h \in held[d] : h.code = k /\ Due(h)
    OBVIOUS
  <2>2. ASSUME NEW p \in S
        PROVE  /\ sent[p[1]][p[2]] \in HeldStates
               /\ since[p[1]][p[2]] >= Stream!Wait(sent[p[1]][p[2]])
    <3>1. p[1] \in Keyboard /\ p[2] \in Key
      OBVIOUS
    <3>2. PICK h \in held[p[1]] : h.code = p[2] /\ Due(h)
      OBVIOUS
    <3>3. /\ sent[p[1]][p[2]] \in HeldStates
          /\ h.last_fire = since[p[1]][p[2]]
          /\ h.initial_fired <=> sent[p[1]][p[2]] = "repeat"
      BY <3>1, <3>2 DEF HeldMatchesSent
    <3> QED
      BY <3>2, <3>3 DEF Due, Stream!Wait
  <2>3. S \in SUBSET (Keyboard \X Key)
    OBVIOUS
  <2> HIDE DEF S
  <2>4. /\ sent' = [d \in Keyboard |-> [k \in Key |->
                      IF <<d, k>> \in S THEN "repeat" ELSE sent[d][k]]]
        /\ since' = [d \in Keyboard |-> [k \in Key |->
                      IF <<d, k>> \in S THEN 0 ELSE since[d][k]]]
    BY <1>3, <2>1 DEF Dispatch, EmitKeyRepeats
  <2>5. Stream!Repeat(S)
    BY <2>2, <2>4 DEF Stream!Repeat, HeldStates
  <2> QED
    BY <2>3, <2>5 DEF Stream!Next
<1>4. ASSUME NEW d \in Keyboard, Fetch(d) PROVE UNCHANGED <<sent, since>>
  BY <1>4 DEF Fetch, clientVars
<1>5. ASSUME NEW d \in Keyboard, RemoveDead(d) PROVE Stream!Next
  BY <1>5 DEF RemoveDead, Stream!Remove, Stream!Next
<1>6. CASE ProcessKeyboardEvent
  <2> DEFINE c == Head(pending[cur]).code
             v == Head(pending[cur]).value
  <2>1. left > 0
    BY <1>6 DEF ProcessKeyboardEvent
  <2>2. cur \in Keyboard /\ c \in Key
    BY <2>1, BatchHead
  <2>3. /\ v = 1 => sent[cur][c] \in {"none", "released"}
        /\ v = 0 => sent[cur][c] \in {"none"} \cup HeldStates
    BY <2>1, HeadFits
  <2>4. \/ v = 1 /\ KeyDown(cur, c)
        \/ v = 0 /\ KeyUp(cur, c)
        \/ v = 2 /\ KernelRepeatDropped
    BY <1>6 DEF ProcessKeyboardEvent
  <2> HIDE DEF c, v
  <2>5. CASE v = 1 /\ KeyDown(cur, c)
    <3>1. Stream!Press(cur, c)
      BY <2>3, <2>5 DEF KeyDown, Stream!Press
    <3> QED
      BY <2>2, <3>1 DEF Stream!Next
  <2>6. CASE v = 0 /\ KeyUp(cur, c)
    <3>1. Stream!Release(cur, c)
      BY <2>3, <2>6 DEF KeyUp, Stream!Release, HeldStates
    <3> QED
      BY <2>2, <3>1 DEF Stream!Next
  <2>7. CASE v = 2 /\ KernelRepeatDropped
    BY <2>7 DEF KernelRepeatDropped
  <2> QED
    BY <2>4, <2>5, <2>6, <2>7
<1>7. CASE EndDrain
  BY <1>7 DEF EndDrain, clientVars
<1>8. CASE UNCHANGED vars
  BY <1>8 DEF vars
<1>9. CASE DrainStep
  BY <1>4, <1>5, <1>6, <1>7, <1>9 DEF DrainStep
<1> QED
  BY <1>1, <1>2, <1>3, <1>8, <1>9 DEF Next

\* The keyboard path implements KeyStream: what compositors are sent is, key
\* by key, PRESSED REPEAT* RELEASED with the documented spacing of repeats.
THEOREM KeyboardImplementsKeyStream == Spec => Refines
<1>1. Init => Stream!Init
  BY DEF Init, Stream!Init
<1>2. KeyboardInv /\ [Next]_vars => [Stream!Next]_(Stream!streamVars)
  BY StreamStep
<1> QED
  BY <1>1, <1>2, KeyboardInvariant, PTL DEF Spec, Refines, Stream!Spec
=============================================================================
