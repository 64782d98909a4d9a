--------------------------- MODULE DaemonKeysProofs ---------------------------
(***************************************************************************)
(* Proofs, for any keyboards, keys, batches and queues, that the modifier  *)
(* flags of DaemonKeys stand for held keys, so that a reset needs its      *)
(* chord, and that DWT is measured from the last key press as long as one  *)
(* keyboard is used.                                                       *)
(***************************************************************************)
EXTENDS DaemonKeys, SequenceTheorems, TLAPS

(***************************************************************************)
(* What follows from a stream of frames about one key, when the kernel     *)
(* appends a frame and when the daemon takes the oldest.                   *)
(***************************************************************************)

LEMMA HeldFromTail ==
  ASSUME NEW s \in Seq(KeyEvents), s # <<>>, NEW key, NEW d \in BOOLEAN,
         NEW i \in 1..Len(s)
  PROVE  HeldFrom(Tail(s), i, key, d) <=> HeldFrom(s, i + 1, key, d)
<1> DEFINE t == Tail(s)
<1>1. /\ Len(s) \in Nat \ {0} /\ Len(t) = Len(s) - 1
      /\ \A j \in 1..Len(t) : t[j] = s[j + 1]
  BY HeadTailProperties, EmptySeq
<1> HIDE DEF t
<1>2. ASSUME HeldFrom(s, i + 1, key, d)
      PROVE  HeldFrom(t, i, key, d)
  <2>1. ASSUME NEW j \in i..Len(t), t[j].key = key, t[j].value = 1
        PROVE  \E l \in i..j - 1 : t[l].key = key
    <3>1. j + 1 \in i + 1..Len(s) /\ s[j + 1] = t[j]
      BY <1>1
    <3>2. PICK l \in i + 1..j : s[l].key = key
      BY <1>2, <2>1, <3>1 DEF HeldFrom
    <3>3. l - 1 \in i..j - 1 /\ t[l - 1] = s[l]
      BY <1>1, <3>2
    <3> QED
      BY <3>2, <3>3
  <2>2. ASSUME \A j \in i..Len(t) : t[j].key # key
        PROVE  d
    <3>1. ASSUME NEW j \in i + 1..Len(s) PROVE s[j].key # key
      <4>1. j - 1 \in i..Len(t) /\ t[j - 1] = s[j]
        BY <1>1
      <4> QED
        BY <4>1, <2>2
    <3> QED
      BY <3>1, <1>2 DEF HeldFrom
  <2> QED
    BY <2>1, <2>2 DEF HeldFrom
<1>3. ASSUME HeldFrom(t, i, key, d)
      PROVE  HeldFrom(s, i + 1, key, d)
  <2>1. ASSUME NEW j \in i + 1..Len(s), s[j].key = key, s[j].value = 1
        PROVE  \E l \in i + 1..j - 1 : s[l].key = key
    <3>1. j - 1 \in i..Len(t) /\ t[j - 1] = s[j]
      BY <1>1
    <3>2. PICK l \in i..j - 2 : t[l].key = key
      BY <1>3, <2>1, <3>1 DEF HeldFrom
    <3>3. l + 1 \in i + 1..j - 1 /\ t[l] = s[l + 1]
      BY <1>1, <3>2
    <3> QED
      BY <3>2, <3>3
  <2>2. ASSUME \A j \in i + 1..Len(s) : s[j].key # key
        PROVE  d
    <3>1. ASSUME NEW j \in i..Len(t) PROVE t[j].key # key
      <4>1. j + 1 \in i + 1..Len(s) /\ t[j] = s[j + 1]
        BY <1>1
      <4> QED
        BY <4>1, <2>2
    <3> QED
      BY <3>1, <1>3 DEF HeldFrom
  <2> QED
    BY <2>1, <2>2 DEF HeldFrom
<1> QED
  BY <1>2, <1>3 DEF t

\* The rest of a stream that fits does.
LEMMA FitsTail ==
  ASSUME NEW s \in Seq(KeyEvents), s # <<>>, NEW key, NEW d \in BOOLEAN,
         Fits(s, key, d)
  PROVE  Fits(Tail(s), key, d)
<1> DEFINE t == Tail(s)
<1>1. /\ t \in Seq(KeyEvents)
      /\ Len(s) \in Nat \ {0} /\ Len(t) = Len(s) - 1
      /\ \A j \in 1..Len(t) : t[j] = s[j + 1]
  BY HeadTailProperties, EmptySeq
<1>2. ASSUME NEW i \in 1..Len(t), t[i].key = key, t[i].value # 0
      PROVE  HeldFrom(t, i + 1, key, d)
  <2>1. i + 1 \in 1..Len(s) /\ s[i + 1] = t[i]
    BY <1>1
  <2>2. HeldFrom(s, (i + 1) + 1, key, d)
    BY <2>1, <1>2 DEF Fits
  <2> QED
    BY <2>1, <2>2, HeldFromTail
<1> HIDE DEF t
<1> QED
  BY <1>2 DEF Fits, t

\* A key that the oldest frame does not release is held by the rest, if it was
\* held or the frame is about it.
LEMMA HeldAfterHead ==
  ASSUME NEW s \in Seq(KeyEvents), s # <<>>, NEW key, NEW d \in BOOLEAN,
         Fits(s, key, d),
         IF Head(s).key = key THEN Head(s).value # 0 ELSE HeldFrom(s, 1, key, d)
  PROVE  HeldFrom(Tail(s), 1, key, d)
<1>1. Len(s) \in Nat \ {0} /\ Head(s) = s[1]
  BY EmptySeq, HeadTailProperties
<1>2. CASE Head(s).key = key
  BY <1>1, <1>2, HeldFromTail DEF Fits
<1>3. CASE Head(s).key # key
  <2>1. HeldFrom(s, 1, key, d)
    BY <1>3
  <2>2. ASSUME NEW j \in 2..Len(s), s[j].key = key, s[j].value = 1
        PROVE  \E l \in 2..j - 1 : s[l].key = key
    <3>1. PICK l \in 1..j - 1 : s[l].key = key
      BY <2>1, <2>2, <1>1 DEF HeldFrom
    <3>2. l # 1
      BY <3>1, <1>1, <1>3
    <3> QED
      BY <3>1, <3>2
  <2>3. ASSUME \A j \in 2..Len(s) : s[j].key # key
        PROVE  d
    <3>1. \A j \in 1..Len(s) : s[j].key # key
      BY <2>3, <1>1, <1>3
    <3> QED
      BY <3>1, <2>1 DEF HeldFrom
  <2>4. HeldFrom(s, 1 + 1, key, d)
    BY <2>2, <2>3 DEF HeldFrom
  <2> QED
    BY <2>4, <1>1, HeldFromTail
<1> QED
  BY <1>2, <1>3

\* A frame the kernel appends, from d to d2.
Follows(e, key, d, d2) ==
  /\ e.key # key => d2 = d
  /\ (e.key = key /\ e.value = 1) => ~d
  /\ (e.key = key /\ e.value # 0) => d2

LEMMA HeldAppend ==
  ASSUME NEW s \in Seq(KeyEvents), NEW e \in KeyEvents, NEW key,
         NEW d \in BOOLEAN, NEW d2 \in BOOLEAN, Follows(e, key, d, d2),
         NEW i \in 1..Len(s) + 1, HeldFrom(s, i, key, d)
  PROVE  HeldFrom(Append(s, e), i, key, d2)
<1> DEFINE t == Append(s, e)
<1>1. /\ Len(s) \in Nat /\ Len(t) = Len(s) + 1
      /\ \A j \in 1..Len(s) : t[j] = s[j]
      /\ t[Len(s) + 1] = e
  BY AppendProperties
<1> HIDE DEF t
<1>2. ASSUME NEW j \in i..Len(t), t[j].key = key, t[j].value = 1
      PROVE  \E l \in i..j - 1 : t[l].key = key
  <2>1. CASE j \in 1..Len(s)
    <3>1. PICK l \in i..j - 1 : s[l].key = key
      BY <1>1, <1>2, <2>1 DEF HeldFrom
    <3> QED
      BY <3>1, <2>1, <1>1
  <2>2. CASE j = Len(s) + 1
    <3>1. ~d
      BY <1>1, <1>2, <2>2 DEF Follows
    <3>2. PICK l \in i..Len(s) : s[l].key = key
      BY <3>1 DEF HeldFrom
    <3> QED
      BY <3>2, <2>2, <1>1
  <2> QED
    BY <2>1, <2>2, <1>1
<1>3. ASSUME \A j \in i..Len(t) : t[j].key # key
      PROVE  d2
  <2>1. e.key # key
    BY <1>1, <1>3
  <2>2. \A j \in i..Len(s) : s[j].key # key
    BY <1>1, <1>3
  <2>3. d
    BY <2>2 DEF HeldFrom
  <2> QED
    BY <2>1, <2>3 DEF Follows
<1> QED
  BY <1>2, <1>3 DEF HeldFrom, t

LEMMA FitsAppend ==
  ASSUME NEW s \in Seq(KeyEvents), NEW e \in KeyEvents, NEW key,
         NEW d \in BOOLEAN, NEW d2 \in BOOLEAN, Follows(e, key, d, d2),
         Fits(s, key, d)
  PROVE  Fits(Append(s, e), key, d2)
<1> DEFINE t == Append(s, e)
<1>1. /\ Len(s) \in Nat /\ Len(t) = Len(s) + 1
      /\ \A j \in 1..Len(s) : t[j] = s[j]
      /\ t[Len(s) + 1] = e
  BY AppendProperties
<1>2. ASSUME NEW i \in 1..Len(t), t[i].key = key, t[i].value # 0
      PROVE  HeldFrom(t, i + 1, key, d2)
  <2>1. CASE i \in 1..Len(s)
    <3>1. HeldFrom(s, i + 1, key, d)
      BY <1>1, <1>2, <2>1 DEF Fits
    <3> QED
      BY <3>1, <2>1, <1>1, HeldAppend
  <2>2. CASE i = Len(s) + 1
    <3>1. d2
      BY <1>1, <1>2, <2>2 DEF Follows
    <3>2. i + 1..Len(t) = {}
      BY <1>1, <2>2
    <3> QED
      BY <3>1, <3>2 DEF HeldFrom
  <2> QED
    BY <2>1, <2>2, <1>1
<1> HIDE DEF t
<1> QED
  BY <1>2 DEF Fits, t
-----------------------------------------------------------------------------
(* The unprocessed frames of a keyboard, step by step. *)

LEMMA UnprocessedType ==
  ASSUME TypeOK, NEW k \in Keyboards
  PROVE  Unprocessed(k) \in Seq(KeyEvents)
<1>1. pending[k] \in Seq(KeyEvents) /\ evs \in Seq(KeyEvents)
  BY DEF TypeOK
<1>2. (IF cur = k THEN evs ELSE <<>>) \in Seq(KeyEvents)
  BY <1>1
<1> QED
  BY <1>1, <1>2, ConcatProperties DEF Unprocessed

\* The kernel appends to the queue of one keyboard.
LEMMA UnprocessedKey ==
  ASSUME TypeOK, NEW k \in Keyboards, NEW e \in KeyEvents,
         pending' = [pending EXCEPT ![k] = Append(@, e)],
         UNCHANGED <<cur, evs>>
  PROVE  /\ Unprocessed(k)' = Append(Unprocessed(k), e)
         /\ \A j \in Keyboards \ {k} : Unprocessed(j)' = Unprocessed(j)
<1> DEFINE batch == IF cur = k THEN evs ELSE <<>>
<1>1. /\ pending \in [Keyboards -> Seq(KeyEvents)] /\ pending[k] \in Seq(KeyEvents)
      /\ batch \in Seq(KeyEvents)
      /\ <<e>> \in Seq(KeyEvents)
  BY DEF TypeOK
<1>2. pending'[k] = Append(pending[k], e)
  BY <1>1
<1>3. Unprocessed(k) = batch \o pending[k] /\ Unprocessed(k)' = batch \o pending'[k]
  BY DEF Unprocessed
<1> HIDE DEF batch
<1>4. Append(pending[k], e) = pending[k] \o <<e>>
  BY <1>1, AppendIsConcat
<1>5. batch \o (pending[k] \o <<e>>) = (batch \o pending[k]) \o <<e>>
  BY <1>1, ConcatAssociative
<1>6. Unprocessed(k) \in Seq(KeyEvents)
  BY UnprocessedType
<1>7. Unprocessed(k)' = Append(Unprocessed(k), e)
  BY <1>2, <1>3, <1>4, <1>5, <1>6, AppendIsConcat
<1>8. \A j \in Keyboards \ {k} : Unprocessed(j)' = Unprocessed(j)
  BY <1>1 DEF Unprocessed
<1> QED
  BY <1>7, <1>8

\* A batch is the beginning of a queue.
LEMMA UnprocessedFetch ==
  ASSUME TypeOK, NEW k \in Keyboards, Fetch(k), NEW j \in Keyboards
  PROVE  Unprocessed(j)' = Unprocessed(j)
<1> USE DaemonKeysAssumption
<1>1. cur = None /\ cur' = k /\ None \notin Keyboards
  BY DEF Fetch
<1>2. /\ pending \in [Keyboards -> Seq(KeyEvents)]
      /\ pending[j] \in Seq(KeyEvents)
  BY DEF TypeOK
<1>3. Unprocessed(j) = <<>> \o pending[j]
  BY <1>1 DEF Unprocessed
<1>4. Unprocessed(j) = pending[j]
  BY <1>2, <1>3, ConcatEmptySeq
<1>5. CASE j # k
  <2>1. pending'[j] = pending[j] /\ Unprocessed(j)' = <<>> \o pending'[j]
    BY <1>1, <1>2, <1>5 DEF Fetch, Unprocessed
  <2> QED
    BY <1>3, <2>1
<1>6. CASE j = k
  <2> DEFINE p == pending[k]
             n == IF Len(p) < BatchSize THEN Len(p) ELSE BatchSize
  <2>1. /\ p \in Seq(KeyEvents) /\ Len(p) \in Nat /\ BatchSize \in Nat
        /\ n \in 0..Len(p)
    BY <1>2, <1>6
  <2>2. evs' = SubSeq(p, 1, n) /\ pending'[k] = SubSeq(p, n + 1, Len(p))
    BY <1>2 DEF Fetch
  <2>3. Unprocessed(j)' = SubSeq(p, 1, n) \o SubSeq(p, n + 1, Len(p))
    BY <1>1, <1>6, <2>2 DEF Unprocessed
  <2> HIDE DEF n, p
  <2>4. SubSeq(p, 1, n) \o SubSeq(p, n + 1, Len(p)) = SubSeq(p, 1, Len(p))
    <3>1. 1 \in 1..Len(p) + 1 /\ n \in 1 - 1..Len(p) /\ Len(p) \in n..Len(p)
      BY <2>1
    <3> QED
      BY <2>1, <3>1, ConcatAdjacentSubSeq
  <2>5. SubSeq(p, 1, Len(p)) = p
    BY <2>1, SubSeqFull
  <2> QED
    BY <1>4, <1>6, <2>3, <2>4, <2>5 DEF p
<1> QED
  BY <1>5, <1>6

\* Processing an event takes the head of its keyboard's stream.
LEMMA UnprocessedProcess ==
  ASSUME TypeOK, ProcessEvent
  PROVE  /\ cur \in Keyboards /\ cur' = cur
         /\ Unprocessed(cur) # <<>>
         /\ Head(evs) = Head(Unprocessed(cur))
         /\ Unprocessed(cur)' = Tail(Unprocessed(cur))
         /\ \A j \in Keyboards \ {cur} : Unprocessed(j)' = Unprocessed(j)
<1>1. /\ evs # <<>> /\ evs' = Tail(evs) /\ UNCHANGED <<down, pending, cur>>
      /\ cur \in Keyboards
      /\ evs \in Seq(KeyEvents) /\ pending[cur] \in Seq(KeyEvents)
  BY DEF ProcessEvent, TypeOK
<1> DEFINE p == pending[cur]
           u == evs \o p
           v == Tail(evs) \o p
<1>2. Unprocessed(cur) = u /\ Unprocessed(cur)' = v
  BY <1>1 DEF Unprocessed
<1>3. /\ Len(evs) \in Nat \ {0} /\ Head(evs) = evs[1]
      /\ Tail(evs) \in Seq(KeyEvents) /\ Len(Tail(evs)) = Len(evs) - 1
      /\ \A i \in 1..Len(evs) - 1 : Tail(evs)[i] = evs[i + 1]
  BY <1>1, HeadTailProperties, EmptySeq
<1>4. /\ p \in Seq(KeyEvents) /\ Len(p) \in Nat
      /\ u \in Seq(KeyEvents) /\ Len(u) = Len(evs) + Len(p)
      /\ \A i \in 1..Len(u) : u[i] = IF i <= Len(evs) THEN evs[i] ELSE p[i - Len(evs)]
      /\ v \in Seq(KeyEvents) /\ Len(v) = Len(evs) - 1 + Len(p)
      /\ \A i \in 1..Len(v) : v[i] = IF i <= Len(evs) - 1 THEN Tail(evs)[i]
                                     ELSE p[i - (Len(evs) - 1)]
  BY <1>1, <1>3, ConcatProperties
<1> HIDE DEF p, u, v
<1>5. u # <<>>
  BY <1>3, <1>4, EmptySeq
<1>6. Head(u) = u[1] /\ u[1] = evs[1]
  BY <1>3, <1>4, <1>5
<1>7. /\ Tail(u) \in Seq(KeyEvents) /\ Len(Tail(u)) = Len(u) - 1
      /\ \A i \in 1..Len(u) - 1 : Tail(u)[i] = u[i + 1]
  BY <1>4, <1>5, HeadTailProperties
<1>8. ASSUME NEW i \in 1..Len(v) PROVE v[i] = Tail(u)[i]
  <2>1. CASE i <= Len(evs) - 1
    BY <2>1, <1>3, <1>4, <1>7
  <2>2. CASE ~(i <= Len(evs) - 1)
    BY <2>2, <1>3, <1>4, <1>7
  <2> QED
    BY <2>1, <2>2
<1>9. v = Tail(u)
  BY <1>3, <1>4, <1>7, <1>8, SeqEqual
<1>10. \A j \in Keyboards \ {cur} : Unprocessed(j)' = Unprocessed(j)
  BY <1>1 DEF Unprocessed
<1> QED
  BY <1>1, <1>2, <1>3, <1>5, <1>6, <1>9, <1>10

\* The end of a batch changes no stream.
LEMMA UnprocessedEnd ==
  ASSUME TypeOK, EndBatch, NEW k \in Keyboards
  PROVE  Unprocessed(k)' = Unprocessed(k)
<1>1. evs = <<>> /\ evs' = evs /\ pending' = pending
  BY DEF EndBatch
<1>2. Unprocessed(k) = <<>> \o pending[k] /\ Unprocessed(k)' = <<>> \o pending[k]
  BY <1>1 DEF Unprocessed
<1> QED
  BY <1>2

\* A keyboard that is opened anew has no frames, the others keep theirs.
LEMMA UnprocessedReopened ==
  ASSUME TypeOK, NEW k \in Keyboards, Reopened(k)
  PROVE  /\ Unprocessed(k)' = <<>>
         /\ \A j \in Keyboards \ {k} : Unprocessed(j)' = Unprocessed(j)
<1>1. /\ cur # k /\ UNCHANGED <<cur, evs>>
      /\ pending' = [pending EXCEPT ![k] = <<>>]
      /\ pending \in [Keyboards -> Seq(KeyEvents)]
  BY DEF Reopened, TypeOK
<1>2. Unprocessed(k)' = <<>> \o <<>>
  BY <1>1 DEF Unprocessed
<1>3. <<>> \o <<>> = <<>>
  BY EmptySeq, ConcatEmptySeq
<1>4. \A j \in Keyboards \ {k} : Unprocessed(j)' = Unprocessed(j)
  BY <1>1 DEF Unprocessed
<1> QED
  BY <1>2, <1>3, <1>4
-----------------------------------------------------------------------------
(* Types *)

LEMMA KeysOfKeyboards ==
  ASSUME NEW k \in Keyboards
  PROVE  Keys[k] \subseteq AllKeys
  BY DaemonKeysAssumption DEF AllKeys

LEMMA AgedType ==
  ASSUME NEW age \in Age
  PROVE  Aged(age) \in Age
  BY DaemonKeysAssumption DEF Aged, Age

LEMMA TypesInit == Init => TypeOK
<1> SUFFICES ASSUME Init PROVE TypeOK
  OBVIOUS
<1> USE DEF Init
<1>1. down \in HeldKeys /\ pending \in [Keyboards -> Seq(KeyEvents)]
  OBVIOUS
<1>2. ctrl_pressed \in [Keyboards -> BOOLEAN] /\ alt_pressed \in [Keyboards -> BOOLEAN]
  OBVIOUS
<1>3. None \in Age /\ last_typing_time \in [Keyboards -> Age]
  BY DEF Age
<1>4. evs \in Seq(KeyEvents)
  BY EmptySeq
<1>5. /\ cur \in Keyboards \cup {None} /\ typist \in Keyboards \cup {None}
      /\ cur = None => evs = <<>>
      /\ last_global_typing_time \in Age /\ keystroke \in Age
  BY <1>3
<1>6. trigger_reset \in BOOLEAN /\ RESETTING \in BOOLEAN
  OBVIOUS
<1> QED
  BY <1>1, <1>2, <1>3, <1>4, <1>5, <1>6 DEF TypeOK

LEMMA TypesTick == TypeOK /\ Tick => TypeOK'
<1> SUFFICES ASSUME TypeOK, Tick PROVE TypeOK'
  OBVIOUS
<1>1. /\ keystroke' \in Age /\ last_global_typing_time' \in Age
      /\ last_typing_time' \in [Keyboards -> Age]
  BY AgedType DEF TypeOK, Tick
<1> QED
  BY <1>1 DEF TypeOK, Tick

\* What the kernel appends, and that the key is down now unless released.
LEMMA KeyStep ==
  ASSUME TypeOK, NEW k \in Keyboards, Key(k)
  PROVE  \E key \in Keys[k], v \in 0..2 :
           /\ KeyEvent(key, v) \in KeyEvents
           /\ pending' = [pending EXCEPT ![k] = Append(@, KeyEvent(key, v))]
           /\ down' = [down EXCEPT ![k] = IF v = 0 THEN @ \ {key} ELSE @ \cup {key}]
           /\ v = 1 <=> key \notin down[k]
<1>1. PICK key \in Keys[k] :
        \/ /\ key \notin down[k]
           /\ Queue(k, key, 1)
           /\ down' = [down EXCEPT ![k] = @ \cup {key}]
        \/ /\ key \in down[k]
           /\ Queue(k, key, 0)
           /\ down' = [down EXCEPT ![k] = @ \ {key}]
        \/ key \in down[k] /\ Queue(k, key, 2) /\ UNCHANGED down
  BY DEF Key
<1>2. \A v \in 0..2 : KeyEvent(key, v) \in KeyEvents
  BY KeysOfKeyboards DEF KeyEvent, KeyEvents
<1>3. down \in [Keyboards -> SUBSET AllKeys]
  BY DEF TypeOK, HeldKeys
<1>4. CASE /\ key \notin down[k]
           /\ Queue(k, key, 1)
           /\ down' = [down EXCEPT ![k] = @ \cup {key}]
  <2> WITNESS key \in Keys[k], 1 \in 0..2
  <2> QED
    BY <1>2, <1>4 DEF Queue
<1>5. CASE /\ key \in down[k]
           /\ Queue(k, key, 0)
           /\ down' = [down EXCEPT ![k] = @ \ {key}]
  <2> WITNESS key \in Keys[k], 0 \in 0..2
  <2> QED
    BY <1>2, <1>5 DEF Queue
<1>6. CASE key \in down[k] /\ Queue(k, key, 2) /\ UNCHANGED down
  <2>1. down' = [down EXCEPT ![k] = @ \cup {key}]
    BY <1>3, <1>6
  <2>2. pending' = [pending EXCEPT ![k] = Append(@, KeyEvent(key, 2))]
    BY <1>6 DEF Queue
  <2>3. KeyEvent(key, 2) \in KeyEvents
    BY <1>2
  <2>4. down' = [down EXCEPT ![k] = IF 2 = 0 THEN @ \ {key} ELSE @ \cup {key}]
    BY <2>1
  <2>5. 2 = 1 <=> key \notin down[k]
    BY <1>6
  <2> WITNESS key \in Keys[k], 2 \in 0..2
  <2> QED
    BY <2>2, <2>3, <2>4, <2>5
<1> QED
  BY <1>1, <1>4, <1>5, <1>6

LEMMA TypesKey ==
  ASSUME TypeOK, NEW k \in Keyboards, Key(k)
  PROVE  TypeOK'
<1>1. PICK key \in Keys[k], v \in 0..2 :
        /\ KeyEvent(key, v) \in KeyEvents
        /\ pending' = [pending EXCEPT ![k] = Append(@, KeyEvent(key, v))]
        /\ down' = [down EXCEPT ![k] = IF v = 0 THEN @ \ {key} ELSE @ \cup {key}]
  BY KeyStep
<1>2. down' \in HeldKeys
  BY <1>1, KeysOfKeyboards DEF TypeOK, HeldKeys
<1>3. pending' \in [Keyboards -> Seq(KeyEvents)]
  BY <1>1, AppendProperties DEF TypeOK
<1> QED
  BY <1>2, <1>3 DEF TypeOK, Key, wrapperVars

LEMMA TypesReopened ==
  ASSUME TypeOK, NEW k \in Keyboards, Reopened(k)
  PROVE  TypeOK'
<1>1. down' \in HeldKeys
  <2>1. down \in [Keyboards -> SUBSET AllKeys] /\ down' = [down EXCEPT ![k] = {}]
    BY DEF TypeOK, Reopened, HeldKeys
  <2>2. \A j \in Keyboards : down'[j] = IF j = k THEN {} ELSE down[j]
    BY <2>1
  <2> QED
    BY <2>1, <2>2 DEF TypeOK, HeldKeys
<1>4. pending' \in [Keyboards -> Seq(KeyEvents)]
  BY EmptySeq DEF TypeOK, Reopened
<1>2. ctrl_pressed' \in [Keyboards -> BOOLEAN] /\ alt_pressed' \in [Keyboards -> BOOLEAN]
  BY DEF TypeOK, Reopened
<1>3. last_typing_time' \in [Keyboards -> Age]
  BY DEF TypeOK, Reopened, Age
<1> QED
  BY <1>1, <1>2, <1>3, <1>4 DEF TypeOK, Reopened

LEMMA TypesFetch ==
  ASSUME TypeOK, NEW k \in Keyboards, Fetch(k)
  PROVE  TypeOK'
<1> DEFINE p == pending[k]
           n == IF Len(p) < BatchSize THEN Len(p) ELSE BatchSize
<1>1. p \in Seq(KeyEvents) /\ Len(p) \in Nat /\ n \in 0..Len(p)
  BY DaemonKeysAssumption DEF TypeOK
<1>2. evs' = SubSeq(p, 1, n) /\ pending' = [pending EXCEPT ![k] = SubSeq(p, n + 1, Len(p))]
  BY DEF Fetch
<1> HIDE DEF p, n
<1>3. \A i \in 1..Len(p) : p[i] \in KeyEvents
  BY <1>1
<1>4. SubSeq(p, 1, n) \in Seq(KeyEvents) /\ SubSeq(p, n + 1, Len(p)) \in Seq(KeyEvents)
  BY <1>1, <1>3, SubSeqProperties
<1>5. evs' \in Seq(KeyEvents) /\ pending' \in [Keyboards -> Seq(KeyEvents)]
  BY <1>2, <1>4 DEF TypeOK
<1>6. cur' \in Keyboards /\ cur' # None
  BY DaemonKeysAssumption DEF Fetch
<1> QED
  BY <1>5, <1>6 DEF TypeOK, Fetch, wrapperVars

LEMMA TypesProcess == TypeOK /\ ProcessEvent => TypeOK'
<1> SUFFICES ASSUME TypeOK, ProcessEvent PROVE TypeOK'
  OBVIOUS
<1> DEFINE e == Head(evs)
<1>1. /\ cur \in Keyboards
      /\ e \in KeyEvents /\ evs' \in Seq(KeyEvents)
  BY HeadTailProperties DEF TypeOK, ProcessEvent
<1>2. e.value \in 0..2 /\ 0 \in Age
  BY <1>1, DaemonKeysAssumption DEF KeyEvents, Age
<1> HIDE DEF e
<1>3. trigger_reset' \in BOOLEAN
  BY DEF TypeOK, ProcessEvent, Chord
<1>4. /\ ctrl_pressed' \in [Keyboards -> BOOLEAN]
      /\ alt_pressed' \in [Keyboards -> BOOLEAN]
  <2>1. \A flag \in BOOLEAN : \A keys : Modifier(flag, keys, e) \in BOOLEAN
    BY DEF Modifier
  <2> QED
    BY <1>1, <2>1 DEF TypeOK, ProcessEvent, e
<1>5. Typed(cur, e) \in Age
  BY <1>1, <1>2 DEF Typed, TypeOK
<1>6. /\ last_typing_time' \in [Keyboards -> Age]
      /\ last_global_typing_time' \in Age
      /\ keystroke' \in Age
  BY <1>1, <1>2, <1>5 DEF TypeOK, ProcessEvent, e
<1>7. typist' \in Keyboards \cup {None}
  BY <1>1, <1>2 DEF TypeOK, ProcessEvent, e
<1> QED
  BY <1>1, <1>3, <1>4, <1>6, <1>7, DaemonKeysAssumption DEF TypeOK, ProcessEvent

LEMMA TypesEnd == TypeOK /\ (EndBatch \/ ResetDone) => TypeOK'
  BY DEF TypeOK, EndBatch, ResetDone, wrapperVars

LEMMA TypesStep == TypeOK /\ [Next]_vars => TypeOK'
<1> SUFFICES ASSUME TypeOK, [Next]_vars PROVE TypeOK'
  OBVIOUS
<1>1. CASE UNCHANGED vars
  BY <1>1 DEF TypeOK, vars
<1> QED
  BY <1>1, TypesTick, TypesProcess, TypesEnd, TypesKey, TypesReopened, TypesFetch
  DEF Next
-----------------------------------------------------------------------------
(* Streams and modifier flags of one keyboard *)

\* A flag stands for a key that was held before the frames s.
FlagHolds(flag, modifiers, k, s, held) ==
  flag => \E key \in modifiers \cap Keys[k] : HeldFrom(s, 1, key, key \in held)

KeyboardFits(k, s, held, ctrl, alt) ==
  /\ \A i \in 1..Len(s) : s[i].key \in Keys[k]
  /\ \A key \in Keys[k] : Fits(s, key, key \in held)
  /\ FlagHolds(ctrl, CtrlKeys, k, s, held)
  /\ FlagHolds(alt, AltKeys, k, s, held)

FitsNow(k) ==
  KeyboardFits(k, Unprocessed(k), down[k], ctrl_pressed[k], alt_pressed[k])

AllFit == TypeOK /\ \A k \in Keyboards : FitsNow(k)

\* The invariant, keyboard by keyboard.
LEMMA KeysInvIsFits == KeysInv <=> AllFit
<1>1. StreamsFit <=>
        \A k \in Keyboards :
          /\ \A i \in 1..Len(Unprocessed(k)) : Unprocessed(k)[i].key \in Keys[k]
          /\ \A key \in Keys[k] : Fits(Unprocessed(k), key, key \in down[k])
  BY DEF StreamsFit
<1>2. ModifiersAreHeld <=>
        \A k \in Keyboards :
          /\ FlagHolds(ctrl_pressed[k], CtrlKeys, k, Unprocessed(k), down[k])
          /\ FlagHolds(alt_pressed[k], AltKeys, k, Unprocessed(k), down[k])
  BY DEF ModifiersAreHeld, HeldBefore, FlagHolds
<1> QED
  BY <1>1, <1>2 DEF KeysInv, AllFit, FitsNow, KeyboardFits

LEMMA FitsEmpty ==
  ASSUME NEW k \in Keyboards, NEW held
  PROVE  KeyboardFits(k, <<>>, held, FALSE, FALSE)
  BY DEF KeyboardFits, FlagHolds, Fits

LEMMA FlagAppend ==
  ASSUME NEW k \in Keyboards, NEW s \in Seq(KeyEvents), NEW e \in KeyEvents,
         NEW held, NEW held2, NEW flag \in BOOLEAN, NEW modifiers,
         \A key \in Keys[k] : Follows(e, key, key \in held, key \in held2),
         FlagHolds(flag, modifiers, k, s, held)
  PROVE  FlagHolds(flag, modifiers, k, Append(s, e), held2)
<1> SUFFICES ASSUME flag
             PROVE  \E key \in modifiers \cap Keys[k] :
                      HeldFrom(Append(s, e), 1, key, key \in held2)
  BY DEF FlagHolds
<1>1. PICK key \in modifiers \cap Keys[k] : HeldFrom(s, 1, key, key \in held)
  BY DEF FlagHolds
<1>2. /\ 1 \in 1..Len(s) + 1
      /\ (key \in held) \in BOOLEAN /\ (key \in held2) \in BOOLEAN
      /\ Follows(e, key, key \in held, key \in held2)
  BY LenProperties
<1>3. HeldFrom(Append(s, e), 1, key, key \in held2)
  BY <1>1, <1>2, HeldAppend
<1> QED
  BY <1>3

LEMMA FitsKey ==
  ASSUME NEW k \in Keyboards, NEW s \in Seq(KeyEvents), NEW e \in KeyEvents,
         NEW held, NEW held2, NEW ctrl \in BOOLEAN, NEW alt \in BOOLEAN,
         e.key \in Keys[k],
         \A key \in Keys[k] : Follows(e, key, key \in held, key \in held2),
         KeyboardFits(k, s, held, ctrl, alt)
  PROVE  KeyboardFits(k, Append(s, e), held2, ctrl, alt)
<1>1. \A i \in 1..Len(Append(s, e)) : Append(s, e)[i].key \in Keys[k]
  BY AppendProperties, LenProperties DEF KeyboardFits
<1>2. ASSUME NEW key \in Keys[k]
      PROVE  Fits(Append(s, e), key, key \in held2)
  <2>1. /\ (key \in held) \in BOOLEAN /\ (key \in held2) \in BOOLEAN
        /\ Follows(e, key, key \in held, key \in held2)
        /\ Fits(s, key, key \in held)
    BY DEF KeyboardFits
  <2> QED
    BY <2>1, FitsAppend
<1>3. /\ FlagHolds(ctrl, CtrlKeys, k, Append(s, e), held2)
      /\ FlagHolds(alt, AltKeys, k, Append(s, e), held2)
  BY FlagAppend DEF KeyboardFits
<1> QED
  BY <1>1, <1>2, <1>3 DEF KeyboardFits

\* What Modifier() makes of the flag stands for a key held after the frame.
LEMMA FlagHead ==
  ASSUME NEW k \in Keyboards, NEW s \in Seq(KeyEvents), s # <<>>, NEW held,
         NEW flag \in BOOLEAN, NEW modifiers,
         \A i \in 1..Len(s) : s[i].key \in Keys[k],
         \A key \in Keys[k] : Fits(s, key, key \in held),
         FlagHolds(flag, modifiers, k, s, held)
  PROVE  FlagHolds(Modifier(flag, modifiers, Head(s)), modifiers, k, Tail(s), held)
<1> DEFINE e == Head(s)
<1>1. e.key \in Keys[k]
  BY EmptySeq, HeadTailProperties
<1>2. CASE e.key \in modifiers
  <2> SUFFICES ASSUME e.value # 0
               PROVE  \E key \in modifiers \cap Keys[k] :
                        HeldFrom(Tail(s), 1, key, key \in held)
    BY <1>2 DEF FlagHolds, Modifier
  <2>1. HeldFrom(Tail(s), 1, e.key, e.key \in held)
    <3>1. (e.key \in held) \in BOOLEAN /\ Fits(s, e.key, e.key \in held)
      BY <1>1
    <3> QED
      BY <3>1, HeldAfterHead
  <2> QED
    BY <1>1, <1>2, <2>1
<1>3. CASE e.key \notin modifiers
  <2> SUFFICES ASSUME flag
               PROVE  \E key \in modifiers \cap Keys[k] :
                        HeldFrom(Tail(s), 1, key, key \in held)
    BY <1>3 DEF FlagHolds, Modifier
  <2>1. PICK key \in modifiers \cap Keys[k] : HeldFrom(s, 1, key, key \in held)
    BY DEF FlagHolds
  <2>2. e.key # key /\ (key \in held) \in BOOLEAN /\ Fits(s, key, key \in held)
    BY <1>3, <2>1
  <2>3. HeldFrom(Tail(s), 1, key, key \in held)
    BY <2>1, <2>2, HeldAfterHead
  <2> QED
    BY <2>3
<1> QED
  BY <1>2, <1>3

LEMMA FitsHead ==
  ASSUME NEW k \in Keyboards, NEW s \in Seq(KeyEvents), s # <<>>, NEW held,
         NEW ctrl \in BOOLEAN, NEW alt \in BOOLEAN,
         KeyboardFits(k, s, held, ctrl, alt)
  PROVE  KeyboardFits(k, Tail(s), held, Modifier(ctrl, CtrlKeys, Head(s)),
                      Modifier(alt, AltKeys, Head(s)))
<1>1. \A i \in 1..Len(Tail(s)) : Tail(s)[i].key \in Keys[k]
  BY HeadTailProperties, EmptySeq DEF KeyboardFits
<1>2. ASSUME NEW key \in Keys[k]
      PROVE  Fits(Tail(s), key, key \in held)
  <2>1. (key \in held) \in BOOLEAN /\ Fits(s, key, key \in held)
    BY DEF KeyboardFits
  <2> QED
    BY <2>1, FitsTail
<1>3. /\ FlagHolds(Modifier(ctrl, CtrlKeys, Head(s)), CtrlKeys, k, Tail(s), held)
      /\ FlagHolds(Modifier(alt, AltKeys, Head(s)), AltKeys, k, Tail(s), held)
  BY FlagHead DEF KeyboardFits
<1> QED
  BY <1>1, <1>2, <1>3 DEF KeyboardFits
-----------------------------------------------------------------------------
(* The invariant *)

\* A step that leaves a keyboard's keys, frames and flags alone keeps it fit.
LEMMA FitsUntouched ==
  ASSUME NEW k \in Keyboards, FitsNow(k), Unprocessed(k)' = Unprocessed(k),
         down'[k] = down[k], ctrl_pressed'[k] = ctrl_pressed[k],
         alt_pressed'[k] = alt_pressed[k]
  PROVE  FitsNow(k)'
  BY DEF FitsNow

LEMMA KeysInit == Init => KeysInv
<1> SUFFICES ASSUME Init PROVE KeysInv
  OBVIOUS
<1>1. ASSUME NEW k \in Keyboards PROVE FitsNow(k)
  <2>1. /\ Unprocessed(k) = <<>> \o <<>>
        /\ ctrl_pressed[k] = FALSE /\ alt_pressed[k] = FALSE
    BY DaemonKeysAssumption DEF Init, Unprocessed
  <2>2. Unprocessed(k) = <<>>
    BY <2>1, EmptySeq, ConcatEmptySeq
  <2> QED
    BY <2>1, <2>2, FitsEmpty DEF FitsNow
<1> QED
  BY <1>1, TypesInit, KeysInvIsFits DEF AllFit

LEMMA FitsAfterKey ==
  ASSUME TypeOK, \A j \in Keyboards : FitsNow(j),
         NEW k \in Keyboards, Key(k), NEW j \in Keyboards
  PROVE  FitsNow(j)'
<1>1. PICK key \in Keys[k], v \in 0..2 :
        /\ KeyEvent(key, v) \in KeyEvents
        /\ pending' = [pending EXCEPT ![k] = Append(@, KeyEvent(key, v))]
        /\ down' = [down EXCEPT ![k] = IF v = 0 THEN @ \ {key} ELSE @ \cup {key}]
        /\ v = 1 <=> key \notin down[k]
  BY KeyStep
<1>2. UNCHANGED <<cur, evs, ctrl_pressed, alt_pressed>>
  BY DEF Key, wrapperVars
<1> DEFINE e == KeyEvent(key, v)
<1>3. /\ Unprocessed(k)' = Append(Unprocessed(k), e)
      /\ \A i \in Keyboards \ {k} : Unprocessed(i)' = Unprocessed(i)
  BY <1>1, <1>2, UnprocessedKey
<1>4. down \in [Keyboards -> SUBSET AllKeys]
  BY DEF TypeOK, HeldKeys
<1>5. CASE j # k
  <2>1. down'[j] = down[j]
    BY <1>1, <1>4, <1>5
  <2> QED
    BY <1>2, <1>3, <1>5, <2>1, FitsUntouched
<1>6. CASE j = k
  <2>1. down'[k] = IF v = 0 THEN down[k] \ {key} ELSE down[k] \cup {key}
    BY <1>1, <1>4
  <2>2. e.key = key /\ e.value = v
    BY DEF KeyEvent
  <2>3. ASSUME NEW other \in Keys[k]
        PROVE  Follows(e, other, other \in down[k], other \in down'[k])
    BY <1>1, <2>1, <2>2 DEF Follows
  <2>4. /\ Unprocessed(k) \in Seq(KeyEvents)
        /\ ctrl_pressed[k] \in BOOLEAN /\ alt_pressed[k] \in BOOLEAN
    BY UnprocessedType DEF TypeOK
  <2>5. KeyboardFits(k, Unprocessed(k), down[k], ctrl_pressed[k], alt_pressed[k])
    BY <1>6 DEF FitsNow
  <2> HIDE DEF e
  <2>6. KeyboardFits(k, Append(Unprocessed(k), e), down'[k], ctrl_pressed[k],
                     alt_pressed[k])
    BY <1>1, <2>2, <2>3, <2>4, <2>5, FitsKey DEF e
  <2> QED
    BY <1>2, <1>3, <1>6, <2>6 DEF FitsNow
<1> QED
  BY <1>5, <1>6

LEMMA FitsAfterReopened ==
  ASSUME TypeOK, \A j \in Keyboards : FitsNow(j),
         NEW k \in Keyboards, Reopened(k), NEW j \in Keyboards
  PROVE  FitsNow(j)'
<1>1. /\ Unprocessed(k)' = <<>>
      /\ \A i \in Keyboards \ {k} : Unprocessed(i)' = Unprocessed(i)
  BY UnprocessedReopened
<1>2. \A i \in Keyboards :
        /\ ctrl_pressed'[i] = IF i = k THEN FALSE ELSE ctrl_pressed[i]
        /\ alt_pressed'[i] = IF i = k THEN FALSE ELSE alt_pressed[i]
        /\ down'[i] = IF i = k THEN {} ELSE down[i]
  BY DEF Reopened, TypeOK, HeldKeys
<1>3. CASE j = k
  BY <1>1, <1>2, <1>3, FitsEmpty DEF FitsNow
<1>4. CASE j # k
  BY <1>1, <1>2, <1>4, FitsUntouched
<1> QED
  BY <1>3, <1>4

LEMMA FitsAfterProcess ==
  ASSUME TypeOK, \A j \in Keyboards : FitsNow(j), ProcessEvent,
         NEW j \in Keyboards
  PROVE  FitsNow(j)'
<1>1. /\ cur \in Keyboards /\ cur' = cur
      /\ Unprocessed(cur) # <<>>
      /\ Head(evs) = Head(Unprocessed(cur))
      /\ Unprocessed(cur)' = Tail(Unprocessed(cur))
      /\ \A i \in Keyboards \ {cur} : Unprocessed(i)' = Unprocessed(i)
  BY UnprocessedProcess
<1> DEFINE e == Head(Unprocessed(cur))
<1>2. /\ ctrl_pressed' = [ctrl_pressed EXCEPT
                            ![cur] = Modifier(ctrl_pressed[cur], CtrlKeys, e)]
      /\ alt_pressed' = [alt_pressed EXCEPT
                           ![cur] = Modifier(alt_pressed[cur], AltKeys, e)]
      /\ down' = down
  BY <1>1 DEF ProcessEvent
<1>3. /\ ctrl_pressed \in [Keyboards -> BOOLEAN] /\ ctrl_pressed[cur] \in BOOLEAN
      /\ alt_pressed \in [Keyboards -> BOOLEAN] /\ alt_pressed[cur] \in BOOLEAN
      /\ Unprocessed(cur) \in Seq(KeyEvents)
  BY <1>1, UnprocessedType DEF TypeOK
<1> HIDE DEF e
<1>4. CASE j = cur
  <2>1. /\ ctrl_pressed'[cur] = Modifier(ctrl_pressed[cur], CtrlKeys, e)
        /\ alt_pressed'[cur] = Modifier(alt_pressed[cur], AltKeys, e)
    BY <1>1, <1>2, <1>3
  <2>2. KeyboardFits(cur, Unprocessed(cur), down[cur], ctrl_pressed[cur],
                     alt_pressed[cur])
    BY <1>1 DEF FitsNow
  <2>3. KeyboardFits(cur, Tail(Unprocessed(cur)), down[cur],
                     Modifier(ctrl_pressed[cur], CtrlKeys, e),
                     Modifier(alt_pressed[cur], AltKeys, e))
    BY <1>1, <1>3, <2>2, FitsHead DEF e
  <2>4. KeyboardFits(cur, Unprocessed(cur)', down'[cur], ctrl_pressed'[cur],
                     alt_pressed'[cur])
    BY <1>1, <1>2, <2>1, <2>3
  <2>5. FitsNow(j)' <=>
          KeyboardFits(j, Unprocessed(j)', down'[j], ctrl_pressed'[j], alt_pressed'[j])
    BY DEF FitsNow
  <2> QED
    BY <1>1, <1>4, <2>4, <2>5
<1>5. CASE j # cur
  <2>1. /\ ctrl_pressed'[j] = ctrl_pressed[j] /\ alt_pressed'[j] = alt_pressed[j]
        /\ down'[j] = down[j]
    BY <1>2, <1>3, <1>5
  <2> QED
    BY <1>1, <1>5, <2>1, FitsUntouched
<1> QED
  BY <1>4, <1>5

LEMMA KeysStep == KeysInv /\ [Next]_vars => KeysInv'
<1> SUFFICES ASSUME KeysInv, [Next]_vars PROVE KeysInv'
  OBVIOUS
<1>1. TypeOK /\ \A j \in Keyboards : FitsNow(j)
  BY KeysInvIsFits DEF AllFit
<1>2. TypeOK'
  BY <1>1, TypesStep
<1>3. ASSUME NEW j \in Keyboards PROVE FitsNow(j)'
  <2>1. CASE \E k \in Keyboards : Key(k)
    BY <1>1, <2>1, FitsAfterKey
  <2>2. CASE \E k \in Keyboards : Reopened(k)
    BY <1>1, <2>2, FitsAfterReopened
  <2>3. CASE \E k \in Keyboards : Fetch(k)
    <3>1. Unprocessed(j)' = Unprocessed(j)
      BY <1>1, <2>3, UnprocessedFetch
    <3> QED
      BY <1>1, <2>3, <3>1, FitsUntouched DEF Fetch, wrapperVars
  <2>4. CASE ProcessEvent
    BY <1>1, <2>4, FitsAfterProcess
  <2>5. CASE EndBatch
    <3>1. Unprocessed(j)' = Unprocessed(j)
      BY <1>1, <2>5, UnprocessedEnd
    <3> QED
      BY <1>1, <2>5, <3>1, FitsUntouched DEF EndBatch, wrapperVars
  <2>6. CASE Tick \/ ResetDone \/ UNCHANGED vars
    <3>1. UNCHANGED <<down, pending, cur, evs, ctrl_pressed, alt_pressed>>
      BY <2>6 DEF Tick, ResetDone, vars, wrapperVars
    <3>2. Unprocessed(j)' = Unprocessed(j)
      BY <3>1 DEF Unprocessed
    <3> QED
      BY <1>1, <3>1, <3>2, FitsUntouched
  <2> QED
    BY <2>1, <2>2, <2>3, <2>4, <2>5, <2>6 DEF Next
<1>4. AllFit'
  BY <1>2, <1>3 DEF AllFit
<1> QED
  BY <1>4, KeysInvIsFits, PTL

\* The invariant holds in every behaviour.
THEOREM KeysInvariant == Spec => []KeysInv
  BY KeysInit, KeysStep, PTL DEF Spec

\* A modifier flag never outlives the keys it stands for.
THEOREM FlagsStandForKeys == Spec => []ModifiersAreHeld
<1>1. KeysInv => ModifiersAreHeld
  BY DEF KeysInv
<1> QED
  BY KeysInvariant, <1>1, PTL

\* A reset starts only on R pressed with Ctrl and Alt of its keyboard held.
THEOREM ResetsNeedTheChord == Spec => ResetNeedsChord
<1>1. ASSUME KeysInv, [Next]_vars, ~trigger_reset, trigger_reset'
      PROVE  /\ \E key \in CtrlKeys \cap Keys[cur] : HeldBefore(cur, key)
             /\ \E key \in AltKeys \cap Keys[cur] : HeldBefore(cur, key)
  <2>1. ProcessEvent
    BY <1>1 DEF Next, Tick, Key, Reopened, Fetch, EndBatch, ResetDone, vars, wrapperVars
  <2>2. ctrl_pressed[cur] /\ alt_pressed[cur]
    BY <1>1, <2>1 DEF ProcessEvent, Chord
  <2>3. cur \in Keyboards
    BY <1>1, <2>1, UnprocessedProcess DEF KeysInv
  <2> QED
    BY <1>1, <2>2, <2>3 DEF KeysInv, ModifiersAreHeld
<1>2. KeysInv /\ [Next]_vars
        => [(~trigger_reset /\ trigger_reset') =>
              /\ \E key \in CtrlKeys \cap Keys[cur] : HeldBefore(cur, key)
              /\ \E key \in AltKeys \cap Keys[cur] : HeldBefore(cur, key)]_vars
  BY <1>1
<1> QED
  BY KeysInvariant, <1>2, PTL DEF Spec, ResetNeedsChord
-----------------------------------------------------------------------------
(* The typing time *)

\* The last typist's own time is that of the last key press, if it has one.
TypingInv ==
  typist # None =>
    /\ last_global_typing_time = keystroke
    /\ last_typing_time[typist] \in {None, keystroke}

LEMMA TypingInit == Init => TypingInv
  BY DEF Init, TypingInv

LEMMA TypingProcess ==
  ASSUME TypeOK, TypingInv, ProcessEvent
  PROVE  TypingInv'
<1> DEFINE e == Head(evs)
<1>1. /\ cur \in Keyboards /\ cur' = cur
      /\ last_typing_time \in [Keyboards -> Age]
      /\ None \notin Keyboards /\ None # 0
  BY UnprocessedProcess, DaemonKeysAssumption DEF TypeOK
<1>2. /\ last_typing_time' = [last_typing_time EXCEPT
                                ![cur] = IF e.value # 0 THEN 0 ELSE @]
      /\ last_global_typing_time' = IF Typed(cur, e) # None THEN Typed(cur, e)
                                    ELSE last_global_typing_time
      /\ keystroke' = IF e.value # 0 THEN 0 ELSE keystroke
      /\ typist' = CASE e.value # 0 -> cur
                     [] e.value = 0 /\ typist # cur -> None
                     [] OTHER -> typist
  BY DEF ProcessEvent
<1> HIDE DEF e
<1>3. CASE e.value # 0
  BY <1>1, <1>2, <1>3 DEF TypingInv, Typed
<1>4. CASE ~(e.value # 0) /\ typist # cur
  BY <1>2, <1>4 DEF TypingInv
<1>5. CASE ~(e.value # 0) /\ typist = cur
  BY <1>1, <1>2, <1>5 DEF TypingInv, Typed
<1> QED
  BY <1>3, <1>4, <1>5

LEMMA TypingStep == TypeOK /\ TypingInv /\ [Next]_vars => TypingInv'
<1> SUFFICES ASSUME TypeOK, TypingInv, [Next]_vars PROVE TypingInv'
  OBVIOUS
<1>1. /\ last_typing_time \in [Keyboards -> Age]
      /\ typist \in Keyboards \cup {None}
  BY DEF TypeOK
<1>2. CASE Tick
  <2>1. ASSUME typist # None
        PROVE  /\ last_global_typing_time' = keystroke'
               /\ last_typing_time'[typist] \in {None, keystroke'}
    <3>1. /\ last_global_typing_time' = Aged(last_global_typing_time)
          /\ keystroke' = Aged(keystroke)
          /\ last_typing_time'[typist] = Aged(last_typing_time[typist])
      BY <1>1, <1>2, <2>1 DEF Tick
    <3>2. Aged(None) = None
      BY DEF Aged
    <3> QED
      BY <2>1, <3>1, <3>2 DEF TypingInv
  <2> QED
    BY <1>2, <2>1 DEF Tick, TypingInv
<1>3. CASE ProcessEvent
  BY <1>3, TypingProcess
<1>4. ASSUME NEW k \in Keyboards, Reopened(k)
      PROVE  TypingInv'
  BY <1>1, <1>4 DEF Reopened, TypingInv
<1>5. CASE \/ EndBatch \/ ResetDone \/ UNCHANGED vars
           \/ \E k \in Keyboards : Key(k) \/ Fetch(k)
  <2>1. UNCHANGED <<typist, keystroke, last_global_typing_time, last_typing_time>>
    BY <1>5 DEF EndBatch, ResetDone, Key, Fetch, vars, wrapperVars
  <2> QED
    BY <2>1 DEF TypingInv
<1> QED
  BY <1>2, <1>3, <1>4, <1>5 DEF Next

\* DWT is measured from the last key press while one keyboard is used.
THEOREM TypingTimeIsTheLatest == Spec => []TypingIsLatest
<1>1. KeysInv => TypeOK
  BY DEF KeysInv
<1>2. TypingInv => TypingIsLatest
  BY DEF TypingInv, TypingIsLatest
<1> QED
  BY KeysInvariant, TypingInit, TypingStep, <1>1, <1>2, PTL DEF Spec
=============================================================================
