------------------------------ MODULE DaemonKeys ------------------------------
(***************************************************************************)
(* What the daemon does with its keyboards: process_event                  *)
(* (src/device.rs) follows Ctrl and Alt and the time of the last key, and  *)
(* run() (src/event_loop.rs) shares that time with all devices and starts  *)
(* a reset of the hardware on Ctrl+Alt+R.  Batches are what DaemonLoop     *)
(* fetches; a keyboard's frame is one key event.                           *)
(*                                                                         *)
(* Instants are ages, saturated at DwtTimeout.                             *)
(***************************************************************************)
EXTENDS Integers, Sequences, Functions

CONSTANTS
  Keyboards,
  Keys,          \* Keys[k]: the keys of keyboard k
  BatchSize,     \* frames one fetch_events() returns at most
  QueueBound,    \* bound: frames in the keyboards' kernel queues together
  DwtTimeout,    \* the 500 ms of disable-while-typing, in ticks
  None

CtrlKeys == {"leftctrl", "rightctrl"}
AltKeys == {"leftalt", "rightalt"}

ASSUME DaemonKeysAssumption ==
  /\ Keys \in [Keyboards -> SUBSET UNION Range(Keys)]
  /\ {BatchSize, QueueBound, DwtTimeout} \subseteq Nat \ {0}
  /\ None \notin Keyboards /\ None \notin Nat

VARIABLES
  \* the kernel
  down,            \* keys held on each keyboard
  pending,         \* frames queued for the daemon, per keyboard
  \* DeviceWrapper, per keyboard
  ctrl_pressed,
  alt_pressed,
  last_typing_time,
  \* run()
  last_global_typing_time,
  cur,             \* keyboard of the batch, or None
  evs,             \* rest of the batch
  trigger_reset,
  RESETTING,
  \* history
  keystroke,       \* age of the last key press processed
  typist           \* its keyboard, as long as no other one had an event since

AllKeys == UNION Range(Keys)
HeldKeys == {f \in [Keyboards -> SUBSET AllKeys] :
               \A k \in Keyboards : f[k] \subseteq Keys[k]}

wrapperVars == <<ctrl_pressed, alt_pressed, last_typing_time>>
vars == <<down, pending, ctrl_pressed, alt_pressed, last_typing_time,
          last_global_typing_time, cur, evs, trigger_reset, RESETTING, keystroke,
          typist>>

Init ==
  /\ down \in HeldKeys
  /\ pending = [k \in Keyboards |-> <<>>]
  /\ ctrl_pressed = [k \in Keyboards |-> FALSE]
  /\ alt_pressed = [k \in Keyboards |-> FALSE]
  /\ last_typing_time = [k \in Keyboards |-> None]
  /\ last_global_typing_time = None
  /\ cur = None
  /\ evs = <<>>
  /\ trigger_reset = FALSE
  /\ RESETTING = FALSE
  /\ keystroke = None
  /\ typist = None
-----------------------------------------------------------------------------
(* The clock and the kernel. *)

Aged(age) == IF age = None \/ age = DwtTimeout THEN age ELSE age + 1

Tick ==
  /\ keystroke' = Aged(keystroke)
  /\ last_global_typing_time' = Aged(last_global_typing_time)
  /\ last_typing_time' = [k \in Keyboards |-> Aged(last_typing_time[k])]
  /\ UNCHANGED <<down, pending, ctrl_pressed, alt_pressed, cur, evs,
                 trigger_reset, RESETTING, typist>>

KeyEvent(key, value) == [key |-> key, value |-> value]

Queued == SumFunction([k \in Keyboards |-> Len(pending[k])])

Queue(k, key, value) ==
  /\ Queued < QueueBound
  /\ pending' = [pending EXCEPT ![k] = Append(@, KeyEvent(key, value))]

\* A key goes down, comes up or autorepeats.
Key(k) ==
  /\ \E key \in Keys[k] :
       \/ /\ key \notin down[k]
          /\ Queue(k, key, 1)
          /\ down' = [down EXCEPT ![k] = @ \cup {key}]
       \/ /\ key \in down[k]
          /\ Queue(k, key, 0)
          /\ down' = [down EXCEPT ![k] = @ \ {key}]
       \/ key \in down[k] /\ Queue(k, key, 2) /\ UNCHANGED down
  /\ UNCHANGED <<wrapperVars, last_global_typing_time, cur, evs, trigger_reset,
                 RESETTING, keystroke, typist>>

\* The keyboard vanishes and is opened anew before it is used again: what was
\* queued is lost, and a new wrapper begins.  A batch in hand is finished first.
Reopened(k) ==
  /\ cur # k
  /\ down' = [down EXCEPT ![k] = {}]
  /\ pending' = [pending EXCEPT ![k] = <<>>]
  /\ ctrl_pressed' = [ctrl_pressed EXCEPT ![k] = FALSE]
  /\ alt_pressed' = [alt_pressed EXCEPT ![k] = FALSE]
  /\ last_typing_time' = [last_typing_time EXCEPT ![k] = None]
  /\ UNCHANGED <<last_global_typing_time, cur, evs, trigger_reset, RESETTING,
                 keystroke, typist>>
-----------------------------------------------------------------------------
(* run() and process_event() *)

Fetch(k) ==
  /\ cur = None /\ pending[k] # <<>>
  /\ LET n == IF Len(pending[k]) < BatchSize THEN Len(pending[k]) ELSE BatchSize
     IN  /\ evs' = SubSeq(pending[k], 1, n)
         /\ pending' = [pending EXCEPT ![k] = SubSeq(@, n + 1, Len(@))]
  /\ cur' = k
  /\ UNCHANGED <<down, wrapperVars, last_global_typing_time, trigger_reset,
                 RESETTING, keystroke, typist>>

NeverCleared(flag, keys, e) ==                    \* fault: set by presses only
  flag \/ (e.key \in keys /\ e.value # 0)
Modifier(flag, keys, e) == IF e.key \in keys THEN e.value # 0 ELSE flag

\* Fault: the time is read before the event is processed.
ReadTooEarly(k, e) == last_typing_time[k]
Typed(k, e) == IF e.value # 0 THEN 0 ELSE last_typing_time[k]

EitherModifier(k, e) ==                           \* fault: one is enough
  e = KeyEvent("r", 1) /\ (ctrl_pressed[k] \/ alt_pressed[k])
\* The hot key is tested with the modifiers of the events before it.
Chord(k, e) == e = KeyEvent("r", 1) /\ ctrl_pressed[k] /\ alt_pressed[k]

\* One event; the keyboard's own time overwrites the shared one, whatever the
\* event was.
ProcessEvent ==
  /\ evs # <<>>
  /\ LET e == Head(evs) IN
       /\ trigger_reset' = (trigger_reset \/ Chord(cur, e))
       /\ ctrl_pressed' = [ctrl_pressed EXCEPT ![cur] = Modifier(@, CtrlKeys, e)]
       /\ alt_pressed' = [alt_pressed EXCEPT ![cur] = Modifier(@, AltKeys, e)]
       /\ last_typing_time' = [last_typing_time EXCEPT
                                 ![cur] = IF e.value # 0 THEN 0 ELSE @]
       /\ last_global_typing_time' = IF Typed(cur, e) # None THEN Typed(cur, e)
                                     ELSE last_global_typing_time
       /\ keystroke' = IF e.value # 0 THEN 0 ELSE keystroke
       /\ typist' = CASE e.value # 0 -> cur
                      [] e.value = 0 /\ typist # cur -> None
                      [] OTHER -> typist
  /\ evs' = Tail(evs)
  /\ UNCHANGED <<down, pending, cur, RESETTING>>

\* RESETTING.swap(true): a reset starts unless one is under way.
EndBatch ==
  /\ cur # None /\ evs = <<>>
  /\ RESETTING' = (RESETTING \/ trigger_reset)
  /\ trigger_reset' = FALSE
  /\ cur' = None
  /\ UNCHANGED <<down, pending, wrapperVars, last_global_typing_time, evs,
                 keystroke, typist>>

\* The detached thread ends.
ResetDone ==
  /\ RESETTING
  /\ RESETTING' = FALSE
  /\ UNCHANGED <<down, pending, wrapperVars, last_global_typing_time, cur, evs,
                 trigger_reset, keystroke, typist>>

Next ==
  \/ Tick \/ ProcessEvent \/ EndBatch \/ ResetDone
  \/ \E k \in Keyboards : Key(k) \/ Reopened(k) \/ Fetch(k)

Spec == Init /\ [][Next]_vars
-----------------------------------------------------------------------------
(* Properties *)

Age == {None} \cup 0..DwtTimeout
KeyEvents == [key : AllKeys, value : 0..2]

TypeOK ==
  /\ down \in HeldKeys
  /\ pending \in [Keyboards -> Seq(KeyEvents)]
  /\ ctrl_pressed \in [Keyboards -> BOOLEAN]
  /\ alt_pressed \in [Keyboards -> BOOLEAN]
  /\ last_typing_time \in [Keyboards -> Age]
  /\ last_global_typing_time \in Age
  /\ cur \in Keyboards \cup {None}
  /\ evs \in Seq(KeyEvents)
  /\ cur = None => evs = <<>>
  /\ trigger_reset \in BOOLEAN
  /\ RESETTING \in BOOLEAN
  /\ keystroke \in Age
  /\ typist \in Keyboards \cup {None}

\* README "Configuration": disable_while_typing will "suppress touchpad input
\* 500ms after keystroke".  The time DWT is measured from is that of the last
\* key press of any keyboard until another keyboard has an event: a release on
\* that one puts its own last press, however old, in its place.
TypingIsLatest == typist # None => last_global_typing_time = keystroke

\* The frames of k that are still to be processed.
Unprocessed(k) == (IF cur = k THEN evs ELSE <<>>) \o pending[k]

\* The key was held before the frames of s from i on: the first of them that is
\* about it presses it not, and if there is none it is down.
HeldFrom(s, i, key, is_down) ==
  /\ \A j \in i..Len(s) :
       (s[j].key = key /\ s[j].value = 1) => \E l \in i..j - 1 : s[l].key = key
  /\ (\A j \in i..Len(s) : s[j].key # key) => is_down

\* It was held when the unprocessed frames began.
HeldBefore(k, key) == HeldFrom(Unprocessed(k), 1, key, key \in down[k])

\* A key that is pressed or repeats is held by the frames that follow.
Fits(s, key, is_down) ==
  \A i \in 1..Len(s) :
    (s[i].key = key /\ s[i].value # 0) => HeldFrom(s, i + 1, key, is_down)

StreamsFit ==
  \A k \in Keyboards :
    LET s == Unprocessed(k) IN
    /\ \A i \in 1..Len(s) : s[i].key \in Keys[k]
    /\ \A key \in Keys[k] : Fits(s, key, key \in down[k])

\* A modifier flag never outlives the keys it stands for, however their events
\* are split into batches and whatever was held when the keyboard was opened.
ModifiersAreHeld ==
  \A k \in Keyboards :
    /\ ctrl_pressed[k] => \E key \in CtrlKeys \cap Keys[k] : HeldBefore(k, key)
    /\ alt_pressed[k] => \E key \in AltKeys \cap Keys[k] : HeldBefore(k, key)

\* The inductive invariant: flags follow keys that are not pressed twice.
KeysInv == TypeOK /\ StreamsFit /\ ModifiersAreHeld

\* The hardware is reset only by an R pressed while a Ctrl and an Alt key of
\* the same keyboard were held, in the order in which its keys moved.
ResetNeedsChord ==
  [][(~trigger_reset /\ trigger_reset') =>
       /\ \E key \in CtrlKeys \cap Keys[cur] : HeldBefore(cur, key)
       /\ \E key \in AltKeys \cap Keys[cur] : HeldBefore(cur, key)]_vars
=============================================================================
