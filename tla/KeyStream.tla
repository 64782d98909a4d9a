------------------------------ MODULE KeyStream ------------------------------
(***************************************************************************)
(* What a compositor may rely on when it reads KEYBOARD_KEY events of the  *)
(* library: for every key of every keyboard a well-formed stream           *)
(*      (PRESSED  REPEAT*  RELEASED)*                                      *)
(* whose repeats are spaced by the repeat delay and the repeat interval,   *)
(* and nothing at all after DEVICE_REMOVED.  A key that was already down   *)
(* when the device was opened starts with its RELEASED.                    *)
(*                                                                         *)
(* Keyboard.tla shows that the backend's keyboard path implements this.    *)
(***************************************************************************)
EXTENDS Naturals

CONSTANTS
  Keyboard,        \* keyboard devices
  Key,             \* key codes
  RepeatDelay,     \* REPEAT_DELAY_MS, in ticks
  RepeatInterval   \* REPEAT_INTERVAL_MS, in ticks

VARIABLES
  sent,    \* sent[d][k]: the last thing the client was told of key k
  since    \* since[d][k]: age of that PRESSED or REPEAT, saturated at Cap

streamVars == <<sent, since>>

Cap == IF RepeatDelay > RepeatInterval THEN RepeatDelay ELSE RepeatInterval

\* Age of a timestamp one tick later; ages above Cap are never told apart.
Older(age) == IF age < Cap THEN age + 1 ELSE Cap

\* The client believes the key is held.
HeldStates == {"pressed", "repeat"}

\* What the next repeat of a key must wait for since the last event.
Wait(state) == IF state = "repeat" THEN RepeatInterval ELSE RepeatDelay

Init ==
  /\ sent = [d \in Keyboard |-> [k \in Key |-> "none"]]
  /\ since = [d \in Keyboard |-> [k \in Key |-> 0]]

Press(d, k) ==
  /\ sent[d][k] \in {"none", "released"}
  /\ sent' = [sent EXCEPT ![d][k] = "pressed"]
  /\ since' = [since EXCEPT ![d][k] = 0]

Release(d, k) ==
  /\ sent[d][k] \in {"none"} \cup HeldStates
  /\ sent' = [sent EXCEPT ![d][k] = "released"]
  /\ since' = [since EXCEPT ![d][k] = 0]

\* A burst of repeats, at most one per key, each of a held key that has
\* waited long enough.
Repeat(S) ==
  /\ \A p \in S : /\ sent[p[1]][p[2]] \in HeldStates
                  /\ since[p[1]][p[2]] >= Wait(sent[p[1]][p[2]])
  /\ sent' = [d \in Keyboard |-> [k \in Key |->
                IF <<d, k>> \in S THEN "repeat" ELSE sent[d][k]]]
  /\ since' = [d \in Keyboard |-> [k \in Key |->
                IF <<d, k>> \in S THEN 0 ELSE since[d][k]]]

Remove(d) ==
  /\ sent' = [sent EXCEPT ![d] = [k \in Key |-> "gone"]]
  /\ since' = [since EXCEPT ![d] = [k \in Key |-> 0]]

Tick ==
  /\ since' = [d \in Keyboard |-> [k \in Key |->
                IF sent[d][k] \in HeldStates THEN Older(since[d][k])
                                             ELSE since[d][k]]]
  /\ UNCHANGED sent

Next ==
  \/ \E d \in Keyboard, k \in Key : Press(d, k) \/ Release(d, k)
  \/ \E S \in SUBSET (Keyboard \X Key) : Repeat(S)
  \/ \E d \in Keyboard : Remove(d)
  \/ Tick

Spec == Init /\ [][Next]_streamVars
=============================================================================
