----------------------------- MODULE MotionProofs -----------------------------
(***************************************************************************)
(* Proofs, for any pad, slots, scales and denominator, that the table of   *)
(* slots is what is on the pad, that a frame moves what its oldest contact *)
(* travelled, that a pinch is measured from where it began and that        *)
(* rounding loses nothing.                                                 *)
(***************************************************************************)
EXTENDS Motion, SequenceTheorems, FiniteSetTheorems, WellFoundedInduction, TLAPS

USE MotionAssumption DEF Axis

-----------------------------------------------------------------------------
(* Sets of slots *)

\* Some element of A is the least.
HasLeast(A) == \E n \in A : \A m \in A : n <= m

LEMMA LeastElement ==
  ASSUME NEW S \in SUBSET Nat, IsFiniteSet(S), S # {}
  PROVE  HasLeast(S)
<1> DEFINE T == {A \in SUBSET S : A # {} /\ ~HasLeast(A)}
<1> SUFFICES ASSUME ~HasLeast(S) PROVE FALSE
  OBVIOUS
<1>1. T \subseteq SUBSET S /\ T # {}
  OBVIOUS
<1>2. IsWellFoundedOn(StrictSubsetOrdering(S), SUBSET S)
  <2>1. IsWellFoundedOn(StrictSubsetOrdering(S), FiniteSubsetsOf(S))
    BY FS_StrictSubsetOrderingWellFounded
  <2> QED
    BY <2>1, FS_FiniteSubsetsOfFinite
<1> HIDE DEF T
<1>3. PICK A \in T : \A B \in T : ~(<<B, A>> \in StrictSubsetOrdering(S))
  BY <1>1, <1>2, WFMin
<1> USE DEF T
<1>4. PICK x \in A : TRUE
  BY <1>3
<1>5. CASE A \ {x} = {}
  <2>1. A = {x}
    BY <1>4, <1>5
  <2> QED
    BY <1>3, <2>1 DEF HasLeast
<1>6. CASE A \ {x} # {}
  <2>1. <<A \ {x}, A>> \in StrictSubsetOrdering(S)
    BY <1>4 DEF StrictSubsetOrdering
  <2>2. HasLeast(A \ {x})
    BY <1>3, <1>6, <2>1
  <2>3. PICK n \in A \ {x} : \A m \in A \ {x} : n <= m
    BY <2>2 DEF HasLeast
  <2>4. CASE n <= x
    BY <1>3, <2>3, <2>4 DEF HasLeast
  <2>5. CASE ~(n <= x)
    <3>1. \A m \in A : x <= m
      BY <2>3, <2>5
    <3> QED
      BY <1>3, <1>4, <3>1 DEF HasLeast
  <2> QED
    BY <2>4, <2>5
<1> QED
  BY <1>5, <1>6

\* The lowest two of some slots are two slots of them, or the only one.
LEMMA FirstTwoAreTwo ==
  ASSUME NEW S \in SUBSET Nat, IsFiniteSet(S), S # {}
  PROVE  \E s, t \in S : FirstTwo(S) = {s, t}
<1>1. PICK s \in S : \A m \in S : s <= m
  BY LeastElement DEF HasLeast
<1>2. {r \in S : r < s} = {}
  <2>1. \A m \in S : m \in Nat
    OBVIOUS
  <2>2. ASSUME NEW r \in S, r < s PROVE FALSE
    BY <1>1, <2>1, <2>2
  <2> QED
    BY <2>2
<1>3. s \in FirstTwo(S)
  BY <1>2, FS_EmptySet DEF FirstTwo
<1>4. CASE S \ {s} = {}
  <2>1. FirstTwo(S) = {s, s}
    BY <1>3, <1>4 DEF FirstTwo
  <2> QED
    BY <2>1
<1>5. CASE S \ {s} # {}
  <2> DEFINE R == S \ {s}
  <2>1. IsFiniteSet(R) /\ R \in SUBSET Nat
    BY FS_Subset
  <2>2. PICK t \in R : \A m \in R : t <= m
    BY <1>5, <2>1, LeastElement DEF HasLeast
  <2>3. {r \in S : r < t} = {s}
    <3>1. \A m \in S : m \in Nat
      OBVIOUS
    <3>2. s < t
      BY <1>1, <2>2, <3>1
    <3>3. ASSUME NEW r \in S, r < t PROVE r = s
      BY <2>2, <3>1, <3>3
    <3> QED
      BY <3>2, <3>3
  <2>4. t \in FirstTwo(S)
    BY <2>3, FS_Singleton DEF FirstTwo
  <2>5. ASSUME NEW u \in FirstTwo(S), u # s, u # t PROVE FALSE
    <3> DEFINE B == {r \in S : r < u}
    <3>1. u \in S /\ IsFiniteSet(B) /\ Cardinality(B) < 2
      BY <2>5, FS_Subset DEF FirstTwo
    <3>2. {s, t} \subseteq B
      BY <1>1, <2>2, <2>5, <3>1
    <3>3. Cardinality({s, t}) = 2
      <4>1. {s, t} = {s} \cup {t} /\ t \notin {s}
        BY <2>2
      <4>2. IsFiniteSet({s}) /\ Cardinality({s}) = 1
        BY FS_Singleton
      <4>3. Cardinality({s} \cup {t}) = Cardinality({s}) + 1
        BY <4>1, <4>2, FS_AddElement
      <4> QED
        BY <4>1, <4>2, <4>3
    <3> QED
      BY <3>1, <3>2, <3>3, FS_Subset, FS_CardinalityType
  <2>6. FirstTwo(S) = {s, t}
    BY <1>3, <2>4, <2>5
  <2> QED
    BY <2>2, <2>6
<1> QED
  BY <1>4, <1>5

\* How far apart two places are is a number, whichever is taken first.
LEMMA ApartIsNat ==
  ASSUME NEW s, NEW t, NEW places \in [{s, t} -> [Axis -> Int]]
  PROVE  Apart(places) \in Nat
<1> DEFINE u == CHOOSE u \in DOMAIN places : TRUE
           v == CHOOSE v \in DOMAIN places : DOMAIN places = {u, v}
<1>1. u \in {s, t}
  OBVIOUS
<1>2. \E w \in DOMAIN places : DOMAIN places = {u, w}
  BY <1>1
<1>3. v \in {s, t}
  BY <1>2
<1> HIDE DEF u, v
<1>4. \A n \in Int : Square(n) \in Nat
  BY DEF Square
<1>5. \A a \in Axis : places[u][a] - places[v][a] \in Int
  BY <1>1, <1>3
<1> DEFINE m == Square(places[u]["x"] - places[v]["x"])
           n == Square(places[u]["y"] - places[v]["y"])
<1>6. m \in Nat /\ n \in Nat
  BY <1>4, <1>5
<1>7. Apart(places) = m + n
  BY DEF Apart, u, v
<1> QED
  BY <1>6, <1>7

-----------------------------------------------------------------------------
(* What a group is made of *)

LEMMA RankIs ==
  /\ Rank["mt_slot"] = 1 /\ Rank["mt_id"] = 2 /\ Rank["mt_x"] = 3 /\ Rank["mt_y"] = 4
  /\ Rank["touch"] = 1 /\ Rank["doubletap"] = 2 /\ Rank["tripletap"] = 3
  /\ Rank["abs_x"] = 4 /\ Rank["abs_y"] = 5 /\ Rank["syn"] = 6
  /\ DOMAIN Rank = {"mt_slot", "mt_id", "mt_x", "mt_y", "touch", "doubletap", "tripletap",
                    "abs_x", "abs_y", "syn"}
  BY DEF Rank

LEMMA CodesOfAxes ==
  /\ MtCode["x"] = "mt_x" /\ MtCode["y"] = "mt_y"
  /\ AbsCode["x"] = "abs_x" /\ AbsCode["y"] = "abs_y"
  BY DEF MtCode, AbsCode

LEMMA RankIsNat == \A e \in Events : Rank[e.code] \in 1..6
  BY RankIs DEF Events

Has(s, code) == \E i \in DOMAIN s : s[i].code = code

LEMMA Joined ==
  ASSUME NEW S, NEW s \in Seq(S), NEW t \in Seq(S), NEW i \in DOMAIN (s \o t)
  PROVE  \/ i \in DOMAIN s /\ (s \o t)[i] = s[i]
         \/ i - Len(s) \in DOMAIN t /\ (s \o t)[i] = t[i - Len(s)]
  OBVIOUS

LEMMA HasJoined ==
  ASSUME NEW s \in Seq(Events), NEW t \in Seq(Events), NEW code
  PROVE  Has(s, code) \/ Has(t, code) => Has(s \o t, code)
<1>1. ASSUME Has(s, code) PROVE Has(s \o t, code)
  <2>1. PICK i \in DOMAIN s : s[i].code = code
    BY <1>1 DEF Has
  <2>2. i \in DOMAIN (s \o t) /\ (s \o t)[i] = s[i]
    OBVIOUS
  <2> QED
    BY <2>1, <2>2 DEF Has
<1>2. ASSUME Has(t, code) PROVE Has(s \o t, code)
  <2>1. PICK i \in DOMAIN t : t[i].code = code
    BY <1>2 DEF Has
  <2>2. Len(s) + i \in DOMAIN (s \o t) /\ (s \o t)[Len(s) + i] = t[i]
    OBVIOUS
  <2> QED
    BY <2>1, <2>2 DEF Has
<1> QED
  BY <1>1, <1>2

\* Events of Q in the order of their ranks, which are lo to hi.
Staged(s, lo, hi, Q) ==
  /\ s \in Seq(Events)
  /\ \A i \in DOMAIN s : s[i] \in Q /\ lo <= Rank[s[i].code] /\ Rank[s[i].code] <= hi
  /\ Rising(s)

LEMMA StagesJoin ==
  ASSUME NEW lo \in Int, NEW mid \in Int, NEW hi \in Int, lo <= mid, mid <= hi,
         NEW Q, NEW s, NEW t, Staged(s, lo, mid, Q), Staged(t, mid + 1, hi, Q)
  PROVE  Staged(s \o t, lo, hi, Q)
<1> DEFINE u == s \o t
<1>1. s \in Seq(Events) /\ t \in Seq(Events) /\ u \in Seq(Events)
  BY DEF Staged
<1>2. \A i \in DOMAIN u : \/ i \in DOMAIN s /\ u[i] = s[i]
                          \/ i - Len(s) \in DOMAIN t /\ u[i] = t[i - Len(s)]
  BY <1>1, Joined
<1>3. /\ DOMAIN s = 1..Len(s) /\ DOMAIN t = 1..Len(t) /\ Len(s) \in Nat /\ Len(t) \in Nat
      /\ DOMAIN u \subseteq Nat
  BY <1>1
<1>4. \A i \in DOMAIN u : Rank[u[i].code] \in Int
  <2>1. \A i \in DOMAIN u : u[i] \in Events
    BY <1>1
  <2> QED
    BY <2>1, RankIsNat
<1> HIDE DEF u
<1>5. ASSUME NEW i \in DOMAIN u
      PROVE  u[i] \in Q /\ lo <= Rank[u[i].code] /\ Rank[u[i].code] <= hi
  <2>1. CASE i \in DOMAIN s /\ u[i] = s[i]
    BY <1>4, <2>1 DEF Staged
  <2>2. CASE i - Len(s) \in DOMAIN t /\ u[i] = t[i - Len(s)]
    BY <1>4, <2>2 DEF Staged
  <2> QED
    BY <1>2, <2>1, <2>2
<1>6. ASSUME NEW i \in DOMAIN u, NEW j \in DOMAIN u, i < j
      PROVE  Rank[u[i].code] < Rank[u[j].code]
  <2>1. CASE i \in DOMAIN s /\ u[i] = s[i] /\ j \in DOMAIN s /\ u[j] = s[j]
    BY <1>6, <2>1 DEF Staged, Rising
  <2>2. CASE i \in DOMAIN s /\ u[i] = s[i] /\ j - Len(s) \in DOMAIN t /\ u[j] = t[j - Len(s)]
    <3>1. Rank[u[i].code] <= mid /\ mid + 1 <= Rank[u[j].code]
      BY <2>2 DEF Staged
    <3> QED
      BY <1>4, <3>1
  <2>3. CASE /\ i - Len(s) \in DOMAIN t /\ u[i] = t[i - Len(s)]
             /\ j - Len(s) \in DOMAIN t /\ u[j] = t[j - Len(s)]
    <3>1. i - Len(s) < j - Len(s)
      BY <1>3, <1>6
    <3> QED
      BY <2>3, <3>1 DEF Staged, Rising
  <2>4. CASE i - Len(s) \in DOMAIN t /\ j \in DOMAIN s
    BY <1>3, <1>6, <2>4
  <2> QED
    BY <1>2, <2>1, <2>2, <2>3, <2>4
<1>7. Rising(u)
  BY <1>6 DEF Rising
<1> QED
  BY <1>1, <1>5, <1>7 DEF Staged, u

LEMMA WhenIsStaged ==
  ASSUME NEW b, NEW Q, NEW e \in Events, b => e \in Q
  PROVE  /\ Staged(When(b, <<e>>), Rank[e.code], Rank[e.code], Q)
         /\ b => Has(When(b, <<e>>), e.code)
<1> DEFINE s == <<e>>
<1>1. s \in Seq(Events) /\ DOMAIN s = {1} /\ s[1] = e
  OBVIOUS
<1>2. Rank[e.code] \in Int
  BY RankIsNat
<1> HIDE DEF s
<1>3. (b => Staged(s, Rank[e.code], Rank[e.code], Q)) /\ Has(s, e.code)
  BY <1>1, <1>2 DEF Staged, Rising, Has
<1>4. Staged(<<>>, Rank[e.code], Rank[e.code], Q)
  BY DEF Staged, Rising
<1> QED
  BY <1>3, <1>4 DEF When, s

\* What a changed slot is told of.
TruthsOf(s, D, to) ==
  {Event("mt_slot", s), Event("mt_id", IF s \in D THEN 1 ELSE -1),
   Event("mt_x", to[s]["x"]), Event("mt_y", to[s]["y"])}

LEMMA EventsAreEvents ==
  /\ \A code \in DOMAIN Rank, v \in Int : Event(code, v) \in Events
  /\ \A code, v : Event(code, v).code = code /\ Event(code, v).value = v
  BY DEF Event, Events

LEMMA SlotEventsAreStaged ==
  ASSUME HwSlots \subseteq Nat, NEW s \in HwSlots, NEW named, NEW D, NEW to,
         to[s] \in [Axis -> Int]
  PROVE  /\ Staged(SlotEvents(s, named, D, to), 1, 4, TruthsOf(s, D, to))
         /\ s # named => Has(SlotEvents(s, named, D, to), "mt_slot")
         /\ (s \in D) # (s \in Down) => Has(SlotEvents(s, named, D, to), "mt_id")
         /\ \A a \in Axis : to[s][a] # at[s][a] => Has(SlotEvents(s, named, D, to), MtCode[a])
<1> DEFINE Q == TruthsOf(s, D, to)
           a == When(s # named, <<Event("mt_slot", s)>>)
           b == When((s \in D) # (s \in Down), <<Event("mt_id", IF s \in D THEN 1 ELSE -1)>>)
           c == When(to[s]["x"] # at[s]["x"], <<Event("mt_x", to[s]["x"])>>)
           d == When(to[s]["y"] # at[s]["y"], <<Event("mt_y", to[s]["y"])>>)
<1>1. Staged(a, 1, 1, Q) /\ (s # named => Has(a, "mt_slot"))
  <2> DEFINE e == Event("mt_slot", s)
             p == s # named
  <2>1. e \in Events /\ e \in Q /\ e.code = "mt_slot"
    BY RankIs, EventsAreEvents DEF TruthsOf
  <2> HIDE DEF e, p, Q
  <2>2. Staged(When(p, <<e>>), 1, 1, Q) /\ (p => Has(When(p, <<e>>), "mt_slot"))
    BY <2>1, WhenIsStaged, RankIs
  <2> QED
    BY <2>2 DEF e, p
<1>2. Staged(b, 2, 2, Q) /\ ((s \in D) # (s \in Down) => Has(b, "mt_id"))
  <2> DEFINE e == Event("mt_id", IF s \in D THEN 1 ELSE -1)
             p == (s \in D) # (s \in Down)
  <2>1. e \in Events /\ e \in Q /\ e.code = "mt_id"
    BY RankIs, EventsAreEvents DEF TruthsOf
  <2> HIDE DEF e, p, Q
  <2>2. Staged(When(p, <<e>>), 2, 2, Q) /\ (p => Has(When(p, <<e>>), "mt_id"))
    BY <2>1, WhenIsStaged, RankIs
  <2> QED
    BY <2>2 DEF e, p
<1>3. Staged(c, 3, 3, Q) /\ (to[s]["x"] # at[s]["x"] => Has(c, "mt_x"))
  <2> DEFINE e == Event("mt_x", to[s]["x"])
             p == to[s]["x"] # at[s]["x"]
  <2>1. e \in Events /\ e \in Q /\ e.code = "mt_x"
    BY RankIs, EventsAreEvents DEF TruthsOf
  <2> HIDE DEF e, p, Q
  <2>2. Staged(When(p, <<e>>), 3, 3, Q) /\ (p => Has(When(p, <<e>>), "mt_x"))
    BY <2>1, WhenIsStaged, RankIs
  <2> QED
    BY <2>2 DEF e, p
<1>4. Staged(d, 4, 4, Q) /\ (to[s]["y"] # at[s]["y"] => Has(d, "mt_y"))
  <2> DEFINE e == Event("mt_y", to[s]["y"])
             p == to[s]["y"] # at[s]["y"]
  <2>1. e \in Events /\ e \in Q /\ e.code = "mt_y"
    BY RankIs, EventsAreEvents DEF TruthsOf
  <2> HIDE DEF e, p, Q
  <2>2. Staged(When(p, <<e>>), 4, 4, Q) /\ (p => Has(When(p, <<e>>), "mt_y"))
    BY <2>1, WhenIsStaged, RankIs
  <2> QED
    BY <2>2 DEF e, p
<1>5. SlotEvents(s, named, D, to) = a \o b \o c \o d
  BY DEF SlotEvents
<1> HIDE DEF a, b, c, d, Q
<1>6. Staged(a \o b, 1, 2, Q)
  BY <1>1, <1>2, StagesJoin
<1>7. Staged(a \o b \o c, 1, 3, Q)
  BY <1>3, <1>6, StagesJoin
<1>8. Staged(a \o b \o c \o d, 1, 4, Q)
  BY <1>4, <1>7, StagesJoin
<1>9. \A code : Has(a, code) \/ Has(b, code) \/ Has(c, code) \/ Has(d, code)
                  => Has(a \o b \o c \o d, code)
  <2>1. /\ a \in Seq(Events) /\ b \in Seq(Events) /\ c \in Seq(Events) /\ d \in Seq(Events)
        /\ a \o b \in Seq(Events) /\ a \o b \o c \in Seq(Events)
    BY <1>1, <1>2, <1>3, <1>4, <1>6, <1>7 DEF Staged
  <2> QED
    BY <2>1, HasJoined
<1>10. \A x \in Axis : to[s][x] # at[s][x] => Has(a \o b \o c \o d, MtCode[x])
  BY <1>3, <1>4, <1>9, CodesOfAxes
<1>11. (s \in D) # (s \in Down) => Has(a \o b \o c \o d, "mt_id")
  BY <1>2, <1>9
<1>12. s # named => Has(a \o b \o c \o d, "mt_slot")
  BY <1>1, <1>9
<1>13. Staged(SlotEvents(s, named, D, to), 1, 4, TruthsOf(s, D, to))
  BY <1>5, <1>8 DEF Q
<1> QED
  BY <1>5, <1>10, <1>11, <1>12, <1>13

\* What the pad is told of when n contacts become m, the oldest of them at p.
PadTruths(n, m, p) ==
  {e \in Events :
     /\ Rank[e.code] = 1 => /\ e.code = "touch" /\ e.value = Bit(m > 0)
                            /\ n > 0 <=> ~(m > 0)
     /\ Rank[e.code] = 2 => /\ e.code = "doubletap" /\ e.value \in {0, 1}
                            /\ 2 <= Cardinality(HwSlots)
     /\ Rank[e.code] = 3 => /\ e.code = "tripletap" /\ e.value \in {0, 1}
                            /\ 3 <= Cardinality(HwSlots)
     /\ Rank[e.code] = 4 => e.code = "abs_x" /\ e.value = p["x"] /\ p["x"] # abs["x"]
     /\ Rank[e.code] = 5 => e.code = "abs_y" /\ e.value = p["y"] /\ p["y"] # abs["y"]
     /\ Rank[e.code] = 6 => e.code = "syn" /\ e.value = 0}

LEMMA BitIsInt == \A b : Bit(b) \in {0, 1} /\ Bit(b) \in Int
  BY DEF Bit

LEMMA ChangedIsStaged ==
  ASSUME NEW code \in DOMAIN Rank, NEW before \in BOOLEAN, NEW after \in BOOLEAN, NEW Q,
         (before <=> ~after) => Event(code, Bit(after)) \in Q
  PROVE  /\ Staged(Changed(code, before, after), Rank[code], Rank[code], Q)
         /\ (before <=> ~after) => Has(Changed(code, before, after), code)
<1> DEFINE e == Event(code, Bit(after))
           b == before # after
<1>1. e \in Events /\ e.code = code
  BY BitIsInt, EventsAreEvents
<1>2. b <=> (before <=> ~after)
  OBVIOUS
<1>3. Changed(code, before, after) = When(b, <<e>>)
  BY DEF Changed
<1> HIDE DEF e, b
<1>4. b => e \in Q
  BY <1>2 DEF e
<1> QED
  BY <1>1, <1>2, <1>3, <1>4, WhenIsStaged

LEMMA PadEventsAreStaged ==
  ASSUME Cardinality(HwSlots) \in Nat,
         NEW n \in 0..Cardinality(HwSlots), NEW m \in 0..Cardinality(HwSlots),
         NEW p \in [Axis -> Int]
  PROVE  LET s == PadEvents(n, m, p)
         IN  /\ Staged(s, 1, 6, PadTruths(n, m, p))
             /\ s # <<>> /\ s[Len(s)].code = "syn"
             /\ (n > 0 <=> ~(m > 0)) => Has(s, "touch")
             /\ \A a \in Axis : p[a] # abs[a] => Has(s, AbsCode[a])
<1> DEFINE Q == PadTruths(n, m, p)
           a == Changed("touch", n > 0, m > 0)
           b == Changed("doubletap", n = 2, m = 2)
           c == Changed("tripletap", n = 3, m = 3)
           d == When(p["x"] # abs["x"], <<Event("abs_x", p["x"])>>)
           e == When(p["y"] # abs["y"], <<Event("abs_y", p["y"])>>)
           f == <<Event("syn", 0)>>
           s == PadEvents(n, m, p)
<1>1. Staged(a, 1, 1, Q) /\ ((n > 0 <=> ~(m > 0)) => Has(a, "touch"))
  <2> DEFINE before == n > 0
             after == m > 0
  <2>1. before \in BOOLEAN /\ after \in BOOLEAN /\ "touch" \in DOMAIN Rank
    BY RankIs
  <2>2. (before <=> ~after) => Event("touch", Bit(after)) \in Q
    BY RankIs, BitIsInt, EventsAreEvents DEF PadTruths
  <2> HIDE DEF before, after, Q
  <2>3. Staged(Changed("touch", before, after), 1, 1, Q)
        /\ ((before <=> ~after) => Has(Changed("touch", before, after), "touch"))
    BY <2>1, <2>2, RankIs, ChangedIsStaged
  <2> QED
    BY <2>3 DEF before, after
<1>2. Staged(b, 2, 2, Q)
  <2> DEFINE before == n = 2
             after == m = 2
  <2>1. before \in BOOLEAN /\ after \in BOOLEAN /\ "doubletap" \in DOMAIN Rank
    BY RankIs
  <2>2. (before <=> ~after) => Event("doubletap", Bit(after)) \in Q
    <3>1. (before <=> ~after) => 2 <= Cardinality(HwSlots)
      OBVIOUS
    <3> HIDE DEF before, after
    <3> QED
      BY <3>1, RankIs, BitIsInt, EventsAreEvents DEF PadTruths
  <2> HIDE DEF before, after, Q
  <2>3. Staged(Changed("doubletap", before, after), 2, 2, Q)
    BY <2>1, <2>2, RankIs, ChangedIsStaged
  <2> QED
    BY <2>3 DEF before, after
<1>3. Staged(c, 3, 3, Q)
  <2> DEFINE before == n = 3
             after == m = 3
  <2>1. before \in BOOLEAN /\ after \in BOOLEAN /\ "tripletap" \in DOMAIN Rank
    BY RankIs
  <2>2. (before <=> ~after) => Event("tripletap", Bit(after)) \in Q
    <3>1. (before <=> ~after) => 3 <= Cardinality(HwSlots)
      OBVIOUS
    <3> HIDE DEF before, after
    <3> QED
      BY <3>1, RankIs, BitIsInt, EventsAreEvents DEF PadTruths
  <2> HIDE DEF before, after, Q
  <2>3. Staged(Changed("tripletap", before, after), 3, 3, Q)
    BY <2>1, <2>2, RankIs, ChangedIsStaged
  <2> QED
    BY <2>3 DEF before, after
<1>4. Staged(d, 4, 4, Q) /\ (p["x"] # abs["x"] => Has(d, "abs_x"))
  <2> DEFINE x == Event("abs_x", p["x"])
             q == p["x"] # abs["x"]
  <2>1. x \in Events /\ (q => x \in Q) /\ x.code = "abs_x"
    BY RankIs, EventsAreEvents DEF PadTruths
  <2> HIDE DEF x, q, Q
  <2>2. Staged(When(q, <<x>>), 4, 4, Q) /\ (q => Has(When(q, <<x>>), "abs_x"))
    BY <2>1, WhenIsStaged, RankIs
  <2> QED
    BY <2>2 DEF x, q
<1>5. Staged(e, 5, 5, Q) /\ (p["y"] # abs["y"] => Has(e, "abs_y"))
  <2> DEFINE x == Event("abs_y", p["y"])
             q == p["y"] # abs["y"]
  <2>1. x \in Events /\ (q => x \in Q) /\ x.code = "abs_y"
    BY RankIs, EventsAreEvents DEF PadTruths
  <2> HIDE DEF x, q, Q
  <2>2. Staged(When(q, <<x>>), 5, 5, Q) /\ (q => Has(When(q, <<x>>), "abs_y"))
    BY <2>1, WhenIsStaged, RankIs
  <2> QED
    BY <2>2 DEF x, q
<1>6. Staged(f, 6, 6, Q) /\ f \in Seq(Events) /\ Len(f) = 1 /\ f[1].code = "syn"
  <2> DEFINE x == Event("syn", 0)
  <2>1. x \in Events /\ x \in Q /\ x.code = "syn"
    BY RankIs, EventsAreEvents DEF PadTruths
  <2> HIDE DEF x, Q
  <2>2. Staged(When(TRUE, <<x>>), 6, 6, Q)
    BY <2>1, WhenIsStaged, RankIs
  <2>3. When(TRUE, <<x>>) = <<x>>
    BY DEF When
  <2>4. <<x>> \in Seq(Events) /\ Len(<<x>>) = 1 /\ <<x>>[1] = x
    BY <2>1
  <2> QED
    BY <2>1, <2>2, <2>3, <2>4 DEF x
<1>7. s = a \o b \o c \o (d \o e) \o f
  BY DEF PadEvents, Touches, SingleTouch
<1> HIDE DEF a, b, c, d, e, f, Q, s
<1>8. Staged(a \o b, 1, 2, Q)
  BY <1>1, <1>2, StagesJoin
<1>9. Staged(a \o b \o c, 1, 3, Q)
  BY <1>8, <1>3, StagesJoin
<1>10. Staged(d \o e, 4, 5, Q)
  BY <1>4, <1>5, StagesJoin
<1>11. Staged(a \o b \o c \o (d \o e), 1, 5, Q)
  BY <1>9, <1>10, StagesJoin
<1>12. Staged(s, 1, 6, Q)
  BY <1>6, <1>7, <1>11, StagesJoin
<1>13. /\ a \in Seq(Events) /\ b \in Seq(Events) /\ c \in Seq(Events) /\ d \in Seq(Events)
       /\ e \in Seq(Events) /\ a \o b \in Seq(Events) /\ a \o b \o c \in Seq(Events)
       /\ d \o e \in Seq(Events) /\ a \o b \o c \o (d \o e) \in Seq(Events)
  BY <1>1, <1>2, <1>3, <1>4, <1>5, <1>8, <1>9, <1>10, <1>11 DEF Staged
<1>14. Len(s) = Len(a \o b \o c \o (d \o e)) + 1 /\ s[Len(s)] = f[1] /\ s # <<>>
  <2> DEFINE t == a \o b \o c \o (d \o e)
  <2>1. t \in Seq(Events) /\ s = t \o f
    BY <1>7, <1>13
  <2> HIDE DEF t
  <2>2. Len(t) \in Nat /\ Len(s) = Len(t) + 1 /\ s[Len(t) + 1] = f[1]
    <3>1. t \o f \in Seq(Events) /\ Len(t \o f) = Len(t) + Len(f) /\ Len(t) \in Nat
      BY <1>6, <2>1, ConcatProperties, LenProperties
    <3>2. \A i \in 1..Len(t) + Len(f) : (t \o f)[i] = IF i <= Len(t) THEN t[i] ELSE f[i - Len(t)]
      BY <1>6, <2>1, ConcatProperties
    <3> QED
      BY <1>6, <2>1, <3>1, <3>2
  <2>3. s # <<>>
    <3>1. s \in Seq(Events)
      BY <1>12 DEF Staged
    <3> QED
      BY <2>2, <3>1
  <2> QED
    BY <2>2, <2>3 DEF t
<1>15. \A code : Has(a, code) \/ Has(d, code) \/ Has(e, code) => Has(s, code)
  <2>1. \A code : Has(a, code) => Has(a \o b, code)
    BY <1>13, HasJoined
  <2>2. \A code : Has(a \o b, code) => Has(a \o b \o c, code)
    BY <1>13, HasJoined
  <2>3. \A code : Has(d, code) \/ Has(e, code) => Has(d \o e, code)
    BY <1>13, HasJoined
  <2>4. \A code : Has(a \o b \o c, code) \/ Has(d \o e, code)
                    => Has(a \o b \o c \o (d \o e), code)
    BY <1>13, HasJoined
  <2>5. \A code : Has(a \o b \o c \o (d \o e), code) => Has(s, code)
    BY <1>6, <1>7, <1>13, HasJoined
  <2> QED
    BY <2>1, <2>2, <2>3, <2>4, <2>5
<1>16. \A x \in Axis : p[x] # abs[x] => Has(s, AbsCode[x])
  BY <1>4, <1>5, <1>15, CodesOfAxes
<1>17. (n > 0 <=> ~(m > 0)) => Has(s, "touch")
  BY <1>1, <1>15
<1> QED
  BY <1>6, <1>12, <1>14, <1>16, <1>17 DEF Q, s

-----------------------------------------------------------------------------
(* What a frame is made of *)

\* As many distinct elements of S as it has are all of it.
LEMMA Onto ==
  ASSUME NEW S, IsFiniteSet(S), NEW f \in [1..Cardinality(S) -> S], IsInjective(f)
  PROVE  /\ f \in Seq(S) /\ Len(f) = Cardinality(S) /\ Cardinality(S) \in Nat
         /\ Range(f) = S
         /\ \A s \in S : \E i \in 1..Cardinality(S) : f[i] = s
<1>1. Cardinality(S) \in Nat
  BY FS_CardinalityType
<1>2. IsFiniteSet(1..Cardinality(S)) /\ Cardinality(1..Cardinality(S)) = Cardinality(S)
  BY <1>1, FS_Interval
<1>3. f \in Injection(1..Cardinality(S), S)
  BY DEF Injection
<1>4. f \in Surjection(1..Cardinality(S), S)
  BY <1>2, <1>3, FS_Injection
<1>5. \A s \in S : \E i \in 1..Cardinality(S) : f[i] = s
  BY <1>4 DEF Surjection
<1>6. f \in Seq(S) /\ Len(f) = Cardinality(S)
  BY <1>1
<1>7. Range(f) = S
  BY <1>5 DEF Range
<1> QED
  BY <1>1, <1>5, <1>6, <1>7

\* The oldest contact of `after`, or where the last one was.
Foremost(to, after) == IF after = <<>> THEN abs ELSE to[after[1]]

\* What SendFrame chooses and does.
Sends(D, to, changed, after) ==
  /\ frame = <<>>
  /\ Cardinality(ChangedSlots(D, to)) >= 1
  /\ changed \in Ascending(ChangedSlots(D, to))
  /\ after \in ByAge(D)
  /\ frame' = Append(MtGroups(changed, D, to),
                     Group(Pad, PadEvents(Len(order), Len(after), Foremost(to, after))))
  /\ order' = after
  /\ at' = to
  /\ mt_slot' = changed[Len(changed)]
  /\ abs' = Foremost(to, after)
  /\ steady' = (order # <<>> /\ after # <<>> => order[1] = after[1])
  /\ travel' = IF order # <<>> /\ after # <<>>
               THEN [a \in Axis |-> to[after[1]][a] - at[after[1]][a]]
               ELSE Still
  /\ seen' = IF order = <<>> THEN {} ELSE now
  /\ now' = seen' \cup {a \in Axis : abs'[a] # abs[a]}

\* What the slots and the contacts of a frame are.
LEMMA ChoicesOfFrame ==
  ASSUME ContactsOK, NEW D \in SUBSET HwSlots, NEW to, NEW changed, NEW after,
         changed \in Ascending(ChangedSlots(D, to)), after \in ByAge(D)
  PROVE  /\ IsFiniteSet(ChangedSlots(D, to)) /\ ChangedSlots(D, to) \subseteq HwSlots
         /\ changed \in Seq(HwSlots) /\ Len(changed) = Cardinality(ChangedSlots(D, to))
         /\ Range(changed) = ChangedSlots(D, to)
         /\ \A i, j \in 1..Len(changed) : i < j => changed[i] < changed[j]
         /\ IsFiniteSet(D)
         /\ after \in Seq(HwSlots) /\ Range(after) = D
         /\ IsInjective(after) /\ Len(after) <= Cardinality(HwSlots)
         /\ after = <<>> <=> D = {}
<1>1. IsFiniteSet(HwSlots) /\ HwSlots \subseteq Nat
  BY ContactsAssumption
<1>2. /\ IsFiniteSet(ChangedSlots(D, to)) /\ ChangedSlots(D, to) \subseteq HwSlots
      /\ IsFiniteSet(D) /\ Cardinality(D) <= Cardinality(HwSlots)
  <2>1. ChangedSlots(D, to) \in SUBSET HwSlots
    BY DEF ChangedSlots
  <2> QED
    BY <1>1, <2>1, FS_Subset
<1>3. /\ changed \in [1..Cardinality(ChangedSlots(D, to)) -> ChangedSlots(D, to)]
      /\ \A i, j \in DOMAIN changed : i < j => changed[i] < changed[j]
  BY DEF Ascending
<1>4. /\ after \in [1..Cardinality(D) -> D]
      /\ \A i, j \in DOMAIN after : i < j => Older(after[i], after[j])
  BY DEF ByAge
<1>5. IsInjective(changed)
  <2>1. \A i \in DOMAIN changed : i \in Nat /\ changed[i] \in Nat
    <3>1. Cardinality(ChangedSlots(D, to)) \in Nat
      BY <1>2, FS_CardinalityType
    <3>2. \A i \in DOMAIN changed : i \in Nat /\ changed[i] \in ChangedSlots(D, to)
      BY <1>3, <3>1
    <3> QED
      BY <1>1, <1>2, <3>2
  <2>2. ASSUME NEW i \in DOMAIN changed, NEW j \in DOMAIN changed, changed[i] = changed[j]
        PROVE  i = j
    <3>1. ~(changed[i] < changed[j]) /\ ~(changed[j] < changed[i])
      BY <2>1, <2>2
    <3>2. ~(i < j) /\ ~(j < i)
      BY <1>3, <3>1
    <3> QED
      BY <2>1, <3>2
  <2> QED
    BY <2>2 DEF IsInjective
<1>6. /\ changed \in Seq(ChangedSlots(D, to))
      /\ Len(changed) = Cardinality(ChangedSlots(D, to))
      /\ Range(changed) = ChangedSlots(D, to)
  BY <1>2, <1>3, <1>5, Onto
<1>7. \A s \in HwSlots : ~Older(s, s)
  <2> SUFFICES ASSUME NEW s \in HwSlots, Older(s, s) PROVE FALSE
    OBVIOUS
  <2>1. CASE s \in Down
    <3>1. PICK i, j \in DOMAIN order : i < j /\ order[i] = s /\ order[j] = s
      BY <2>1 DEF Older
    <3>2. i = j /\ i \in Nat
      BY <3>1 DEF ContactsOK, IsInjective
    <3> QED
      BY <3>1, <3>2
  <2>2. CASE s \notin Down
    <3>1. s < s /\ s \in Nat
      BY <1>1, <2>2 DEF Older
    <3> QED
      BY <3>1
  <2> QED
    BY <2>1, <2>2
<1>8. IsInjective(after)
  <2>1. \A i \in DOMAIN after : i \in Nat /\ after[i] \in HwSlots
    BY <1>4
  <2>2. ASSUME NEW i \in DOMAIN after, NEW j \in DOMAIN after, after[i] = after[j]
        PROVE  i = j
    <3>1. ~Older(after[i], after[j]) /\ ~Older(after[j], after[i])
      BY <1>7, <2>1, <2>2
    <3>2. ~(i < j) /\ ~(j < i)
      BY <1>4, <3>1
    <3> QED
      BY <2>1, <3>2
  <2> QED
    BY <2>2 DEF IsInjective
<1>9. after \in Seq(D) /\ Len(after) = Cardinality(D) /\ Range(after) = D
      /\ Cardinality(D) \in Nat
  BY <1>2, <1>4, <1>8, Onto
<1>10. after = <<>> <=> D = {}
  <2>1. Cardinality(D) = 0 <=> D = {}
    BY <1>2, FS_EmptySet
  <2> QED
    BY <1>9, <2>1
<1>11. changed \in Seq(HwSlots) /\ after \in Seq(HwSlots)
  BY <1>2, <1>6, <1>9, SeqMonotonic
<1>12. \A i, j \in 1..Len(changed) : i < j => changed[i] < changed[j]
  BY <1>3, <1>6
<1> QED
  BY <1>2, <1>6, <1>8, <1>9, <1>10, <1>11, <1>12

LEMMA SendFrameSends ==
  ASSUME ContactsOK, NEW D \in SUBSET HwSlots, NEW to, SendFrame(D, to)
  PROVE  \E changed, after : Sends(D, to, changed, after)
<1>1. PICK changed \in Ascending(ChangedSlots(D, to)), after \in ByAge(D) :
        LET p == IF D = {} THEN abs ELSE to[after[1]]
            same == order # <<>> /\ D # {}
        IN  /\ frame' = Append(MtGroups(changed, D, to),
                               Group(Pad, PadEvents(Len(order), Len(after), p)))
            /\ order' = after
            /\ at' = to
            /\ mt_slot' = changed[Len(changed)]
            /\ abs' = p
            /\ steady' = (same => order[1] = after[1])
            /\ travel' = IF same THEN [a \in Axis |-> to[after[1]][a] - at[after[1]][a]]
                                 ELSE Still
            /\ seen' = IF order = <<>> THEN {} ELSE now
            /\ now' = seen' \cup {a \in Axis : p[a] # abs[a]}
  BY DEF SendFrame
<1>2. frame = <<>> /\ Cardinality(ChangedSlots(D, to)) >= 1
  <2>1. IsFiniteSet(ChangedSlots(D, to))
    BY ContactsAssumption, FS_Subset DEF ChangedSlots
  <2>2. Cardinality(ChangedSlots(D, to)) \in 1..MaxChanges /\ frame = <<>>
    BY DEF SendFrame
  <2> QED
    BY <2>2
<1>3. after = <<>> <=> D = {}
  BY <1>1, ChoicesOfFrame
<1>4. Foremost(to, after) = IF D = {} THEN abs ELSE to[after[1]]
  BY <1>3 DEF Foremost
<1>5. Sends(D, to, changed, after)
  BY <1>1, <1>2, <1>3, <1>4 DEF Sends
<1> QED
  BY <1>5

LEMMA PlacesArePlaces ==
  ASSUME ContactsOK, NEW D \in SUBSET HwSlots, NEW to \in Places(D)
  PROVE  to \in [HwSlots -> [Axis -> Int]]
<1>1. PICK p \in [D -> UNION Range(Positions)] :
        /\ \A s \in D : p[s] \in Positions[s]
        /\ to = [s \in HwSlots |-> IF s \in D THEN p[s] ELSE at[s]]
  BY DEF Places
<1>2. Positions \in [HwSlots -> SUBSET [Axis -> Int]]
  BY ContactsAssumption DEF Axis
<1>3. \A s \in D : p[s] \in [Axis -> Int]
  BY <1>1, <1>2
<1>4. \A s \in HwSlots : at[s] \in [Axis -> Int]
  BY DEF ContactsOK
<1> QED
  BY <1>1, <1>3, <1>4

LEMMA FunctionIsSeq ==
  ASSUME NEW S, NEW n \in Nat, NEW f \in [1..n -> S]
  PROVE  f \in Seq(S) /\ Len(f) = n
  OBVIOUS

\* The slot named before group i.
NamedBefore(changed, i) == IF i = 1 THEN mt_slot ELSE changed[i - 1]

Groups == [slot : HwSlots \cup {Pad}, events : Seq(Events)]

LEMMA PadIsNoSlot == Pad \notin HwSlots /\ HwSlots \subseteq Nat
  BY ContactsAssumption DEF Pad

LEMMA GroupsOfFrame ==
  ASSUME ContactsOK, NEW D \in SUBSET HwSlots, NEW to \in [HwSlots -> [Axis -> Int]],
         NEW changed, NEW after, Sends(D, to, changed, after)
  PROVE  /\ Len(changed) \in Nat \ {0} /\ changed \in Seq(HwSlots)
         /\ frame' \in Seq(Groups) /\ Len(frame') = Len(changed) + 1
         /\ \A i \in 1..Len(changed) :
              /\ frame'[i].slot = changed[i]
              /\ frame'[i].events
                   = SlotEvents(changed[i], NamedBefore(changed, i), D, to)
         /\ frame'[Len(changed) + 1].slot = Pad
         /\ frame'[Len(changed) + 1].events
              = PadEvents(Len(order), Len(after), Foremost(to, after))
         /\ Foremost(to, after) \in [Axis -> Int]
         /\ Len(order) \in 0..Cardinality(HwSlots) /\ Len(after) \in 0..Cardinality(HwSlots)
         /\ Cardinality(HwSlots) \in Nat
<1> DEFINE N == Len(changed)
           E == PadEvents(Len(order), Len(after), Foremost(to, after))
           G == MtGroups(changed, D, to)
<1>1. /\ changed \in Seq(HwSlots) /\ after \in Seq(HwSlots)
      /\ N = Cardinality(ChangedSlots(D, to)) /\ N \in Nat \ {0}
      /\ Len(after) <= Cardinality(HwSlots)
  <2>1. changed \in Ascending(ChangedSlots(D, to)) /\ after \in ByAge(D)
        /\ Cardinality(ChangedSlots(D, to)) >= 1
    BY DEF Sends
  <2>2. /\ changed \in Seq(HwSlots) /\ after \in Seq(HwSlots)
        /\ Len(changed) = Cardinality(ChangedSlots(D, to))
        /\ Len(after) <= Cardinality(HwSlots)
    BY <2>1, ChoicesOfFrame
  <2>3. Len(changed) \in Nat
    BY <2>2
  <2> QED
    BY <2>1, <2>2, <2>3
<1>2. Cardinality(HwSlots) \in Nat
  BY ContactsAssumption, FS_CardinalityType
<1>3. Foremost(to, after) \in [Axis -> Int]
  <2>1. abs \in [Axis -> Int]
    BY DEF ContactsOK
  <2>2. after # <<>> => after[1] \in HwSlots
    BY <1>1
  <2> QED
    BY <2>1, <2>2 DEF Foremost
<1>4. Len(order) \in 0..Cardinality(HwSlots) /\ Len(after) \in 0..Cardinality(HwSlots)
  <2>1. order \in Seq(HwSlots) /\ Len(order) <= Cardinality(HwSlots)
    BY DEF ContactsOK
  <2>2. Len(order) \in Nat /\ Len(after) \in Nat
    BY <1>1, <2>1
  <2> QED
    BY <1>1, <1>2, <2>1, <2>2
<1>5. E \in Seq(Events)
  BY <1>2, <1>3, <1>4, PadEventsAreStaged DEF Staged
<1>6. \A i \in 1..N : changed[i] \in HwSlots
  BY <1>1
<1>7. \A i \in 1..N : SlotEvents(changed[i], NamedBefore(changed, i), D, to) \in Seq(Events)
  <2> SUFFICES ASSUME NEW i \in 1..N
               PROVE  SlotEvents(changed[i], NamedBefore(changed, i), D, to) \in Seq(Events)
    OBVIOUS
  <2>1. changed[i] \in HwSlots /\ to[changed[i]] \in [Axis -> Int]
    BY <1>6
  <2> QED
    BY <2>1, PadIsNoSlot, SlotEventsAreStaged DEF Staged
<1>8. G = [i \in 1..N |->
             Group(changed[i], SlotEvents(changed[i], NamedBefore(changed, i), D, to))]
  BY DEF MtGroups, NamedBefore
<1>9. \A i \in 1..N : G[i] \in Groups
  BY <1>6, <1>7, <1>8 DEF Groups, Group
<1>10. G \in Seq(Groups) /\ Len(G) = N
  <2>1. G \in [1..N -> Groups]
    BY <1>8, <1>9
  <2> QED
    BY <1>1, <2>1, FunctionIsSeq
<1>11. Group(Pad, E) \in Groups /\ Group(Pad, E).slot = Pad /\ Group(Pad, E).events = E
  BY <1>5 DEF Group, Groups
<1>12. frame' = Append(G, Group(Pad, E))
  BY DEF Sends
<1>13. \A i \in 1..N :
         /\ G[i].slot = changed[i]
         /\ G[i].events = SlotEvents(changed[i], NamedBefore(changed, i), D, to)
  BY <1>8 DEF Group
<1> HIDE DEF G, E, N
<1>14. /\ frame' \in Seq(Groups) /\ Len(frame') = N + 1
       /\ \A i \in 1..N : frame'[i] = G[i]
       /\ frame'[N + 1] = Group(Pad, E)
  BY <1>1, <1>10, <1>11, <1>12, AppendProperties
<1>15. frame'[N + 1].slot = Pad /\ frame'[N + 1].events = E
  BY <1>11, <1>14
<1>16. \A i \in 1..N :
         /\ frame'[i].slot = changed[i]
         /\ frame'[i].events = SlotEvents(changed[i], NamedBefore(changed, i), D, to)
  BY <1>13, <1>14
<1> QED
  BY <1>1, <1>2, <1>3, <1>4, <1>14, <1>15, <1>16 DEF N, E

\* The first of a group's events that has the first rank is its first event.
LEMMA FirstRanksFirst ==
  ASSUME NEW Q, NEW s, NEW hi, Staged(s, 1, hi, Q), NEW code, Has(s, code), Rank[code] = 1
  PROVE  s # <<>> /\ s[1].code = code
<1>1. PICK i \in DOMAIN s : s[i].code = code
  BY DEF Has
<1>2. s \in Seq(Events) /\ 1 \in DOMAIN s /\ i \in Nat /\ i >= 1
  BY <1>1 DEF Staged
<1>3. i = 1
  <2> SUFFICES ASSUME 1 < i PROVE FALSE
    BY <1>2
  <2>1. Rank[s[1].code] < Rank[s[i].code]
    BY <1>1, <1>2 DEF Staged, Rising
  <2>2. 1 <= Rank[s[1].code] /\ Rank[s[1].code] \in Int
    <3>1. s[1] \in Events
      BY <1>2
    <3> QED
      BY <1>2, <3>1, RankIsNat DEF Staged
  <2> QED
    BY <1>1, <2>1, <2>2
<1> QED
  BY <1>1, <1>2, <1>3

\* What a slot is told is true of it after the frame; so is what the pad is.
LEMMA SlotsAreToldTruth ==
  ASSUME NEW D, NEW to, order' \in Seq(HwSlots), Range(order') = D, at' = to,
         NEW s \in HwSlots
  PROVE  TruthsOf(s, D, to) \subseteq Truths(s)'
<1>1. s # Pad /\ Down' = D
  BY PadIsNoSlot DEF Down
<1>2. /\ Event("mt_x", to[s]["x"]) \in {Event(MtCode[a], at'[s][a]) : a \in Axis}
      /\ Event("mt_y", to[s]["y"]) \in {Event(MtCode[a], at'[s][a]) : a \in Axis}
  BY CodesOfAxes
<1> QED
  BY <1>1, <1>2 DEF TruthsOf, Truths

LEMMA PadIsToldTruth ==
  ASSUME Cardinality(HwSlots) \in Nat, NEW n, order' \in Seq(HwSlots), NEW p, abs' = p
  PROVE  PadTruths(n, Len(order'), p) \subseteq Truths(Pad)'
<1> SUFFICES ASSUME NEW e \in PadTruths(n, Len(order'), p) PROVE e \in Truths(Pad)'
  OBVIOUS
<1>1. e \in Events /\ e = Event(e.code, e.value) /\ Rank[e.code] \in 1..6
  BY RankIsNat DEF PadTruths, Events, Event
<1>2. CASE Rank[e.code] = 1
  <2>1. e.code = "touch" /\ e.value = Bit(Len(order') > 0)
    BY <1>2 DEF PadTruths
  <2>2. Len(order') > 0 <=> order' # <<>>
    OBVIOUS
  <2>3. e = Event("touch", Bit(order' # <<>>))
    BY <1>1, <2>1, <2>2 DEF Bit
  <2> QED
    BY <2>3 DEF Truths
<1>3. CASE Rank[e.code] = 2
  <2>1. e.code = "doubletap" /\ e.value \in {0, 1} /\ 2 \in {k \in 2..3 : k <= Cardinality(HwSlots)}
    BY <1>3 DEF PadTruths
  <2>2. e = Event(<<"doubletap", "tripletap">>[2 - 1], e.value)
    BY <1>1, <2>1
  <2> QED
    BY <2>1, <2>2 DEF Truths
<1>4. CASE Rank[e.code] = 3
  <2>1. e.code = "tripletap" /\ e.value \in {0, 1} /\ 3 \in {k \in 2..3 : k <= Cardinality(HwSlots)}
    BY <1>4 DEF PadTruths
  <2>2. e = Event(<<"doubletap", "tripletap">>[3 - 1], e.value)
    BY <1>1, <2>1
  <2> QED
    BY <2>1, <2>2 DEF Truths
<1>5. CASE Rank[e.code] = 4
  <2>1. e = Event(AbsCode["x"], abs'["x"])
    BY <1>1, <1>5, CodesOfAxes DEF PadTruths
  <2> QED
    BY <2>1 DEF Truths
<1>6. CASE Rank[e.code] = 5
  <2>1. e = Event(AbsCode["y"], abs'["y"])
    BY <1>1, <1>6, CodesOfAxes DEF PadTruths
  <2> QED
    BY <2>1 DEF Truths
<1>7. CASE Rank[e.code] = 6
  <2>1. e = Event("syn", 0)
    BY <1>1, <1>7 DEF PadTruths
  <2> QED
    BY <2>1 DEF Truths
<1> QED
  BY <1>1, <1>2, <1>3, <1>4, <1>5, <1>6, <1>7

LEMMA TruthsOfSame ==
  ASSUME NEW i, NEW s, frame'[i].slot = s
  PROVE  Truths(frame[i].slot)' = Truths(s)'
  BY DEF Truths

LEMMA SentFrameIsOK ==
  ASSUME ContactsOK, NEW D \in SUBSET HwSlots, NEW to \in [HwSlots -> [Axis -> Int]],
         NEW changed, NEW after, Sends(D, to, changed, after)
  PROVE  /\ FrameOK' /\ Down' = D /\ order' \in Seq(HwSlots)
         /\ frame' # <<>> /\ frame'[1].slot = changed[1] /\ frame'[1].slot # Pad
         /\ changed[1] # mt_slot => frame'[1].events[1].code = "mt_slot"
         /\ \A i \in DOMAIN frame' : frame'[i].slot # Pad
                                       => frame'[i].slot \in ChangedSlots(D, to)
<1> DEFINE N == Len(changed)
<1>1. /\ N \in Nat \ {0} /\ changed \in Seq(HwSlots)
      /\ frame' \in Seq(Groups) /\ Len(frame') = N + 1
      /\ \A i \in 1..N :
           /\ frame'[i].slot = changed[i]
           /\ frame'[i].events = SlotEvents(changed[i], NamedBefore(changed, i), D, to)
      /\ frame'[N + 1].slot = Pad
      /\ frame'[N + 1].events = PadEvents(Len(order), Len(after), Foremost(to, after))
      /\ Foremost(to, after) \in [Axis -> Int]
      /\ Len(order) \in 0..Cardinality(HwSlots) /\ Len(after) \in 0..Cardinality(HwSlots)
      /\ Cardinality(HwSlots) \in Nat
  BY GroupsOfFrame
<1>2. /\ order' = after /\ at' = to /\ abs' = Foremost(to, after)
      /\ after \in Seq(HwSlots) /\ Range(after) = D /\ Down' = D
      /\ Range(changed) = ChangedSlots(D, to)
      /\ \A i, j \in 1..N : i < j => changed[i] < changed[j]
  <2>1. changed \in Ascending(ChangedSlots(D, to)) /\ after \in ByAge(D)
        /\ order' = after /\ at' = to /\ abs' = Foremost(to, after)
    BY DEF Sends
  <2> QED
    BY <2>1, ChoicesOfFrame DEF Down
<1>3. ASSUME NEW i \in 1..N
      PROVE  /\ frame'[i].slot = changed[i] /\ changed[i] \in HwSlots /\ changed[i] # Pad
             /\ changed[i] \in ChangedSlots(D, to)
             /\ Staged(frame'[i].events, 1, 4, Truths(changed[i])')
             /\ frame'[i].events # <<>>
             /\ changed[i] # NamedBefore(changed, i) => frame'[i].events[1].code = "mt_slot"
  <2> DEFINE s == changed[i]
             E == SlotEvents(s, NamedBefore(changed, i), D, to)
  <2>1. /\ s \in HwSlots /\ s # Pad /\ s \in ChangedSlots(D, to)
        /\ frame'[i].slot = s /\ frame'[i].events = E /\ to[s] \in [Axis -> Int]
    <3>1. s \in HwSlots /\ s \in Range(changed)
      BY <1>1 DEF Range
    <3> QED
      BY <1>1, <1>2, <3>1, PadIsNoSlot
  <2> HIDE DEF s
  <2>2. /\ Staged(E, 1, 4, TruthsOf(s, D, to))
        /\ s # NamedBefore(changed, i) => Has(E, "mt_slot")
        /\ (s \in D) # (s \in Down) => Has(E, "mt_id")
        /\ \A a \in Axis : to[s][a] # at[s][a] => Has(E, MtCode[a])
    BY <2>1, PadIsNoSlot, SlotEventsAreStaged
  <2>3. TruthsOf(s, D, to) \subseteq Truths(s)'
    BY <1>2, <2>1, SlotsAreToldTruth
  <2> HIDE DEF E
  <2>4. Staged(E, 1, 4, Truths(s)')
    BY <2>2, <2>3 DEF Staged
  <2>5. E # <<>>
    <3>1. (s \in D) # (s \in Down) \/ to[s] # at[s]
      BY <2>1 DEF ChangedSlots
    <3>2. to[s] # at[s] => \E a \in Axis : to[s][a] # at[s][a]
      <4>1. at[s] \in [Axis -> Int]
        BY <2>1 DEF ContactsOK
      <4>2. (\A a \in Axis : to[s][a] = at[s][a]) => to[s] = at[s]
        BY <2>1, <4>1
      <4> QED
        BY <4>2
    <3>3. \E code : Has(E, code)
      BY <2>2, <3>1, <3>2
    <3> QED
      BY <3>3 DEF Has
  <2>6. s # NamedBefore(changed, i) => E[1].code = "mt_slot"
    BY <2>2, RankIs, FirstRanksFirst
  <2> QED
    BY <2>1, <2>4, <2>5, <2>6 DEF s
<1>4. ASSUME NEW i \in 1..N, i > 1 PROVE changed[i] # NamedBefore(changed, i)
  <2>1. i - 1 \in 1..N /\ i - 1 < i
    BY <1>1, <1>4
  <2>2. changed[i - 1] < changed[i] /\ changed[i] \in Nat
    BY <1>2, <1>3, <2>1, PadIsNoSlot
  <2> QED
    BY <1>4, <2>2 DEF NamedBefore
<1> DEFINE E == PadEvents(Len(order), Len(after), Foremost(to, after))
<1>5. /\ Staged(E, 1, 6, PadTruths(Len(order), Len(after), Foremost(to, after)))
      /\ E # <<>> /\ E[Len(E)].code = "syn"
  BY <1>1, PadEventsAreStaged
<1>6. PadTruths(Len(order), Len(after), Foremost(to, after)) \subseteq Truths(Pad)'
  BY <1>1, <1>2, PadIsToldTruth
<1>7. frame'[N + 1].events = E
  BY <1>1
<1> HIDE DEF E
<1>8. Staged(E, 1, 6, Truths(Pad)')
  BY <1>5, <1>6 DEF Staged
<1>9. DOMAIN frame' = 1..N + 1 /\ \A i \in DOMAIN frame' : i = N + 1 \/ i \in 1..N
  BY <1>1
<1>10. ASSUME NEW i \in DOMAIN frame' PROVE GroupOK(i)'
  <2>1. CASE i = N + 1
    <3>1. frame'[i].slot = Pad /\ frame'[i].events = E /\ i = Len(frame')
      BY <1>1, <1>7, <2>1
    <3>2. Truths(frame[i].slot)' = Truths(Pad)'
      BY <3>1, TruthsOfSame
    <3> QED
      BY <1>5, <1>8, <3>1, <3>2 DEF Staged, GroupOK
  <2>2. CASE i \in 1..N
    <3>1. i # Len(frame') /\ frame'[i].slot # Pad
      BY <1>1, <1>3, <2>2
    <3>2. frame'[i].slot = changed[i] /\ frame'[i].events # <<>>
          /\ Staged(frame'[i].events, 1, 4, Truths(changed[i])')
      BY <1>3, <2>2
    <3>3. i > 1 => frame'[i].events[1].code = "mt_slot"
      BY <1>3, <1>4, <2>2
    <3>4. Truths(frame[i].slot)' = Truths(changed[i])'
      BY <3>2, TruthsOfSame
    <3> QED
      BY <3>1, <3>2, <3>3, <3>4 DEF Staged, GroupOK
  <2> QED
    BY <1>9, <2>1, <2>2
<1>11. FrameOK'
  BY <1>1, <1>10 DEF FrameOK, Groups
<1>12. 1 \in 1..N /\ frame' # <<>>
  BY <1>1
<1>13. frame'[1].slot = changed[1] /\ frame'[1].slot # Pad
  BY <1>3, <1>12
<1>14. changed[1] # mt_slot => frame'[1].events[1].code = "mt_slot"
  BY <1>3, <1>12 DEF NamedBefore
<1>15. \A i \in DOMAIN frame' : frame'[i].slot # Pad => frame'[i].slot \in ChangedSlots(D, to)
  BY <1>1, <1>3, <1>9
<1> QED
  BY <1>2, <1>11, <1>12, <1>13, <1>14, <1>15

\* What changed is told, and nothing else of the pad.
LEMMA SentFrameTells ==
  ASSUME ContactsOK, NEW D \in SUBSET HwSlots, NEW to \in [HwSlots -> [Axis -> Int]],
         NEW changed, NEW after, Sends(D, to, changed, after)
  PROVE  /\ \A s \in HwSlots : ~Pending(s, "mt_id")' => (s \in D <=> s \in Down)
         /\ \A s \in HwSlots, a \in Axis : ~Pending(s, MtCode[a])' => to[s][a] = at[s][a]
         /\ Pending(Pad, "touch")' <=> (order = <<>> <=> after # <<>>)
         /\ \A a \in Axis : Pending(Pad, AbsCode[a])' <=> abs'[a] # abs[a]
<1> DEFINE N == Len(changed)
           E == PadEvents(Len(order), Len(after), Foremost(to, after))
<1>1. /\ N \in Nat \ {0} /\ changed \in Seq(HwSlots)
      /\ frame' \in Seq(Groups) /\ Len(frame') = N + 1
      /\ \A i \in 1..N :
           /\ frame'[i].slot = changed[i]
           /\ frame'[i].events = SlotEvents(changed[i], NamedBefore(changed, i), D, to)
      /\ frame'[N + 1].slot = Pad
      /\ frame'[N + 1].events = E
      /\ Foremost(to, after) \in [Axis -> Int]
      /\ Len(order) \in 0..Cardinality(HwSlots) /\ Len(after) \in 0..Cardinality(HwSlots)
      /\ Cardinality(HwSlots) \in Nat
  BY GroupsOfFrame
<1>2. /\ Range(changed) = ChangedSlots(D, to) /\ after \in Seq(HwSlots)
      /\ abs' = Foremost(to, after) /\ order \in Seq(HwSlots)
  <2>1. changed \in Ascending(ChangedSlots(D, to)) /\ after \in ByAge(D)
        /\ abs' = Foremost(to, after)
    BY DEF Sends
  <2> QED
    BY <2>1, ChoicesOfFrame DEF ContactsOK
<1>3. ASSUME NEW s \in ChangedSlots(D, to)
      PROVE  /\ (s \in D) # (s \in Down) => Pending(s, "mt_id")'
             /\ \A a \in Axis : to[s][a] # at[s][a] => Pending(s, MtCode[a])'
  <2>1. PICK i \in 1..N : changed[i] = s
    BY <1>1, <1>2, <1>3 DEF Range
  <2> DEFINE F == SlotEvents(s, NamedBefore(changed, i), D, to)
  <2>2. frame'[i].slot = s /\ frame'[i].events = F /\ i \in DOMAIN frame'
    BY <1>1, <2>1
  <2>3. s \in HwSlots /\ to[s] \in [Axis -> Int]
    BY DEF ChangedSlots
  <2>4. /\ (s \in D) # (s \in Down) => Has(F, "mt_id")
        /\ \A a \in Axis : to[s][a] # at[s][a] => Has(F, MtCode[a])
    BY <2>3, PadIsNoSlot, SlotEventsAreStaged
  <2> HIDE DEF F
  <2>5. \A code : Has(F, code) => Pending(s, code)'
    BY <2>2 DEF Has, Pending
  <2> QED
    BY <2>4, <2>5
<1>4. ASSUME NEW s \in HwSlots
      PROVE  /\ ~Pending(s, "mt_id")' => (s \in D <=> s \in Down)
             /\ \A a \in Axis : ~Pending(s, MtCode[a])' => to[s][a] = at[s][a]
  <2>1. CASE s \in ChangedSlots(D, to)
    BY <1>3, <2>1
  <2>2. CASE s \notin ChangedSlots(D, to)
    BY <2>2 DEF ChangedSlots
  <2> QED
    BY <2>1, <2>2
<1>5. /\ Staged(E, 1, 6, PadTruths(Len(order), Len(after), Foremost(to, after)))
      /\ (Len(order) > 0 <=> ~(Len(after) > 0)) => Has(E, "touch")
      /\ \A a \in Axis : Foremost(to, after)[a] # abs[a] => Has(E, AbsCode[a])
  BY <1>1, PadEventsAreStaged
<1> HIDE DEF E
<1>6. \A code : Pending(Pad, code)' <=> Has(E, code)
  <2>1. \A i \in DOMAIN frame' : frame'[i].slot = Pad => i = N + 1
    <3>1. \A i \in 1..N : frame'[i].slot # Pad
      BY <1>1, PadIsNoSlot
    <3>2. \A i \in DOMAIN frame' : i = N + 1 \/ i \in 1..N
      BY <1>1
    <3> QED
      BY <3>1, <3>2
  <2>2. N + 1 \in DOMAIN frame'
    BY <1>1
  <2> QED
    BY <1>1, <2>1, <2>2 DEF Pending, Has
<1>7. (Len(order) > 0 <=> ~(Len(after) > 0)) <=> (order = <<>> <=> after # <<>>)
  <2>1. (Len(order) > 0 <=> order # <<>>) /\ (Len(after) > 0 <=> after # <<>>)
    BY <1>2
  <2> QED
    BY <2>1
<1>8. \A i \in DOMAIN E : E[i] \in PadTruths(Len(order), Len(after), Foremost(to, after))
  BY <1>5 DEF Staged
<1>9. Has(E, "touch") => (Len(order) > 0 <=> ~(Len(after) > 0))
  <2> SUFFICES ASSUME Has(E, "touch") PROVE Len(order) > 0 <=> ~(Len(after) > 0)
    OBVIOUS
  <2>1. PICK i \in DOMAIN E : E[i].code = "touch"
    BY DEF Has
  <2>2. Rank[E[i].code] = 1
    BY <2>1, RankIs
  <2> QED
    BY <1>8, <2>1, <2>2 DEF PadTruths
<1>10. \A a \in Axis : Has(E, AbsCode[a]) => Foremost(to, after)[a] # abs[a]
  <2> SUFFICES ASSUME NEW a \in Axis, Has(E, AbsCode[a])
               PROVE  Foremost(to, after)[a] # abs[a]
    OBVIOUS
  <2>1. PICK i \in DOMAIN E : E[i].code = AbsCode[a]
    BY DEF Has
  <2>2. (a = "x" /\ Rank[E[i].code] = 4) \/ (a = "y" /\ Rank[E[i].code] = 5)
    BY <2>1, RankIs, CodesOfAxes
  <2>3. E[i] \in PadTruths(Len(order), Len(after), Foremost(to, after))
    BY <1>8
  <2> QED
    BY <2>2, <2>3 DEF PadTruths
<1> QED
  BY <1>2, <1>4, <1>5, <1>6, <1>7, <1>9, <1>10

LEMMA SentContactsOK ==
  ASSUME ContactsOK, NEW D \in SUBSET HwSlots, NEW to \in [HwSlots -> [Axis -> Int]],
         NEW changed, NEW after, Sends(D, to, changed, after)
  PROVE  ContactsOK'
<1>1. /\ changed \in Ascending(ChangedSlots(D, to)) /\ after \in ByAge(D)
      /\ order' = after /\ at' = to /\ abs' = Foremost(to, after)
      /\ mt_slot' = changed[Len(changed)]
  BY DEF Sends
<1>2. after \in Seq(HwSlots) /\ IsInjective(after) /\ Len(after) <= Cardinality(HwSlots)
  BY <1>1, ChoicesOfFrame
<1>3. Foremost(to, after) \in [Axis -> Int] /\ mt_slot' \in HwSlots
  <2>1. /\ Foremost(to, after) \in [Axis -> Int]
        /\ Len(changed) \in Nat \ {0} /\ changed \in Seq(HwSlots)
    BY GroupsOfFrame
  <2>2. changed[Len(changed)] \in HwSlots
    BY <2>1
  <2> QED
    BY <1>1, <2>1, <2>2
<1>4. order' # <<>> => abs' = at'[order'[1]]
  BY <1>1 DEF Foremost
<1>5. steady' \in BOOLEAN
  BY DEF Sends
<1>6. travel' \in [Axis -> Int]
  <2>1. CASE order # <<>> /\ after # <<>>
    <3>1. after[1] \in HwSlots
      BY <1>2, <2>1
    <3>2. \A a \in Axis : to[after[1]][a] \in Int /\ at[after[1]][a] \in Int
      BY <3>1 DEF ContactsOK
    <3> QED
      BY <2>1, <3>2 DEF Sends
  <2>2. CASE ~(order # <<>> /\ after # <<>>)
    BY <2>2 DEF Sends, Still
  <2> QED
    BY <2>1, <2>2
<1>7. seen' \subseteq Axis /\ now' \subseteq Axis
  BY DEF Sends, ContactsOK
<1>8. FrameOK'
  BY SentFrameIsOK
<1> QED
  BY <1>1, <1>2, <1>3, <1>4, <1>5, <1>6, <1>7, <1>8 DEF ContactsOK

-----------------------------------------------------------------------------
(* Processing the next event *)

LEMMA FirstGroup ==
  ASSUME FrameOK, frame # <<>>
  PROVE  /\ frame \in Seq(Groups) /\ Len(frame) \in Nat \ {0} /\ DOMAIN frame = 1..Len(frame)
         /\ 1 \in DOMAIN frame /\ GroupOK(1)
         /\ frame[1].slot \in HwSlots \cup {Pad}
         /\ frame[1].events \in Seq(Events) /\ frame[1].events # <<>>
         /\ 1 \in DOMAIN frame[1].events
         /\ Upcoming \in Events /\ Upcoming \in Truths(frame[1].slot)
<1>1. frame \in Seq(Groups) /\ Len(frame) \in Nat \ {0} /\ DOMAIN frame = 1..Len(frame)
      /\ 1 \in DOMAIN frame /\ GroupOK(1)
  BY DEF FrameOK, Groups
<1>2. frame[1] \in Groups
  BY <1>1
<1>3. frame[1].slot \in HwSlots \cup {Pad} /\ frame[1].events \in Seq(Events)
  BY <1>2 DEF Groups
<1>4. frame[1].events # <<>> /\ 1 \in DOMAIN frame[1].events
  BY <1>1, <1>3 DEF GroupOK
<1>5. Upcoming \in Events /\ Upcoming \in Truths(frame[1].slot)
  BY <1>1, <1>3, <1>4 DEF GroupOK, Upcoming
<1> QED
  BY <1>1, <1>3, <1>4, <1>5

\* Which truth an event tells is in its code.
LEMMA TruthTold ==
  ASSUME NEW s \in HwSlots \cup {Pad}, NEW e \in Truths(s)
  PROVE  /\ e.code \in {"mt_slot", "mt_id", "mt_x", "mt_y"} <=> s # Pad
         /\ e.code = "mt_slot" => e.value = s
         /\ e.code = "mt_id" => e.value = IF s \in Down THEN 1 ELSE -1
         /\ \A a \in Axis : e.code = MtCode[a] => e.value = at[s][a]
         /\ e.code = "touch" => e.value = Bit(order # <<>>)
         /\ \A a \in Axis : e.code = AbsCode[a] => e.value = abs[a]
         /\ e.code = "doubletap" => 2 <= Cardinality(HwSlots)
         /\ e.code = "tripletap" => 3 <= Cardinality(HwSlots)
<1>1. CASE s = Pad
  <2>1. \/ e = Event("touch", Bit(order # <<>>))
        \/ e = Event("syn", 0)
        \/ \E n \in {n \in 2..3 : n <= Cardinality(HwSlots)}, v \in {0, 1} :
             e = Event(<<"doubletap", "tripletap">>[n - 1], v)
        \/ \E a \in Axis : e = Event(AbsCode[a], abs[a])
    BY <1>1 DEF Truths
  <2>2. CASE e = Event("touch", Bit(order # <<>>))
    BY <1>1, <2>2, EventsAreEvents, CodesOfAxes
  <2>3. CASE e = Event("syn", 0)
    BY <1>1, <2>3, EventsAreEvents, CodesOfAxes
  <2>4. ASSUME NEW n \in {n \in 2..3 : n <= Cardinality(HwSlots)}, NEW v \in {0, 1},
               e = Event(<<"doubletap", "tripletap">>[n - 1], v)
        PROVE  \/ e.code = "doubletap" /\ 2 <= Cardinality(HwSlots)
               \/ e.code = "tripletap" /\ 3 <= Cardinality(HwSlots)
    <3>1. n = 2 \/ n = 3
      OBVIOUS
    <3>2. e.code = <<"doubletap", "tripletap">>[n - 1]
      BY <2>4, EventsAreEvents
    <3> QED
      BY <3>1, <3>2
  <2>5. ASSUME NEW a \in Axis, e = Event(AbsCode[a], abs[a])
        PROVE  e.value = abs[a] /\ e.code = AbsCode[a]
    BY <2>5, EventsAreEvents
  <2> QED
    BY <1>1, <2>1, <2>2, <2>3, <2>4, <2>5, CodesOfAxes
<1>2. CASE s # Pad
  <2>1. \/ e = Event("mt_slot", s)
        \/ e = Event("mt_id", IF s \in Down THEN 1 ELSE -1)
        \/ \E a \in Axis : e = Event(MtCode[a], at[s][a])
    BY <1>2 DEF Truths
  <2>2. ASSUME NEW a \in Axis, e = Event(MtCode[a], at[s][a])
        PROVE  e.value = at[s][a] /\ e.code = MtCode[a]
    BY <2>2, EventsAreEvents
  <2>3. CASE e = Event("mt_slot", s)
    BY <1>2, <2>3, EventsAreEvents, CodesOfAxes
  <2>4. CASE e = Event("mt_id", IF s \in Down THEN 1 ELSE -1)
    BY <1>2, <2>4, EventsAreEvents, CodesOfAxes
  <2> QED
    BY <1>2, <2>1, <2>2, <2>3, <2>4, CodesOfAxes
<1> QED
  BY <1>1, <1>2

\* What is left of a frame when its next event is taken.
Rest == IF GroupEnds THEN Tail(frame) ELSE [frame EXCEPT ![1].events = Tail(@)]

LEMMA RestOfGroup ==
  ASSUME FrameOK, frame # <<>>, ~GroupEnds
  PROVE  /\ Rest \in Seq(Groups) /\ Len(Rest) = Len(frame)
         /\ Rest[1].slot = frame[1].slot /\ Rest[1].events = Tail(frame[1].events)
         /\ \A i \in 2..Len(frame) : Rest[i] = frame[i]
<1> DEFINE g == frame[1]
           h == [g EXCEPT !.events = Tail(@)]
<1>1. g \in Groups /\ Tail(g.events) \in Seq(Events)
  <2>1. g \in Groups /\ g.events \in Seq(Events) /\ g.events # <<>>
    BY FirstGroup
  <2> QED
    BY <2>1
<1>2. h \in Groups /\ h.slot = g.slot /\ h.events = Tail(g.events)
  BY <1>1 DEF Groups
<1>3. Rest = [frame EXCEPT ![1] = h]
  BY DEF Rest
<1>4. frame \in Seq(Groups) /\ Len(frame) \in Nat \ {0}
  BY FirstGroup
<1> HIDE DEF h
<1>5. /\ Rest \in Seq(Groups) /\ Len(Rest) = Len(frame)
      /\ Rest[1] = h /\ \A i \in 2..Len(frame) : Rest[i] = frame[i]
  BY <1>2, <1>3, <1>4
<1> QED
  BY <1>2, <1>5

LEMMA RestOfFrame ==
  ASSUME FrameOK, frame # <<>>, GroupEnds
  PROVE  /\ Rest \in Seq(Groups) /\ Len(Rest) = Len(frame) - 1
         /\ \A i \in 1..Len(frame) - 1 : Rest[i] = frame[i + 1]
<1>1. frame \in Seq(Groups) /\ Len(frame) \in Nat \ {0}
  BY FirstGroup
<1>2. Rest = Tail(frame)
  BY DEF Rest
<1> QED
  BY <1>1, <1>2, HeadTailProperties

LEMMA TailOfEvents ==
  ASSUME NEW s \in Seq(Events), s # <<>>, Rising(s)
  PROVE  /\ Tail(s) \in Seq(Events) /\ Len(Tail(s)) = Len(s) - 1
         /\ \A i \in DOMAIN Tail(s) : i + 1 \in DOMAIN s /\ Tail(s)[i] = s[i + 1]
         /\ \A i \in DOMAIN s : i # 1 => i - 1 \in DOMAIN Tail(s) /\ Tail(s)[i - 1] = s[i]
         /\ Rising(Tail(s))
<1>1. /\ Tail(s) \in Seq(Events) /\ Len(Tail(s)) = Len(s) - 1
      /\ \A i \in 1..Len(s) - 1 : Tail(s)[i] = s[i + 1]
      /\ Len(s) \in Nat \ {0}
  BY HeadTailProperties
<1>2. \A i \in DOMAIN Tail(s) : i \in Nat /\ i + 1 \in DOMAIN s /\ Tail(s)[i] = s[i + 1]
  BY <1>1
<1>3. \A i \in DOMAIN s : i # 1 => i - 1 \in DOMAIN Tail(s) /\ Tail(s)[i - 1] = s[i]
  BY <1>1
<1>4. Rising(Tail(s))
  <2> SUFFICES ASSUME NEW i \in DOMAIN Tail(s), NEW j \in DOMAIN Tail(s), i < j
               PROVE  Rank[Tail(s)[i].code] < Rank[Tail(s)[j].code]
    BY DEF Rising
  <2>1. i + 1 < j + 1
    BY <1>2
  <2>2. Rank[s[i + 1].code] < Rank[s[j + 1].code]
    BY <1>2, <2>1 DEF Rising
  <2> QED
    BY <1>2, <2>2
<1> QED
  BY <1>1, <1>2, <1>3, <1>4

LEMMA TakesRest ==
  ASSUME NEW code, NEW V, Takes(code, V)
  PROVE  /\ frame # <<>> /\ frame' = Rest /\ Upcoming.code = code /\ Upcoming.value \in V
         /\ UNCHANGED <<order, at, mt_slot, abs, now>>
         /\ ~FrameEnds => UNCHANGED <<steady, travel, seen>>
         /\ FrameEnds => steady' = TRUE /\ travel' = Still /\ seen' = {}
  BY DEF Takes, Rest

LEMMA TakenFrameOK ==
  ASSUME FrameOK, NEW code, NEW V, Takes(code, V)
  PROVE  FrameOK'
<1>1. frame # <<>> /\ frame' = Rest /\ UNCHANGED <<order, at, abs>>
  BY TakesRest
<1>2. /\ frame \in Seq(Groups) /\ Len(frame) \in Nat \ {0} /\ DOMAIN frame = 1..Len(frame)
      /\ frame[1].events \in Seq(Events) /\ frame[1].events # <<>> /\ 1 \in DOMAIN frame
  BY <1>1, FirstGroup
<1>3. \A i \in DOMAIN frame : GroupOK(i)
  BY DEF FrameOK
<1>4. \A i, k : frame'[i].slot = frame[k].slot => Truths(frame[i].slot)' = Truths(frame[k].slot)
  BY <1>1 DEF Truths, Down
<1>5. CASE GroupEnds
  <2>1. /\ frame' \in Seq(Groups) /\ Len(frame') = Len(frame) - 1
        /\ \A i \in 1..Len(frame) - 1 : frame'[i] = frame[i + 1]
    BY <1>1, <1>5, RestOfFrame
  <2>2. ASSUME NEW i \in DOMAIN frame' PROVE GroupOK(i)'
    <3>1. i \in Nat /\ i >= 1 /\ i + 1 \in DOMAIN frame /\ frame'[i] = frame[i + 1]
          /\ (i = Len(frame') <=> i + 1 = Len(frame))
      BY <1>2, <2>1
    <3>2. GroupOK(i + 1) /\ i + 1 > 1
      BY <1>3, <3>1
    <3>3. Truths(frame[i].slot)' = Truths(frame[i + 1].slot)
      BY <1>4, <3>1
    <3> QED
      BY <3>1, <3>2, <3>3 DEF GroupOK
  <2> QED
    BY <2>1, <2>2 DEF FrameOK, Groups
<1>6. CASE ~GroupEnds
  <2> DEFINE s == frame[1].events
  <2>1. /\ frame' \in Seq(Groups) /\ Len(frame') = Len(frame)
        /\ frame'[1].slot = frame[1].slot /\ frame'[1].events = Tail(s)
        /\ \A i \in 2..Len(frame) : frame'[i] = frame[i]
    BY <1>1, <1>6, RestOfGroup
  <2>2. GroupOK(1)' 
    <3>1. GroupOK(1) /\ Rising(s) /\ s \in Seq(Events) /\ s # <<>>
      BY <1>2, <1>3 DEF GroupOK
    <3>2. Len(s) # 1
      BY <1>6 DEF GroupEnds
    <3>3. Truths(frame[1].slot)' = Truths(frame[1].slot)
      BY <1>4, <2>1
    <3> HIDE DEF s
    <3>4. /\ Tail(s) \in Seq(Events) /\ Len(Tail(s)) = Len(s) - 1
          /\ \A i \in DOMAIN Tail(s) : i + 1 \in DOMAIN s /\ Tail(s)[i] = s[i + 1]
          /\ Rising(Tail(s))
      BY <3>1, TailOfEvents
    <3>5. Tail(s) # <<>> /\ Tail(s)[Len(Tail(s))] = s[Len(s)]
      <4>1. Len(s) \in Nat \ {0} /\ DOMAIN Tail(s) = 1..Len(Tail(s))
        BY <3>1, <3>4
      <4>2. Len(Tail(s)) \in DOMAIN Tail(s) /\ Len(Tail(s)) + 1 = Len(s)
        BY <3>2, <3>4, <4>1
      <4>3. Tail(s)[Len(Tail(s))] = s[Len(Tail(s)) + 1]
        BY <3>4, <4>2
      <4>4. Tail(s) # <<>>
        <5>1. Len(Tail(s)) # 0
          BY <3>2, <3>4, <4>1
        <5> QED
          BY <5>1, EmptySeq
      <4> QED
        BY <4>2, <4>3, <4>4
    <3>6. /\ frame'[1].slot = Pad <=> 1 = Len(frame')
          /\ frame'[1].slot = Pad => Tail(s)[Len(Tail(s))].code = "syn"
          /\ \A j \in DOMAIN Tail(s) : Tail(s)[j] \in Truths(frame[1].slot)
      BY <2>1, <3>1, <3>4, <3>5 DEF GroupOK, s
    <3> QED
      BY <2>1, <3>3, <3>4, <3>5, <3>6 DEF GroupOK
  <2>3. ASSUME NEW i \in DOMAIN frame', i # 1 PROVE GroupOK(i)'
    <3>1. i \in DOMAIN frame /\ frame'[i] = frame[i]
      BY <1>2, <2>1, <2>3
    <3>2. GroupOK(i)
      BY <1>3, <3>1
    <3>3. Truths(frame[i].slot)' = Truths(frame[i].slot)
      BY <1>4, <3>1
    <3> QED
      BY <2>1, <3>1, <3>2, <3>3 DEF GroupOK
  <2> QED
    BY <2>1, <2>2, <2>3 DEF FrameOK, Groups
<1> QED
  BY <1>5, <1>6

\* Where the next event is, and what is left to tell when it is taken.
LEMMA TakenPending ==
  ASSUME FrameOK, NEW code, NEW V, Takes(code, V)
  PROVE  /\ \A s, c : Pending(s, c)' => Pending(s, c)
         /\ \A s, c : Pending(s, c) => Pending(s, c)' \/ (s = frame[1].slot /\ c = code)
         /\ Pending(frame[1].slot, code)
<1>1. frame # <<>> /\ frame' = Rest /\ Upcoming.code = code
  BY TakesRest
<1>2. /\ frame \in Seq(Groups) /\ Len(frame) \in Nat \ {0} /\ DOMAIN frame = 1..Len(frame)
      /\ frame[1].events \in Seq(Events) /\ frame[1].events # <<>> /\ 1 \in DOMAIN frame
      /\ 1 \in DOMAIN frame[1].events /\ GroupOK(1)
  BY <1>1, FirstGroup
<1>3. frame[1].events[1].code = code
  BY <1>1 DEF Upcoming
<1>4. Pending(frame[1].slot, code)
  BY <1>2, <1>3 DEF Pending
<1>5. CASE GroupEnds
  <2>1. /\ frame' \in Seq(Groups) /\ Len(frame') = Len(frame) - 1
        /\ \A i \in 1..Len(frame) - 1 : frame'[i] = frame[i + 1]
    BY <1>1, <1>5, RestOfFrame
  <2>2. \A i \in DOMAIN frame' : i + 1 \in DOMAIN frame /\ frame'[i] = frame[i + 1]
    BY <1>2, <2>1
  <2>3. \A i \in DOMAIN frame : i # 1 => i - 1 \in DOMAIN frame' /\ frame'[i - 1] = frame[i]
    BY <1>2, <2>1
  <2>4. \A j \in DOMAIN frame[1].events : frame[1].events[j].code = code
    BY <1>2, <1>3, <1>5 DEF GroupEnds
  <2>5. \A s, c : Pending(s, c)' => Pending(s, c)
    BY <2>2 DEF Pending
  <2>6. ASSUME NEW s, NEW c, Pending(s, c)
        PROVE  Pending(s, c)' \/ (s = frame[1].slot /\ c = code)
    <3>1. PICK i \in DOMAIN frame :
            frame[i].slot = s /\ \E j \in DOMAIN frame[i].events : frame[i].events[j].code = c
      BY <2>6 DEF Pending
    <3>2. CASE i = 1
      BY <2>4, <3>1, <3>2
    <3>3. CASE i # 1
      BY <2>3, <3>1, <3>3 DEF Pending
    <3> QED
      BY <3>2, <3>3
  <2> QED
    BY <1>4, <2>5, <2>6
<1>6. CASE ~GroupEnds
  <2> DEFINE e == frame[1].events
  <2>1. /\ frame' \in Seq(Groups) /\ Len(frame') = Len(frame)
        /\ frame'[1].slot = frame[1].slot /\ frame'[1].events = Tail(e)
        /\ \A i \in 2..Len(frame) : frame'[i] = frame[i]
    BY <1>1, <1>6, RestOfGroup
  <2>2. /\ \A i \in DOMAIN Tail(e) : i + 1 \in DOMAIN e /\ Tail(e)[i] = e[i + 1]
        /\ \A i \in DOMAIN e : i # 1 => i - 1 \in DOMAIN Tail(e) /\ Tail(e)[i - 1] = e[i]
    BY <1>2, TailOfEvents DEF GroupOK
  <2>3. DOMAIN frame' = DOMAIN frame /\ \A i \in DOMAIN frame : i # 1 => frame'[i] = frame[i]
    BY <1>2, <2>1
  <2>4. ASSUME NEW s, NEW c, Pending(s, c)' PROVE Pending(s, c)
    <3>1. PICK i \in DOMAIN frame' :
            frame'[i].slot = s /\ \E j \in DOMAIN frame'[i].events : frame'[i].events[j].code = c
      BY <2>4 DEF Pending
    <3>2. CASE i = 1
      <4>1. PICK j \in DOMAIN Tail(e) : Tail(e)[j].code = c
        BY <2>1, <3>1, <3>2
      <4>2. j + 1 \in DOMAIN frame[1].events /\ frame[1].events[j + 1].code = c
        BY <2>2, <4>1
      <4>3. frame[1].slot = s
        BY <2>1, <3>1, <3>2
      <4> QED
        BY <1>2, <4>2, <4>3 DEF Pending
    <3>3. CASE i # 1
      BY <2>3, <3>1, <3>3 DEF Pending
    <3> QED
      BY <3>2, <3>3
  <2>5. ASSUME NEW s, NEW c, Pending(s, c)
        PROVE  Pending(s, c)' \/ (s = frame[1].slot /\ c = code)
    <3>1. PICK i \in DOMAIN frame :
            frame[i].slot = s /\ \E j \in DOMAIN frame[i].events : frame[i].events[j].code = c
      BY <2>5 DEF Pending
    <3>2. CASE i = 1
      <4>1. PICK j \in DOMAIN e : e[j].code = c
        BY <3>1, <3>2
      <4>2. CASE j = 1
        BY <1>3, <3>1, <3>2, <4>1, <4>2
      <4>3. CASE j # 1
        <5>1. j - 1 \in DOMAIN frame'[1].events /\ frame'[1].events[j - 1].code = c
          BY <2>1, <2>2, <4>1, <4>3
        <5>2. 1 \in DOMAIN frame' /\ frame'[1].slot = s
          BY <1>2, <2>1, <2>3, <3>1, <3>2
        <5> QED
          BY <5>1, <5>2 DEF Pending
      <4> QED
        BY <4>2, <4>3
    <3>3. CASE i # 1
      BY <2>3, <3>1, <3>3 DEF Pending
    <3> QED
      BY <3>2, <3>3
  <2> QED
    BY <1>4, <2>4, <2>5
<1> QED
  BY <1>5, <1>6

MtCodes == {"mt_slot", "mt_id", "mt_x", "mt_y"}

\* While the pad's own events are processed, those of the slots are.
LEMMA AtThePad ==
  ASSUME FrameOK, frame # <<>>, frame[1].slot = Pad
  PROVE  /\ Len(frame) = 1
         /\ \A s, c : Pending(s, c) => s = Pad /\ (c = Upcoming.code \/ Rank[Upcoming.code] < Rank[c])
         /\ FrameEnds <=> Upcoming.code = "syn"
<1> DEFINE e == frame[1].events
<1>1. /\ Len(frame) \in Nat \ {0} /\ DOMAIN frame = 1..Len(frame)
      /\ e \in Seq(Events) /\ e # <<>> /\ 1 \in DOMAIN e /\ GroupOK(1)
  BY FirstGroup
<1>2. Len(frame) = 1 /\ Rising(e) /\ e[Len(e)].code = "syn"
  BY <1>1 DEF GroupOK
<1>3. Upcoming = e[1]
  BY DEF Upcoming
<1>4. GroupEnds <=> Len(e) = 1
  BY DEF GroupEnds
<1>5. FrameEnds <=> Len(e) = 1
  BY <1>2, <1>4 DEF FrameEnds
<1> HIDE DEF e
<1>6. DOMAIN e = 1..Len(e) /\ Len(e) \in Nat \ {0}
  BY <1>1
<1>7. \A i \in DOMAIN e : i = 1 \/ Rank[e[1].code] < Rank[e[i].code]
  BY <1>1, <1>2, <1>6 DEF Rising
<1>8. Len(e) = 1 <=> Upcoming.code = "syn"
  <2>1. ASSUME Upcoming.code = "syn" PROVE Len(e) = 1
    <3>1. Len(e) \in DOMAIN e /\ e[1].code = e[Len(e)].code /\ Rank["syn"] = 6
      BY <1>2, <1>3, <1>6, <2>1, RankIs
    <3>2. ~(Rank[e[1].code] < Rank[e[Len(e)].code])
      BY <1>2, <3>1
    <3> QED
      BY <1>7, <3>1, <3>2
  <2>2. ASSUME Len(e) = 1 PROVE Upcoming.code = "syn"
    BY <1>2, <1>3, <2>2
  <2> QED
    BY <2>1, <2>2
<1>9. ASSUME NEW s, NEW c, Pending(s, c)
      PROVE  s = Pad /\ (c = Upcoming.code \/ Rank[Upcoming.code] < Rank[c])
  <2>1. PICK i \in DOMAIN frame :
          frame[i].slot = s /\ \E j \in DOMAIN frame[i].events : frame[i].events[j].code = c
    BY <1>9 DEF Pending
  <2>2. i = 1
    BY <1>1, <1>2
  <2>3. s = Pad /\ \E j \in DOMAIN e : e[j].code = c
    BY <2>1, <2>2 DEF e
  <2> QED
    BY <1>3, <1>7, <2>3
<1> QED
  BY <1>2, <1>5, <1>8, <1>9

LEMMA TakenAtPad ==
  ASSUME FrameOK, NEW code, NEW V, Takes(code, V), code \notin MtCodes
  PROVE  /\ frame[1].slot = Pad /\ Upcoming \in Truths(Pad)
         /\ \A s, c : Pending(s, c) => s = Pad /\ (c = code \/ Rank[code] < Rank[c])
         /\ \A s, c : Pending(s, c)' => s = Pad /\ Rank[code] < Rank[c]
         /\ FrameEnds <=> code = "syn"
         /\ frame' = <<>> <=> code = "syn"
         /\ frame' # <<>> => frame'[1].slot = Pad
<1>1. frame # <<>> /\ frame' = Rest /\ Upcoming.code = code
  BY TakesRest
<1>2. frame[1].slot = Pad /\ Upcoming \in Truths(Pad)
  <2>1. frame[1].slot \in HwSlots \cup {Pad} /\ Upcoming \in Truths(frame[1].slot)
    BY <1>1, FirstGroup
  <2> QED
    BY <1>1, <2>1, TruthTold DEF MtCodes
<1>3. /\ Len(frame) = 1
      /\ \A s, c : Pending(s, c) => s = Pad /\ (c = code \/ Rank[code] < Rank[c])
      /\ FrameEnds <=> code = "syn"
  BY <1>1, <1>2, AtThePad
<1>4. /\ frame[1].events \in Seq(Events) /\ frame[1].events # <<>> /\ Rising(frame[1].events)
      /\ 1 \in DOMAIN frame[1].events
  BY <1>1, FirstGroup DEF GroupOK
<1>5. CASE GroupEnds
  <2>1. frame' \in Seq(Groups) /\ Len(frame') = 0
    BY <1>1, <1>3, <1>5, RestOfFrame
  <2>2. frame' = <<>>
    BY <2>1, EmptySeq
  <2>3. \A s, c : ~Pending(s, c)'
    BY <2>2 DEF Pending
  <2>4. code = "syn"
    BY <1>3, <1>5 DEF FrameEnds
  <2> QED
    BY <1>2, <1>3, <2>2, <2>3, <2>4
<1>6. CASE ~GroupEnds
  <2> DEFINE e == frame[1].events
  <2>1. /\ frame' \in Seq(Groups) /\ Len(frame') = 1
        /\ frame'[1].slot = Pad /\ frame'[1].events = Tail(e)
    BY <1>1, <1>2, <1>3, <1>6, RestOfGroup
  <2>2. code # "syn" /\ frame' # <<>>
    BY <1>3, <1>6, <2>1 DEF FrameEnds
  <2>3. \A i \in DOMAIN Tail(e) : i \in Nat /\ i >= 1 /\ i + 1 \in DOMAIN e /\ Tail(e)[i] = e[i + 1]
    BY <1>4, TailOfEvents
  <2>4. ASSUME NEW s, NEW c, Pending(s, c)' PROVE s = Pad /\ Rank[code] < Rank[c]
    <3>1. PICK i \in DOMAIN frame' :
            frame'[i].slot = s /\ \E j \in DOMAIN frame'[i].events : frame'[i].events[j].code = c
      BY <2>4 DEF Pending
    <3>2. i = 1
      BY <2>1
    <3>3. PICK j \in DOMAIN Tail(e) : Tail(e)[j].code = c
      BY <2>1, <3>1, <3>2
    <3>4. 1 < j + 1 /\ j + 1 \in DOMAIN e /\ e[j + 1].code = c
      BY <2>3, <3>3
    <3>5. Rank[e[1].code] < Rank[e[j + 1].code]
      BY <1>4, <3>4 DEF Rising
    <3> QED
      BY <1>1, <2>1, <3>1, <3>2, <3>4, <3>5 DEF Upcoming
  <2> QED
    BY <1>2, <1>3, <2>1, <2>2, <2>4
<1> QED
  BY <1>5, <1>6

LEMMA TakenAtSlot ==
  ASSUME FrameOK, NEW code, NEW V, Takes(code, V), code \in MtCodes
  PROVE  /\ frame[1].slot \in HwSlots /\ Upcoming \in Truths(frame[1].slot)
         /\ ~FrameEnds /\ frame' # <<>>
         /\ frame'[1].slot # Pad =>
              \/ frame'[1].slot = frame[1].slot
              \/ frame'[1].events[1].code = "mt_slot"
         /\ \A c : c \notin MtCodes => (Pending(Pad, c)' <=> Pending(Pad, c))
<1>1. frame # <<>> /\ frame' = Rest /\ Upcoming.code = code
  BY TakesRest
<1>2. /\ frame \in Seq(Groups) /\ Len(frame) \in Nat \ {0} /\ DOMAIN frame = 1..Len(frame)
      /\ frame[1].slot \in HwSlots \cup {Pad} /\ Upcoming \in Truths(frame[1].slot)
      /\ GroupOK(1)
  BY <1>1, FirstGroup
<1>3. frame[1].slot # Pad /\ frame[1].slot \in HwSlots
  BY <1>1, <1>2, TruthTold DEF MtCodes
<1>4. Len(frame) # 1 /\ ~FrameEnds
  BY <1>2, <1>3 DEF GroupOK, FrameEnds
<1>5. frame' # <<>> /\ (frame'[1].slot # Pad =>
              \/ frame'[1].slot = frame[1].slot
              \/ frame'[1].events[1].code = "mt_slot")
  <2>1. CASE GroupEnds
    <3>1. /\ frame' \in Seq(Groups) /\ Len(frame') = Len(frame) - 1
          /\ \A i \in 1..Len(frame) - 1 : frame'[i] = frame[i + 1]
      BY <1>1, <2>1, RestOfFrame
    <3>2. Len(frame') # 0 /\ 1 \in 1..Len(frame) - 1 /\ 2 \in DOMAIN frame
      BY <1>2, <1>4, <3>1
    <3>3. frame' # <<>> /\ frame'[1] = frame[2] /\ GroupOK(2)
      <4>1. frame'[1] = frame[1 + 1]
        BY <3>1, <3>2
      <4>2. frame' # <<>>
        BY <3>2, EmptySeq
      <4> QED
        BY <3>2, <4>1, <4>2 DEF FrameOK
    <3> QED
      BY <3>3 DEF GroupOK
  <2>2. CASE ~GroupEnds
    <3>1. frame'[1].slot = frame[1].slot /\ Len(frame') = Len(frame)
      BY <1>1, <2>2, RestOfGroup
    <3>2. frame' # <<>>
      BY <1>2, <3>1, EmptySeq
    <3> QED
      BY <3>1, <3>2
  <2> QED
    BY <2>1, <2>2
<1>6. \A c : c \notin MtCodes => (Pending(Pad, c)' <=> Pending(Pad, c))
  BY <1>3, TakenPending
<1> QED
  BY <1>2, <1>3, <1>4, <1>5, <1>6

LEMMA TakenContactsOK ==
  ASSUME ContactsOK, NEW code, NEW V, Takes(code, V)
  PROVE  ContactsOK'
<1>1. /\ UNCHANGED <<order, at, mt_slot, abs, now>>
      /\ ~FrameEnds => UNCHANGED <<steady, travel, seen>>
      /\ FrameEnds => steady' = TRUE /\ travel' = Still /\ seen' = {}
  BY TakesRest
<1>2. FrameOK'
  BY TakenFrameOK DEF ContactsOK
<1>3. steady' \in BOOLEAN /\ travel' \in [Axis -> Int] /\ seen' \subseteq Axis
  <2>1. CASE FrameEnds
    <3>1. Still \in [Axis -> Int]
      BY DEF Still
    <3> QED
      BY <1>1, <2>1, <3>1
  <2>2. CASE ~FrameEnds
    BY <1>1, <2>2 DEF ContactsOK
  <2> QED
    BY <2>1, <2>2
<1> QED
  BY <1>1, <1>2, <1>3 DEF ContactsOK

\* A pad whose events are all processed has nothing left to tell.
LEMMA NothingPending == frame = <<>> => \A s, c : ~Pending(s, c)
  BY DEF Pending

-----------------------------------------------------------------------------
(* The table of slots *)

LEMMA DownAreSlots == ContactsOK => Down \subseteq HwSlots
  BY DEF ContactsOK, Down, Range

LEMMA PadIsNotInTable == Pad \notin Slots
  BY DEF Pad, Slots

\* A position of the table.
LEMMA TablePlaces ==
  ASSUME TypeOK, NEW s \in Slots, NEW a \in Axis
  PROVE  mt_slots[s][a] \in Int
<1>1. mt_slots[s] \in [active : BOOLEAN, x : Int, y : Int]
  BY DEF TypeOK
<1> QED
  BY <1>1

\* The slots of what is left of a frame are those it had.
LEMMA SlotsLeft ==
  ASSUME FrameOK, FrameOK', \A s, c : Pending(s, c)' => Pending(s, c),
         NEW i \in DOMAIN frame'
  PROVE  \E j \in DOMAIN frame : frame[j].slot = frame'[i].slot
<1>1. frame' \in Seq(Groups) /\ GroupOK(i)'
  BY DEF FrameOK, Groups
<1>2. frame'[i].events \in Seq(Events) /\ frame'[i].events # <<>>
  <2>1. frame'[i] \in Groups
    BY <1>1
  <2> QED
    BY <1>1, <2>1 DEF Groups, GroupOK
<1>3. 1 \in DOMAIN frame'[i].events
  BY <1>2
<1>4. Pending(frame[i].slot, frame[i].events[1].code)'
  BY <1>3 DEF Pending
<1>5. Pending(frame'[i].slot, frame'[i].events[1].code)
  BY <1>4
<1> QED
  BY <1>5 DEF Pending

LEMMA TableInit == Init => TableFollows
<1> SUFFICES ASSUME Init PROVE TableFollows
  OBVIOUS
<1>1. order = <<>> /\ frame = <<>> /\ at = [s \in HwSlots |-> Still]
      /\ mt_slots = [s \in Slots |-> [active |-> FALSE, x |-> 0, y |-> 0]]
  BY DEF Init, ContactsInit
<1>2. Down = {}
  BY <1>1 DEF Down, Range
<1>3. \A s \in Slots, a \in Axis : mt_slots[s][a] = 0 /\ mt_slots[s].active = FALSE
  BY <1>1
<1>4. \A s \in HwSlots, a \in Axis : at[s][a] = 0
  BY <1>1 DEF Still
<1> QED
  BY <1>1, <1>2, <1>3, <1>4 DEF TableFollows

LEMMA StrayedOfFrame ==
  ASSUME NEW b \in BOOLEAN, strayed \in Nat, strayed' = strayed + Bit(strayed > 0 \/ b)
  PROVE  strayed' \in Nat /\ (strayed' = 0 => strayed = 0 /\ ~b)
  BY DEF Bit

LEMMA TableOfPadFrame ==
  ASSUME TypeOK, ContactsOK, TableFollows, PadFrame
  PROVE  TableFollows'
<1>0. PICK D \in SUBSET HwSlots : \E to \in Places(D) :
        SendFrame(D, to) /\ strayed' = strayed + Bit(strayed > 0 \/ Strays(D, to))
  BY DEF PadFrame
<1>1. PICK to \in Places(D) :
        SendFrame(D, to) /\ strayed' = strayed + Bit(strayed > 0 \/ Strays(D, to))
  BY <1>0
<1>2. UNCHANGED <<mt_slots, current_slot>> /\ frame = <<>>
  BY DEF PadFrame, trackVars
<1>3. Strays(D, to) \in BOOLEAN /\ strayed \in Nat
  BY DEF Strays, TypeOK
<1>4. SUFFICES ASSUME strayed' = 0 PROVE TableFollows'
  BY DEF TableFollows
<1>5. strayed = 0 /\ ~Strays(D, to)
  BY <1>1, <1>3, <1>4, StrayedOfFrame
<1>6. to \in [HwSlots -> [Axis -> Int]]
  BY PlacesArePlaces
<1>7. PICK changed, after : Sends(D, to, changed, after)
  BY <1>1, SendFrameSends
<1>8. /\ FrameOK' /\ Down' = D
      /\ frame' # <<>> /\ frame'[1].slot = changed[1] /\ frame'[1].slot # Pad
      /\ changed[1] # mt_slot => frame'[1].events[1].code = "mt_slot"
      /\ \A i \in DOMAIN frame' : frame'[i].slot # Pad
                                    => frame'[i].slot \in ChangedSlots(D, to)
  BY <1>6, <1>7, SentFrameIsOK
<1>9. /\ \A s \in HwSlots : ~Pending(s, "mt_id")' => (s \in D <=> s \in Down)
      /\ \A s \in HwSlots, a \in Axis : ~Pending(s, MtCode[a])' => to[s][a] = at[s][a]
  BY <1>6, <1>7, SentFrameTells
<1>10. at' = to /\ changed \in Ascending(ChangedSlots(D, to)) /\ after \in ByAge(D)
       /\ Cardinality(ChangedSlots(D, to)) >= 1
  BY <1>7 DEF Sends
<1>11. \A s \in ChangedSlots(D, to) : s \in Slots /\ s \in HwSlots
  <2>1. \A s \in ChangedSlots(D, to) : s \in Nat /\ s \in HwSlots /\ ~(s >= NumSlots)
    BY <1>5, PadIsNoSlot DEF Strays, ChangedSlots
  <2> QED
    BY <2>1 DEF Slots
<1>12. D \subseteq Slots
  <2>1. Down \subseteq Slots
    BY <1>5 DEF TableFollows
  <2>2. \A s \in D : s \in Down \/ s \in ChangedSlots(D, to)
    BY DEF ChangedSlots
  <2> QED
    BY <1>11, <2>1, <2>2
<1>13. changed[1] \in ChangedSlots(D, to) /\ \A r \in ChangedSlots(D, to) : changed[1] <= r
  <2>1. /\ changed \in Seq(HwSlots) /\ Len(changed) = Cardinality(ChangedSlots(D, to))
        /\ Range(changed) = ChangedSlots(D, to)
        /\ \A i, j \in 1..Len(changed) : i < j => changed[i] < changed[j]
    BY <1>10, ChoicesOfFrame
  <2>2. 1 \in DOMAIN changed /\ DOMAIN changed = 1..Len(changed)
        /\ \A i \in DOMAIN changed : i = 1 \/ 1 < i
    BY <1>10, <2>1
  <2>3. \A i \in DOMAIN changed : changed[i] \in Nat
    <3>1. \A i \in DOMAIN changed : changed[i] \in HwSlots
      BY <2>1
    <3> QED
      BY <3>1, PadIsNoSlot
  <2>4. \A i \in DOMAIN changed : changed[1] <= changed[i]
    BY <2>1, <2>2, <2>3
  <2> QED
    BY <2>1, <2>2, <2>4 DEF Range
<1>14. frame'[1].events[1].code = "mt_slot" \/ current_slot' = frame'[1].slot
  <2>1. CASE changed[1] # mt_slot
    BY <1>8, <2>1
  <2>2. CASE changed[1] = mt_slot
    <3>1. ~(changed[1] # current_slot)
      BY <1>5, <1>13, <2>2 DEF Strays
    <3> QED
      BY <1>2, <1>8, <3>1
  <2> QED
    BY <2>1, <2>2
<1>15. ASSUME NEW s \in Slots
       PROVE  /\ ~Pending(s, "mt_id")' => (mt_slots'[s].active <=> s \in Down')
              /\ s \in HwSlots =>
                   \A a \in Axis : ~Pending(s, MtCode[a])' => mt_slots'[s][a] = at'[s][a]
  <2>1. \A c : ~Pending(s, c)
    BY <1>2, NothingPending
  <2>2. /\ mt_slots[s].active <=> s \in Down
        /\ s \in HwSlots => \A a \in Axis : mt_slots[s][a] = at[s][a]
    BY <1>5, <2>1 DEF TableFollows
  <2>3. Down \subseteq HwSlots
    BY DownAreSlots
  <2>4. CASE s \in HwSlots
    BY <1>2, <1>8, <1>9, <1>10, <2>2, <2>4
  <2>5. CASE s \notin HwSlots
    BY <1>2, <1>8, <2>2, <2>3, <2>5
  <2> QED
    BY <2>4, <2>5
<1>16. \A i \in DOMAIN frame' : frame'[i].slot # Pad => frame'[i].slot \in Slots
  BY <1>8, <1>11
<1> QED
  BY <1>8, <1>12, <1>14, <1>15, <1>16 DEF TableFollows, Upcoming

\* Events of the pad leave the table alone.
LEMMA TableKept ==
  ASSUME ContactsOK, TableFollows, NEW code, NEW V, Takes(code, V), code \notin MtCodes,
         UNCHANGED <<mt_slots, current_slot, strayed>>
  PROVE  TableFollows'
<1>1. /\ \A s, c : Pending(s, c) => s = Pad
      /\ \A s, c : Pending(s, c)' => s = Pad
      /\ frame' # <<>> => frame'[1].slot = Pad
  BY TakenAtPad DEF ContactsOK
<1>2. UNCHANGED <<order, at>> /\ Down' = Down
  BY TakesRest DEF Down
<1>3. \A s \in Slots : \A c : ~Pending(s, c)
  BY <1>1, PadIsNotInTable
<1>4. FrameOK' /\ FrameOK
  BY TakenFrameOK DEF ContactsOK
<1>5. \A s, c : Pending(s, c)' => Pending(s, c)
  BY <1>4, TakenPending
<1>6. \A i \in DOMAIN frame' : \E j \in DOMAIN frame : frame[j].slot = frame'[i].slot
  BY <1>4, <1>5, SlotsLeft
<1> QED
  BY <1>1, <1>2, <1>3, <1>6 DEF TableFollows

\* The event names its slot, or the slot was named before.
LEMMA SlotIsCurrent ==
  ASSUME ContactsOK, TableFollows, strayed = 0, NEW code, NEW V, Takes(code, V),
         code \in MtCodes
  PROVE  /\ frame[1].slot \in HwSlots \cap Slots
         /\ code # "mt_slot" => current_slot = frame[1].slot
<1>1. frame # <<>> /\ Upcoming.code = code /\ frame[1].slot \in HwSlots /\ 1 \in DOMAIN frame
  BY TakesRest, TakenAtSlot, FirstGroup DEF ContactsOK
<1>2. frame[1].slot # Pad
  BY <1>1, PadIsNoSlot
<1> QED
  BY <1>1, <1>2 DEF TableFollows

\* What an event of a slot leaves: the table follows when the entry of the slot
\* was brought up to date.
LEMMA TableOfSlotEvent ==
  ASSUME ContactsOK, TableFollows, NEW code, NEW V, Takes(code, V), code \in MtCodes,
         UNCHANGED strayed, strayed = 0,
         code = "mt_slot" => current_slot' = frame[1].slot,
         code # "mt_slot" => current_slot' = current_slot,
         \A s \in Slots :
           /\ s # frame[1].slot \/ code # "mt_id" => mt_slots'[s].active = mt_slots[s].active
           /\ s = frame[1].slot /\ code = "mt_id" => (mt_slots'[s].active <=> s \in Down)
           /\ \A a \in Axis :
                /\ s # frame[1].slot \/ code # MtCode[a] => mt_slots'[s][a] = mt_slots[s][a]
                /\ s = frame[1].slot /\ code = MtCode[a] => mt_slots'[s][a] = at[s][a]
  PROVE  TableFollows'
<1>1. /\ frame[1].slot \in HwSlots \cap Slots
      /\ current_slot' = frame[1].slot
  BY SlotIsCurrent
<1>2. /\ frame' # <<>>
      /\ frame'[1].slot # Pad =>
           frame'[1].slot = frame[1].slot \/ frame'[1].events[1].code = "mt_slot"
  BY TakenAtSlot DEF ContactsOK
<1>3. UNCHANGED <<order, at>> /\ Down' = Down
  BY TakesRest DEF Down
<1>4. FrameOK' /\ FrameOK
  BY TakenFrameOK DEF ContactsOK
<1>5. /\ \A s, c : Pending(s, c)' => Pending(s, c)
      /\ \A s, c : Pending(s, c) => Pending(s, c)' \/ (s = frame[1].slot /\ c = code)
  BY <1>4, TakenPending
<1>6. \A i \in DOMAIN frame' : \E j \in DOMAIN frame : frame[j].slot = frame'[i].slot
  BY <1>4, <1>5, SlotsLeft
<1>7. ASSUME NEW s \in Slots
      PROVE  /\ ~Pending(s, "mt_id")' => (mt_slots'[s].active <=> s \in Down')
             /\ s \in HwSlots =>
                  \A a \in Axis : ~Pending(s, MtCode[a])' => mt_slots'[s][a] = at'[s][a]
  <2>1. /\ ~Pending(s, "mt_id") => (mt_slots[s].active <=> s \in Down)
        /\ s \in HwSlots =>
             \A a \in Axis : ~Pending(s, MtCode[a]) => mt_slots[s][a] = at[s][a]
    BY DEF TableFollows
  <2>2. ~Pending(s, "mt_id")' => (mt_slots'[s].active <=> s \in Down')
    <3>1. CASE s = frame[1].slot /\ code = "mt_id"
      BY <1>3, <3>1
    <3>2. CASE ~(s = frame[1].slot /\ code = "mt_id")
      <4>1. ~Pending(s, "mt_id")' => ~Pending(s, "mt_id")
        BY <1>5, <3>2
      <4> QED
        BY <1>3, <2>1, <3>2, <4>1
    <3> QED
      BY <3>1, <3>2
  <2>3. ASSUME NEW a \in Axis, s \in HwSlots, ~Pending(s, MtCode[a])'
        PROVE  mt_slots'[s][a] = at'[s][a]
    <3>1. CASE s = frame[1].slot /\ code = MtCode[a]
      BY <1>3, <3>1
    <3>2. CASE ~(s = frame[1].slot /\ code = MtCode[a])
      <4>1. ~Pending(s, MtCode[a])
        BY <1>5, <2>3, <3>2
      <4> QED
        BY <1>3, <2>1, <2>3, <3>2, <4>1
    <3> QED
      BY <3>1, <3>2
  <2> QED
    BY <2>2, <2>3
<1>8. \A i \in DOMAIN frame' : frame'[i].slot # Pad => frame'[i].slot \in Slots
  BY <1>6 DEF TableFollows
<1>9. Down' \subseteq Slots
  BY <1>3 DEF TableFollows
<1> QED
  BY <1>1, <1>2, <1>7, <1>8, <1>9 DEF TableFollows, Upcoming

LEMMA MtValues ==
  ASSUME ContactsOK, NEW code, NEW V, Takes(code, V), code \in MtCodes
  PROVE  /\ Upcoming.value \in Int /\ frame[1].slot \in HwSlots
         /\ code = "mt_slot" => Upcoming.value = frame[1].slot
         /\ code = "mt_id" => Upcoming.value = IF frame[1].slot \in Down THEN 1 ELSE -1
         /\ \A a \in Axis : code = MtCode[a] => Upcoming.value = at[frame[1].slot][a]
<1>1. /\ frame # <<>> /\ Upcoming.code = code
      /\ frame[1].slot \in HwSlots /\ Upcoming \in Truths(frame[1].slot)
  BY TakesRest, TakenAtSlot DEF ContactsOK
<1>2. Upcoming \in Events
  BY <1>1, FirstGroup DEF ContactsOK
<1> QED
  BY <1>1, <1>2, TruthTold DEF Events

\* Setting one field of one entry of the table.
LEMMA PositionSet ==
  ASSUME TypeOK, NEW c \in Slots, NEW a \in Axis, NEW n \in Int, NEW t,
         \/ a = "x" /\ t = [mt_slots EXCEPT ![c].x = n]
         \/ a = "y" /\ t = [mt_slots EXCEPT ![c].y = n]
  PROVE  /\ t \in [Slots -> [active : BOOLEAN, x : Int, y : Int]]
         /\ \A s \in Slots :
              /\ t[s].active = mt_slots[s].active
              /\ \A b \in Axis : t[s][b] = IF s = c /\ b = a THEN n ELSE mt_slots[s][b]
<1>1. mt_slots \in [Slots -> [active : BOOLEAN, x : Int, y : Int]]
  BY DEF TypeOK
<1>2. mt_slots[c] \in [active : BOOLEAN, x : Int, y : Int]
  BY <1>1
<1>3. CASE a = "x" /\ t = [mt_slots EXCEPT ![c].x = n]
  BY <1>1, <1>2, <1>3
<1>4. CASE a = "y" /\ t = [mt_slots EXCEPT ![c].y = n]
  BY <1>1, <1>2, <1>4
<1> QED
  BY <1>3, <1>4

\* The types of the table and of what its events leave alone.
LEMMA TableOfMtSlot ==
  ASSUME TypeOK, ContactsOK, TableFollows, MtSlot
  PROVE  TableFollows' /\ current_slot' \in Slots \cap HwSlots /\ UNCHANGED mt_slots
<1>1. Takes("mt_slot", HwSlots) /\ UNCHANGED <<strayed, mt_slots>>
      /\ current_slot' = SlotOf(Upcoming.value)
  BY DEF MtSlot, Consumes
<1>2. "mt_slot" \in MtCodes
  BY DEF MtCodes
<1>3. Upcoming.value = frame[1].slot /\ frame[1].slot \in HwSlots /\ frame[1].slot \in Nat
  BY <1>1, <1>2, MtValues, PadIsNoSlot
<1>4. current_slot' \in Slots \cap HwSlots
  BY <1>1, <1>3 DEF SlotOf, Slots, TypeOK
<1>5. CASE strayed = 0
  <2>1. frame[1].slot \in Slots
    BY <1>1, <1>2, <1>5, SlotIsCurrent
  <2>2. current_slot' = frame[1].slot
    BY <1>1, <1>3, <2>1 DEF SlotOf, Slots
  <2> QED
    BY <1>1, <1>2, <1>4, <1>5, <2>2, CodesOfAxes, TableOfSlotEvent
<1>6. CASE strayed # 0
  BY <1>1, <1>4, <1>6 DEF TableFollows
<1> QED
  BY <1>5, <1>6

LEMMA TableOfTrackingId ==
  ASSUME TypeOK, ContactsOK, TableFollows, MtTrackingId
  PROVE  /\ TableFollows' /\ UNCHANGED current_slot
         /\ mt_slots' \in [Slots -> [active : BOOLEAN, x : Int, y : Int]]
         /\ Active' \subseteq HwSlots
<1>1. Takes("mt_id", {-1, 1}) /\ UNCHANGED <<strayed, current_slot>>
      /\ mt_slots' = [mt_slots EXCEPT ![current_slot].active = Upcoming.value >= 0]
  BY DEF MtTrackingId, Consumes
<1>2. "mt_id" \in MtCodes
  BY DEF MtCodes
<1>3. /\ Upcoming.value = IF frame[1].slot \in Down THEN 1 ELSE -1
      /\ Upcoming.value \in Int /\ (Upcoming.value >= 0 <=> frame[1].slot \in Down)
  BY <1>1, <1>2, MtValues
<1>4. /\ current_slot \in Slots /\ current_slot \in HwSlots
      /\ mt_slots \in [Slots -> [active : BOOLEAN, x : Int, y : Int]]
      /\ mt_slots[current_slot] \in [active : BOOLEAN, x : Int, y : Int]
  BY DEF TypeOK
<1>5. /\ mt_slots' \in [Slots -> [active : BOOLEAN, x : Int, y : Int]]
      /\ \A s \in Slots :
           /\ s = current_slot => (mt_slots'[s].active <=> Upcoming.value >= 0)
           /\ s # current_slot => mt_slots'[s].active = mt_slots[s].active
           /\ \A a \in Axis : mt_slots'[s][a] = mt_slots[s][a]
  <2>1. CASE Upcoming.value >= 0
    <3>1. mt_slots' = [mt_slots EXCEPT ![current_slot].active = TRUE]
      BY <1>1, <2>1
    <3>2. /\ mt_slots' \in [Slots -> [active : BOOLEAN, x : Int, y : Int]]
          /\ mt_slots'[current_slot].active
          /\ \A s \in Slots : /\ s # current_slot => mt_slots'[s] = mt_slots[s]
                             /\ \A a \in Axis : mt_slots'[s][a] = mt_slots[s][a]
      BY <1>4, <3>1
    <3> QED
      BY <2>1, <3>2
  <2>2. CASE ~(Upcoming.value >= 0)
    <3>1. (Upcoming.value >= 0) = FALSE
      BY <2>2
    <3>2. mt_slots' = [mt_slots EXCEPT ![current_slot].active = FALSE]
      BY <1>1, <3>1
    <3>3. /\ mt_slots' \in [Slots -> [active : BOOLEAN, x : Int, y : Int]]
          /\ ~mt_slots'[current_slot].active
          /\ \A s \in Slots : /\ s # current_slot => mt_slots'[s] = mt_slots[s]
                             /\ \A a \in Axis : mt_slots'[s][a] = mt_slots[s][a]
      BY <1>4, <3>2
    <3> QED
      BY <2>2, <3>3
  <2> QED
    BY <2>1, <2>2
<1>6. Active' \subseteq HwSlots
  <2>1. \A s \in Slots : mt_slots[s].active => s \in HwSlots
    BY DEF TypeOK, Active
  <2> QED
    BY <1>4, <1>5, <2>1 DEF Active
<1>7. CASE strayed = 0
  <2>1. current_slot = frame[1].slot
    BY <1>1, <1>2, <1>7, SlotIsCurrent
  <2>2. \A a \in Axis : MtCode[a] # "mt_id"
    BY CodesOfAxes
  <2>3. \A s \in Slots :
          /\ s # frame[1].slot \/ "mt_id" # "mt_id" => mt_slots'[s].active = mt_slots[s].active
          /\ s = frame[1].slot /\ "mt_id" = "mt_id" => (mt_slots'[s].active <=> s \in Down)
          /\ \A a \in Axis :
               /\ s # frame[1].slot \/ "mt_id" # MtCode[a] => mt_slots'[s][a] = mt_slots[s][a]
               /\ s = frame[1].slot /\ "mt_id" = MtCode[a] => mt_slots'[s][a] = at[s][a]
    BY <1>3, <1>5, <2>1, <2>2
  <2>4. TableFollows'
    BY <1>1, <1>2, <1>7, <2>3, TableOfSlotEvent
  <2> QED
    BY <1>1, <1>5, <1>6, <2>4
<1>8. CASE strayed # 0
  BY <1>1, <1>5, <1>6, <1>8 DEF TableFollows
<1> QED
  BY <1>7, <1>8

LEMMA TableOfPosition ==
  ASSUME TypeOK, ContactsOK, TableFollows, MtPosition
  PROVE  /\ TableFollows' /\ UNCHANGED current_slot
         /\ mt_slots' \in [Slots -> [active : BOOLEAN, x : Int, y : Int]]
         /\ Active' = Active
<1>1. PICK a \in Axis :
        /\ Takes(MtCode[a], Coordinates)
        /\ \/ a = "x" /\ mt_slots' = [mt_slots EXCEPT ![current_slot].x = Upcoming.value]
           \/ a = "y" /\ mt_slots' = [mt_slots EXCEPT ![current_slot].y = Upcoming.value]
  <2>1. \/ /\ Takes("mt_x", Coordinates)
           /\ mt_slots' = [mt_slots EXCEPT ![current_slot].x = Upcoming.value]
        \/ /\ Takes("mt_y", Coordinates)
           /\ mt_slots' = [mt_slots EXCEPT ![current_slot].y = Upcoming.value]
    BY DEF MtPosition, Consumes
  <2> QED
    BY <2>1, CodesOfAxes
<1>2. UNCHANGED <<strayed, current_slot>>
  BY DEF MtPosition, Consumes
<1>3. MtCode[a] \in MtCodes /\ MtCode[a] # "mt_slot" /\ MtCode[a] # "mt_id"
      /\ \A b \in Axis : MtCode[b] = MtCode[a] => b = a
  BY CodesOfAxes DEF MtCodes
<1>4. Upcoming.value = at[frame[1].slot][a] /\ Upcoming.value \in Int
  BY <1>1, <1>3, MtValues
<1>5. current_slot \in Slots
  BY DEF TypeOK
<1>6. /\ mt_slots' \in [Slots -> [active : BOOLEAN, x : Int, y : Int]]
      /\ \A s \in Slots :
           /\ mt_slots'[s].active = mt_slots[s].active
           /\ \A b \in Axis : mt_slots'[s][b] = IF s = current_slot /\ b = a
                                               THEN Upcoming.value ELSE mt_slots[s][b]
  BY <1>1, <1>4, <1>5, PositionSet
<1>7. Active' = Active
  BY <1>6 DEF Active
<1>8. CASE strayed = 0
  <2>1. current_slot = frame[1].slot
    BY <1>1, <1>3, <1>8, SlotIsCurrent
  <2>2. \A s \in Slots :
          /\ s # frame[1].slot \/ MtCode[a] # "mt_id" => mt_slots'[s].active = mt_slots[s].active
          /\ s = frame[1].slot /\ MtCode[a] = "mt_id" => (mt_slots'[s].active <=> s \in Down)
          /\ \A b \in Axis :
               /\ s # frame[1].slot \/ MtCode[a] # MtCode[b] => mt_slots'[s][b] = mt_slots[s][b]
               /\ s = frame[1].slot /\ MtCode[a] = MtCode[b] => mt_slots'[s][b] = at[s][b]
    BY <1>3, <1>4, <1>6, <2>1
  <2>3. TableFollows'
    BY <1>1, <1>2, <1>3, <1>8, <2>2, TableOfSlotEvent
  <2> QED
    BY <1>2, <1>6, <1>7, <2>3
<1>9. CASE strayed # 0
  BY <1>2, <1>6, <1>7, <1>9 DEF TableFollows
<1> QED
  BY <1>8, <1>9

-----------------------------------------------------------------------------
(* Pinches *)

LEMMA DistanceIsNat ==
  ASSUME TypeOK, Active # {}
  PROVE  primary_slot_distance \in Nat
<1> DEFINE places == [s \in FirstTwo(Active) |-> [a \in Axis |-> mt_slots[s][a]]]
<1>1. Active \in SUBSET HwSlots /\ Active \subseteq Slots
  BY DEF TypeOK, Active
<1>2. IsFiniteSet(Active) /\ Active \in SUBSET Nat
  BY <1>1, ContactsAssumption, FS_Subset
<1>3. PICK s, t \in Active : FirstTwo(Active) = {s, t}
  BY <1>2, FirstTwoAreTwo
<1>4. \A r \in Active, a \in Axis : mt_slots[r][a] \in Int
  BY <1>1, TablePlaces
<1>5. places \in [{s, t} -> [Axis -> Int]]
  BY <1>3, <1>4
<1> HIDE DEF places
<1>6. Apart(places) \in Nat
  BY <1>5, ApartIsNat
<1> QED
  BY <1>6 DEF primary_slot_distance, places

LEMMA PadDistanceIsNat ==
  ASSUME ContactsOK, order # <<>>
  PROVE  Distance(LowestTwo) \in Nat
<1> DEFINE places == [s \in LowestTwo |-> at[s]]
<1>1. Down \in SUBSET HwSlots /\ Down # {} /\ \A s \in HwSlots : at[s] \in [Axis -> Int]
  <2>1. order \in Seq(HwSlots) /\ 1 \in DOMAIN order
    BY DEF ContactsOK
  <2> QED
    BY <2>1, DownAreSlots DEF ContactsOK, Down, Range
<1>2. IsFiniteSet(Down) /\ Down \in SUBSET Nat
  BY <1>1, ContactsAssumption, FS_Subset
<1>3. PICK s, t \in Down : FirstTwo(Down) = {s, t}
  BY <1>1, <1>2, FirstTwoAreTwo
<1>4. places \in [{s, t} -> [Axis -> Int]]
  BY <1>1, <1>3 DEF LowestTwo
<1> HIDE DEF places
<1>5. Apart(places) \in Nat
  BY <1>4, ApartIsNat
<1> QED
  BY <1>5 DEF Distance, places

\* At the pad's own events the table has the contacts where they are.
LEMMA TableHasContacts ==
  ASSUME TypeOK, ContactsOK, TableFollows, strayed = 0, frame # <<>>, frame[1].slot = Pad
  PROVE  /\ Active = Down
         /\ primary_slot_distance = Distance(LowestTwo)
<1>1. \A s \in Slots : \A c : ~Pending(s, c)
  BY AtThePad, PadIsNotInTable DEF ContactsOK
<1>2. /\ Down \subseteq Slots
      /\ \A s \in Slots : mt_slots[s].active <=> s \in Down
      /\ \A s \in Slots \cap HwSlots, a \in Axis : mt_slots[s][a] = at[s][a]
  BY <1>1 DEF TableFollows
<1>3. Active = Down
  BY <1>2 DEF Active
<1>4. \A s \in Down : [a \in Axis |-> mt_slots[s][a]] = at[s]
  <2>1. \A s \in Down : s \in Slots \cap HwSlots /\ at[s] \in [Axis -> Int]
    BY <1>2, DownAreSlots DEF ContactsOK
  <2> QED
    BY <1>2, <2>1
<1>5. FirstTwo(Active) = LowestTwo /\ LowestTwo \subseteq Down
  BY <1>3 DEF LowestTwo, FirstTwo
<1>6. [s \in FirstTwo(Active) |-> [a \in Axis |-> mt_slots[s][a]]] = [s \in LowestTwo |-> at[s]]
  BY <1>4, <1>5
<1> QED
  BY <1>3, <1>6 DEF primary_slot_distance, Distance

LEMMA TouchesAreCounted ==
  ASSUME TypeOK
  PROVE  /\ active_slot_count \in 0..Cardinality(HwSlots)
         /\ active_slot_count >= 1 => Active # {}
         /\ Cardinality(HwSlots) \in Nat \ {0}
<1>1. Active \in SUBSET HwSlots /\ IsFiniteSet(HwSlots) /\ 0 \in HwSlots
  BY ContactsAssumption DEF TypeOK
<1>2. /\ IsFiniteSet(Active) /\ Cardinality(Active) <= Cardinality(HwSlots)
      /\ Cardinality(Active) \in Nat /\ Cardinality(HwSlots) \in Nat
  BY <1>1, FS_Subset, FS_CardinalityType
<1>3. Cardinality(HwSlots) # 0 /\ (Active = {} => Cardinality(Active) = 0)
  BY <1>1, FS_EmptySet
<1> QED
  BY <1>2, <1>3 DEF active_slot_count

\* What a touch is, and what it makes of the fingers and the pinch.
LEMMA TouchDownKeeps ==
  ASSUME TypeOK, ContactsOK, TableFollows, PinchFollows, TouchDown
  PROVE  /\ order # <<>>
         /\ touch_fingers' \in 0..Cardinality(HwSlots)
         /\ pinch_active' \in BOOLEAN /\ pinch_base_dist' \in Nat
         /\ PinchFollows'
<1>1. Takes("touch", {1}) /\ UNCHANGED strayed
  BY DEF TouchDown, Consumes
<1>2. "touch" \notin MtCodes
  BY DEF MtCodes
<1>3. frame # <<>> /\ frame[1].slot = Pad /\ Upcoming.code = "touch" /\ Upcoming.value = 1
      /\ Upcoming \in Truths(Pad)
  <2>1. frame # <<>> /\ Upcoming.code = "touch" /\ Upcoming.value \in {1}
    BY <1>1, TakesRest
  <2>2. frame[1].slot = Pad /\ Upcoming \in Truths(Pad)
    BY <1>1, <1>2, TakenAtPad DEF ContactsOK
  <2> QED
    BY <2>1, <2>2
<1>4. order # <<>>
  <2>1. Upcoming.value = Bit(order # <<>>)
    BY <1>3, TruthTold
  <2> QED
    BY <1>3, <2>1 DEF Bit
<1>5. touch_fingers' \in 0..Cardinality(HwSlots)
  BY TouchesAreCounted DEF TouchDown
<1>6. CASE active_slot_count >= 2 /\ ~pinch_active
  <2>1. /\ pinch_active' = TRUE /\ pinch_base_dist' = primary_slot_distance
        /\ begun' = [pair |-> LowestTwo, dist |-> Distance(LowestTwo)]
    BY <1>6 DEF TouchDown
  <2>2. Active # {}
    BY <1>6, TouchesAreCounted
  <2>3. primary_slot_distance \in Nat
    BY <2>2, DistanceIsNat
  <2>4. begun'.dist = Distance(LowestTwo) /\ Distance(LowestTwo) \in Nat
    BY <1>4, <2>1, PadDistanceIsNat
  <2>5. strayed = 0 => primary_slot_distance = Distance(LowestTwo)
    BY <1>3, TableHasContacts
  <2> QED
    BY <1>1, <1>4, <1>5, <2>1, <2>3, <2>4, <2>5 DEF PinchFollows
<1>7. CASE ~(active_slot_count >= 2 /\ ~pinch_active)
  <2>1. UNCHANGED <<pinch_active, pinch_base_dist, begun>>
    BY <1>7 DEF TouchDown
  <2> QED
    BY <1>1, <1>4, <1>5, <2>1 DEF PinchFollows, TypeOK
<1> QED
  BY <1>6, <1>7

-----------------------------------------------------------------------------
(* Positions *)

LEMMA PositionsInit == Init => PositionsFollow
<1> SUFFICES ASSUME Init PROVE PositionsFollow
  OBVIOUS
<1>1. frame = <<>> /\ order = <<>> /\ current = Still /\ \A a \in Axis : last[a] = None
  BY DEF Init, ContactsInit, Unknown
<1>2. \A a \in Axis : ~Due(a)
  BY <1>1, NothingPending DEF Due
<1>3. \A c : ~Pending(Pad, c)
  BY <1>1, NothingPending
<1> QED
  BY <1>1, <1>2, <1>3 DEF PositionsFollow

LEMMA PositionsOfPadFrame ==
  ASSUME TypeOK, ContactsOK, PositionsFollow, PadFrame
  PROVE  PositionsFollow'
<1>1. PICK D \in SUBSET HwSlots : \E to \in Places(D) : SendFrame(D, to)
  BY DEF PadFrame
<1>2. PICK to \in Places(D) : SendFrame(D, to)
  BY <1>1
<1>3. to \in [HwSlots -> [Axis -> Int]]
  BY PlacesArePlaces
<1>4. PICK changed, after : Sends(D, to, changed, after)
  BY <1>2, SendFrameSends
<1>5. /\ UNCHANGED <<last, current, stale>> /\ paused' = stale /\ frame = <<>>
      /\ current = Still
  BY DEF PadFrame, trackVars, PositionsFollow
<1>6. frame' # <<>>
  BY <1>3, <1>4, SentFrameIsOK
<1>7. /\ Pending(Pad, "touch")' <=> (order = <<>> <=> after # <<>>)
      /\ \A a \in Axis : Due(a)' <=> abs'[a] # abs[a]
  BY <1>3, <1>4, SentFrameTells DEF Due
<1>8. /\ order' = after /\ at' = to /\ abs' = Foremost(to, after)
      /\ steady' = (order # <<>> /\ after # <<>> => order[1] = after[1])
      /\ order # <<>> /\ after # <<>>
           => travel' = [a \in Axis |-> to[after[1]][a] - at[after[1]][a]]
      /\ ~(order # <<>> /\ after # <<>>) => travel' = Still
      /\ seen' = IF order = <<>> THEN {} ELSE now
      /\ now' = seen' \cup {a \in Axis : abs'[a] # abs[a]}
  BY <1>4 DEF Sends
<1>9. \A a \in Axis : ~Due(a)
  BY <1>5, NothingPending DEF Due
<1>10. \A a \in Axis : /\ last[a] \in {None, abs[a]}
                       /\ order # <<>> /\ a \in now => last[a] = abs[a]
  BY <1>9 DEF PositionsFollow
<1>11. \A a \in Axis : abs[a] \in Int /\ abs'[a] \in Int /\ current[a] = 0
  <2>1. ContactsOK'
    BY <1>3, <1>4, SentContactsOK
  <2> QED
    BY <1>5, <2>1 DEF ContactsOK, Still
<1>12. ASSUME order # <<>>, after # <<>>, steady', NEW a \in Axis
       PROVE  travel'[a] = abs'[a] - abs[a]
  <2>1. order[1] = after[1] /\ abs = at[order[1]] /\ abs' = to[after[1]]
    BY <1>8, <1>12 DEF ContactsOK, Foremost
  <2>2. travel' = [b \in Axis |-> to[after[1]][b] - at[after[1]][b]]
    BY <1>8, <1>12
  <2>3. travel'[a] = to[after[1]][a] - at[after[1]][a]
    BY <2>2
  <2> QED
    BY <2>1, <2>3
<1>13. after = <<>> => abs' = abs
  BY <1>8 DEF Foremost
<1>14. ~(order # <<>> /\ after # <<>>) => \A a \in Axis : travel'[a] = 0
  BY <1>8 DEF Still
<1>15. order' = <<>> => \A a \in Axis : ~Due(a)' /\ travel'[a] = 0
  BY <1>7, <1>8, <1>13, <1>14
<1>16. order' # <<>> /\ Pending(Pad, "touch")' => seen' = {} /\ \A a \in now' : Due(a)'
  <2> SUFFICES ASSUME order' # <<>>, Pending(Pad, "touch")'
               PROVE  seen' = {} /\ \A a \in now' : Due(a)'
    OBVIOUS
  <2>1. order = <<>>
    BY <1>7, <1>8
  <2> QED
    BY <1>7, <1>8, <2>1
<1>17. ASSUME NEW a \in Axis, Due(a)', steady', ~Pending(Pad, "touch")'
       PROVE  last'[a] = abs'[a] - travel'[a] \/ (last'[a] = None /\ a \notin seen')
  <2>1. after # <<>> /\ order # <<>>
    BY <1>7, <1>13, <1>17
  <2>2. abs'[a] - travel'[a] = abs[a]
    BY <1>11, <1>12, <1>17, <2>1
  <2>3. a \in seen' => last[a] = abs[a]
    BY <1>8, <1>10, <2>1
  <2> QED
    BY <1>5, <1>10, <2>2, <2>3
<1>18. ASSUME NEW a \in Axis, ~Due(a)'
       PROVE  /\ last'[a] \in {None, abs'[a]}
              /\ order' # <<>> /\ a \in now' => last'[a] = abs'[a]
  <2>1. abs'[a] = abs[a]
    BY <1>7, <1>18
  <2>2. a \in now' => order # <<>> /\ a \in now
    BY <1>8, <2>1
  <2> QED
    BY <1>5, <1>10, <2>1, <2>2
<1>19. steady' => Cardinality(Dropped') <= Bit(paused' /\ ~stale')
  <2> SUFFICES ASSUME steady' PROVE Cardinality(Dropped') <= Bit(paused' /\ ~stale')
    OBVIOUS
  <2>1. ASSUME NEW a \in Dropped' PROVE FALSE
    <3>1. a \in seen' /\ ~Due(a)' /\ current'[a] # travel'[a] /\ a \in Axis
      BY <1>4, <2>1 DEF Dropped, Sends, ContactsOK
    <3>2. abs'[a] = abs[a] /\ current'[a] = 0
      BY <1>5, <1>7, <1>11, <3>1
    <3>3. CASE after = <<>> \/ order = <<>>
      BY <1>14, <3>1, <3>2, <3>3
    <3>4. CASE after # <<>> /\ order # <<>>
      BY <1>11, <1>12, <3>1, <3>2, <3>4
    <3> QED
      BY <3>3, <3>4
  <2>2. Dropped' = {}
    BY <2>1
  <2>3. Cardinality(Dropped') = 0
    BY <2>2, FS_EmptySet
  <2> QED
    BY <2>3, BitIsInt
<1>20. frame' # <<>> /\ stale' => paused'
  BY <1>5
<1>21. \A a \in Axis : current'[a] = 0
  BY <1>5, <1>11
<1> QED
  BY <1>6, <1>15, <1>16, <1>17, <1>18, <1>19, <1>20, <1>21 DEF PositionsFollow

\* Events of the slots leave the positions alone.
LEMMA PositionsKept ==
  ASSUME ContactsOK, PositionsFollow, NEW code, NEW V, Takes(code, V), code \in MtCodes,
         UNCHANGED <<last, current, stale>>, paused' = (paused /\ ~FrameEnds), paused \in BOOLEAN
  PROVE  PositionsFollow'
<1>1. ~FrameEnds /\ frame' # <<>> /\ frame # <<>>
      /\ \A c : c \notin MtCodes => (Pending(Pad, c)' <=> Pending(Pad, c))
  BY TakenAtSlot, TakesRest DEF ContactsOK
<1>2. UNCHANGED <<order, abs, now, steady, travel, seen>> /\ paused' = paused
  BY <1>1, TakesRest
<1>3. "touch" \notin MtCodes /\ \A a \in Axis : AbsCode[a] \notin MtCodes
  BY CodesOfAxes DEF MtCodes
<1>4. /\ Pending(Pad, "touch")' <=> Pending(Pad, "touch")
      /\ \A a \in Axis : Due(a)' <=> Due(a)
  BY <1>1, <1>3 DEF Due
<1>5. Dropped' = Dropped
  <2>1. seen \subseteq Axis
    BY DEF ContactsOK
  <2> QED
    BY <1>2, <1>4, <2>1 DEF Dropped
<1>6. Cardinality(Dropped') = Cardinality(Dropped)
      /\ Bit(paused' /\ ~stale') = Bit(paused /\ ~stale)
  BY <1>2, <1>5 DEF Bit
<1>7. steady' => Cardinality(Dropped') <= Bit(paused' /\ ~stale')
  BY <1>1, <1>2, <1>6 DEF PositionsFollow
<1>8. /\ frame' # <<>> /\ stale' => paused'
      /\ order' = <<>> => \A a \in Axis : ~Due(a)' /\ travel'[a] = 0
      /\ order' # <<>> /\ Pending(Pad, "touch")' => seen' = {} /\ \A a \in now' : Due(a)'
  BY <1>1, <1>2, <1>3, <1>4 DEF PositionsFollow, ContactsOK
<1>9. ASSUME NEW a \in Axis
      PROVE  /\ Due(a)' => current'[a] = 0
             /\ Due(a)' /\ steady' /\ ~Pending(Pad, "touch")'
                  => last'[a] = abs'[a] - travel'[a] \/ (last'[a] = None /\ a \notin seen')
             /\ ~Due(a)' => last'[a] \in {None, abs'[a]}
             /\ ~Due(a)' /\ order' # <<>> /\ a \in now' => last'[a] = abs'[a]
             /\ ~Due(a)' /\ steady' => current'[a] \in {0, travel'[a]}
  BY <1>1, <1>2, <1>4 DEF PositionsFollow
<1> QED
  BY <1>1, <1>7, <1>8, <1>9 DEF PositionsFollow

\* What holds of a pad's event other than the last of the frame.
LEMMA PadEventKeeps ==
  ASSUME ContactsOK, NEW code, NEW V, Takes(code, V), code \notin MtCodes, code # "syn",
         paused' = (paused /\ ~FrameEnds), paused \in BOOLEAN
  PROVE  /\ frame # <<>> /\ frame' # <<>> /\ Upcoming.code = code /\ Upcoming.value \in V
         /\ Upcoming \in Truths(Pad)
         /\ UNCHANGED <<order, at, abs, now, steady, travel, seen, paused>>
         /\ Pending(Pad, code) /\ ~Pending(Pad, code)'
         /\ \A c : c # code => (Pending(Pad, c)' <=> Pending(Pad, c))
         /\ \A c : Pending(Pad, c) => c = code \/ Rank[code] < Rank[c]
<1>1. /\ frame # <<>> /\ Upcoming.code = code /\ Upcoming.value \in V
      /\ UNCHANGED <<order, at, abs, now>>
      /\ ~FrameEnds => UNCHANGED <<steady, travel, seen>>
  BY TakesRest
<1>2. /\ frame[1].slot = Pad /\ Upcoming \in Truths(Pad)
      /\ \A s, c : Pending(s, c) => s = Pad /\ (c = code \/ Rank[code] < Rank[c])
      /\ \A s, c : Pending(s, c)' => s = Pad /\ Rank[code] < Rank[c]
      /\ ~FrameEnds /\ frame' # <<>>
  BY TakenAtPad DEF ContactsOK
<1>3. /\ \A s, c : Pending(s, c)' => Pending(s, c)
      /\ \A s, c : Pending(s, c) => Pending(s, c)' \/ (s = frame[1].slot /\ c = code)
      /\ Pending(Pad, code)
  BY <1>2, TakenPending DEF ContactsOK
<1>4. ~Pending(Pad, code)'
  <2>1. Rank[code] \in Int
    <3>1. Upcoming \in Events
      BY <1>1, FirstGroup DEF ContactsOK
    <3> QED
      BY <1>1, <3>1, RankIsNat
  <2> QED
    BY <1>2, <2>1
<1>5. paused' = paused
  BY <1>2
<1> QED
  BY <1>1, <1>2, <1>3, <1>4, <1>5

LEMMA PositionsOfTouchDown ==
  ASSUME ContactsOK, PositionsFollow, TouchDown, paused \in BOOLEAN
  PROVE  PositionsFollow'
<1>1. /\ Takes("touch", {1}) /\ paused' = (paused /\ ~FrameEnds)
      /\ UNCHANGED <<current, stale>> /\ \A a \in Axis : last'[a] = None
  BY DEF TouchDown, Consumes, LastForgotten, Unknown
<1>2. "touch" \notin MtCodes /\ "touch" # "syn" /\ \A a \in Axis : AbsCode[a] # "touch"
  BY CodesOfAxes DEF MtCodes
<1>3. /\ frame # <<>> /\ frame' # <<>> /\ Upcoming.value \in {1} /\ Upcoming.code = "touch"
      /\ Upcoming \in Truths(Pad)
      /\ UNCHANGED <<order, at, abs, now, steady, travel, seen, paused>>
      /\ Pending(Pad, "touch") /\ ~Pending(Pad, "touch")'
      /\ \A c : c # "touch" => (Pending(Pad, c)' <=> Pending(Pad, c))
  BY <1>1, <1>2, PadEventKeeps
<1>4. \A a \in Axis : Due(a)' <=> Due(a)
  BY <1>2, <1>3 DEF Due
<1>5. order # <<>>
  <2>1. Upcoming.value = Bit(order # <<>>)
    BY <1>3, TruthTold
  <2> QED
    BY <1>3, <2>1 DEF Bit
<1>6. seen = {} /\ \A a \in now : Due(a)
  BY <1>3, <1>5 DEF PositionsFollow
<1>7. Cardinality(Dropped') = 0
  <2>1. Dropped' = {}
    BY <1>3, <1>6 DEF Dropped
  <2> QED
    BY <2>1, FS_EmptySet
<1>8. Cardinality(Dropped') <= Bit(paused' /\ ~stale')
  BY <1>7, BitIsInt
<1>9. ASSUME NEW a \in Axis
      PROVE  /\ Due(a)' => current'[a] = 0
             /\ last'[a] = None /\ a \notin seen'
             /\ ~Due(a)' /\ order' # <<>> /\ a \in now' => last'[a] = abs'[a]
             /\ ~Due(a)' /\ steady' => current'[a] \in {0, travel'[a]}
  BY <1>1, <1>3, <1>4, <1>6 DEF PositionsFollow
<1>10. stale' => paused'
  <2>1. stale => paused
    BY <1>3 DEF PositionsFollow
  <2>2. stale' = stale /\ paused' = paused
    BY <1>1, <1>3
  <2> QED
    BY <2>1, <2>2
<1> QED
  BY <1>3, <1>5, <1>8, <1>9, <1>10 DEF PositionsFollow

LEMMA PositionsOfTouchUp ==
  ASSUME ContactsOK, PositionsFollow, TouchUp, paused \in BOOLEAN
  PROVE  PositionsFollow'
<1>1. /\ Takes("touch", {0}) /\ paused' = (paused /\ ~FrameEnds)
      /\ UNCHANGED stale /\ current' = Still /\ \A a \in Axis : last'[a] = None
  BY DEF TouchUp, Consumes, LastForgotten, Unknown
<1>2. "touch" \notin MtCodes /\ "touch" # "syn" /\ \A a \in Axis : AbsCode[a] # "touch"
  BY CodesOfAxes DEF MtCodes
<1>3. /\ frame # <<>> /\ frame' # <<>> /\ Upcoming.value \in {0} /\ Upcoming.code = "touch"
      /\ Upcoming \in Truths(Pad)
      /\ UNCHANGED <<order, at, abs, now, steady, travel, seen, paused>>
      /\ Pending(Pad, "touch") /\ ~Pending(Pad, "touch")'
      /\ \A c : c # "touch" => (Pending(Pad, c)' <=> Pending(Pad, c))
  BY <1>1, <1>2, PadEventKeeps
<1>4. order = <<>>
  <2>1. Upcoming.value = Bit(order # <<>>)
    BY <1>3, TruthTold
  <2> QED
    BY <1>3, <2>1 DEF Bit
<1>5. \A a \in Axis : ~Due(a) /\ travel[a] = 0
  BY <1>3, <1>4 DEF PositionsFollow
<1>6. \A a \in Axis : ~Due(a)' /\ travel'[a] = 0 /\ current'[a] = 0
  BY <1>1, <1>2, <1>3, <1>5 DEF Due, Still
<1>7. Cardinality(Dropped') = 0
  <2>1. seen' \subseteq Axis
    BY <1>3 DEF ContactsOK
  <2>2. Dropped' = {}
    BY <1>6, <2>1 DEF Dropped
  <2> QED
    BY <2>2, FS_EmptySet
<1>8. Cardinality(Dropped') <= Bit(paused' /\ ~stale')
  BY <1>7, BitIsInt
<1>9. stale' => paused'
  <2>1. stale => paused
    BY <1>3 DEF PositionsFollow
  <2>2. stale' = stale /\ paused' = paused
    BY <1>1, <1>3
  <2> QED
    BY <2>1, <2>2
<1>10. order' = <<>>
  BY <1>3, <1>4
<1> QED
  BY <1>1, <1>3, <1>6, <1>8, <1>9, <1>10 DEF PositionsFollow

LEMMA PositionsOfToolTap ==
  ASSUME ContactsOK, PositionsFollow, ToolTap, paused \in BOOLEAN
  PROVE  PositionsFollow'
<1>1. /\ UNCHANGED <<last, current, stale>>
      /\ \E n \in 2..3 : Consumes(<<"doubletap", "tripletap">>[n - 1], {0, 1})
  BY DEF ToolTap
<1>2. PICK code \in {"doubletap", "tripletap"} :
        Takes(code, {0, 1}) /\ paused' = (paused /\ ~FrameEnds)
  <2>1. PICK n \in 2..3 : Consumes(<<"doubletap", "tripletap">>[n - 1], {0, 1})
    BY <1>1
  <2>2. n = 2 \/ n = 3
    OBVIOUS
  <2>3. Takes(<<"doubletap", "tripletap">>[n - 1], {0, 1})
        /\ paused' = (paused /\ ~FrameEnds)
    BY <2>1 DEF Consumes
  <2>4. <<"doubletap", "tripletap">>[n - 1] \in {"doubletap", "tripletap"}
    BY <2>2
  <2> QED
    BY <2>3, <2>4
<1>3. code \notin MtCodes /\ code # "syn" /\ code # "touch" /\ \A a \in Axis : AbsCode[a] # code
  BY CodesOfAxes DEF MtCodes
<1>4. /\ frame # <<>> /\ frame' # <<>>
      /\ UNCHANGED <<order, at, abs, now, steady, travel, seen, paused>>
      /\ \A c : c # code => (Pending(Pad, c)' <=> Pending(Pad, c))
  BY <1>2, <1>3, PadEventKeeps
<1>5. /\ Pending(Pad, "touch")' <=> Pending(Pad, "touch")
      /\ \A a \in Axis : Due(a)' <=> Due(a)
  BY <1>3, <1>4 DEF Due
<1>6. Cardinality(Dropped') = Cardinality(Dropped)
      /\ Bit(paused' /\ ~stale') = Bit(paused /\ ~stale)
  <2>1. seen \subseteq Axis
    BY DEF ContactsOK
  <2>2. Dropped' = Dropped
    BY <1>1, <1>4, <1>5, <2>1 DEF Dropped
  <2> QED
    BY <1>1, <1>4, <2>2 DEF Bit
<1>7. steady' => Cardinality(Dropped') <= Bit(paused' /\ ~stale')
  BY <1>4, <1>6 DEF PositionsFollow
<1>8. /\ stale' => paused'
      /\ order' = <<>> => \A a \in Axis : ~Due(a)' /\ travel'[a] = 0
      /\ order' # <<>> /\ Pending(Pad, "touch")' => seen' = {} /\ \A a \in now' : Due(a)'
  BY <1>1, <1>4, <1>5 DEF PositionsFollow, ContactsOK
<1>9. ASSUME NEW a \in Axis
      PROVE  /\ Due(a)' => current'[a] = 0
             /\ Due(a)' /\ steady' /\ ~Pending(Pad, "touch")'
                  => last'[a] = abs'[a] - travel'[a] \/ (last'[a] = None /\ a \notin seen')
             /\ ~Due(a)' => last'[a] \in {None, abs'[a]}
             /\ ~Due(a)' /\ order' # <<>> /\ a \in now' => last'[a] = abs'[a]
             /\ ~Due(a)' /\ steady' => current'[a] \in {0, travel'[a]}
  BY <1>1, <1>4, <1>5 DEF PositionsFollow
<1> QED
  BY <1>4, <1>7, <1>8, <1>9 DEF PositionsFollow

\* What a position that was due adds is the travel, or nothing if it is not
\* measured from the frame before.
LEMMA PositionsOfAbsAxis ==
  ASSUME TypeOK, ContactsOK, PositionsFollow, AbsAxis
  PROVE  PositionsFollow'
<1>1. PICK a \in Axis :
        /\ Consumes(IF a = "x" THEN "abs_x" ELSE "abs_y", Coordinates)
        /\ current' = [current EXCEPT ![a] = IF Previous(a) = None THEN @
                                             ELSE @ + (Upcoming.value - Previous(a))]
        /\ last' = [last EXCEPT ![a] = Upcoming.value]
  BY DEF AbsAxis
<1>2. (IF a = "x" THEN "abs_x" ELSE "abs_y") = AbsCode[a]
  BY CodesOfAxes
<1>3. Takes(AbsCode[a], Coordinates) /\ paused' = (paused /\ ~FrameEnds) /\ stale' = FALSE
      /\ paused \in BOOLEAN
  BY <1>1, <1>2 DEF Consumes, AbsAxis, TypeOK
<1>4. /\ AbsCode[a] \notin MtCodes /\ AbsCode[a] # "syn" /\ AbsCode[a] # "touch"
      /\ \A b \in Axis : AbsCode[b] = AbsCode[a] => b = a
      /\ ~(Rank[AbsCode[a]] < Rank["touch"])
  BY CodesOfAxes, RankIs DEF MtCodes
<1>5. /\ frame # <<>> /\ frame' # <<>> /\ Upcoming.code = AbsCode[a]
      /\ Upcoming \in Truths(Pad)
      /\ UNCHANGED <<order, at, abs, now, steady, travel, seen, paused>>
      /\ Pending(Pad, AbsCode[a]) /\ ~Pending(Pad, AbsCode[a])'
      /\ \A c : c # AbsCode[a] => (Pending(Pad, c)' <=> Pending(Pad, c))
      /\ \A c : Pending(Pad, c) => c = AbsCode[a] \/ Rank[AbsCode[a]] < Rank[c]
  BY <1>3, <1>4, PadEventKeeps
<1>6. ~Pending(Pad, "touch") /\ ~Pending(Pad, "touch")'
  BY <1>4, <1>5
<1>7. Due(a) /\ ~Due(a)' /\ \A b \in Axis : b # a => (Due(b)' <=> Due(b))
  BY <1>4, <1>5 DEF Due
<1>8. Upcoming.value = abs[a] /\ abs[a] \in Int /\ travel[a] \in Int
  <2>1. Upcoming.value = abs[a]
    BY <1>5, TruthTold
  <2> QED
    BY <2>1 DEF ContactsOK
<1>9. /\ current \in [Axis -> Int] /\ last \in [Axis -> Int \cup {None}]
      /\ current[a] = 0 /\ stale \in BOOLEAN
  BY <1>7 DEF TypeOK, PositionsFollow
<1>10. /\ last'[a] = abs[a]
       /\ current'[a] = IF Previous(a) = None THEN 0 ELSE abs[a] - Previous(a)
       /\ \A b \in Axis : b # a => last'[b] = last[b] /\ current'[b] = current[b]
  <2>1. last'[a] = abs[a] /\ \A b \in Axis : b # a => last'[b] = last[b]
    BY <1>1, <1>8, <1>9
  <2>2. \A b \in Axis : b # a => current'[b] = current[b]
    BY <1>1, <1>9
  <2>3. Previous(a) = None => current'[a] = 0
    BY <1>1, <1>9
  <2>4. Previous(a) # None => current'[a] = abs[a] - Previous(a)
    <3>1. Previous(a) # None => Previous(a) \in Int
      BY <1>9 DEF Previous
    <3>2. Previous(a) # None => current'[a] = current[a] + (Upcoming.value - Previous(a))
      BY <1>1, <1>9
    <3> QED
      BY <1>8, <1>9, <3>1, <3>2
  <2> QED
    BY <2>1, <2>2, <2>3, <2>4
<1>11. steady => last[a] = abs[a] - travel[a] \/ (last[a] = None /\ a \notin seen)
  BY <1>6, <1>7 DEF PositionsFollow
<1>12. steady => /\ current'[a] \in {0, travel[a]}
                 /\ a \in seen /\ current'[a] # travel[a] => stale
  <2>1. CASE stale
    BY <1>10, <2>1 DEF Previous
  <2>2. CASE ~stale
    <3>1. Previous(a) = last[a]
      BY <2>2 DEF Previous
    <3>2. CASE last[a] = None
      BY <1>10, <1>11, <1>8, <3>1, <3>2
    <3>3. CASE last[a] # None
      <4>1. steady => last[a] = abs[a] - travel[a]
        BY <1>11, <3>3
      <4>2. current'[a] = abs[a] - last[a]
        BY <1>10, <3>1, <3>3
      <4>3. steady => current'[a] = travel[a]
        BY <1>8, <4>1, <4>2
      <4> QED
        BY <4>3
    <3> QED
      BY <3>2, <3>3
  <2> QED
    BY <1>9, <2>1, <2>2
<1>13. /\ stale => paused
       /\ steady => Cardinality(Dropped) <= Bit(paused /\ ~stale)
  BY <1>5 DEF PositionsFollow
<1>14. seen \subseteq Axis
  BY DEF ContactsOK
<1>15. steady => Cardinality(Dropped') <= Bit(paused' /\ ~stale')
  <2> SUFFICES ASSUME steady PROVE Cardinality(Dropped') <= Bit(paused' /\ ~stale')
    OBVIOUS
  <2>1. Dropped' \subseteq Dropped \cup {a}
    BY <1>5, <1>7, <1>10, <1>14 DEF Dropped
  <2>2. a \notin Dropped /\ IsFiniteSet(Dropped) /\ Cardinality(Dropped) \in Nat
    <3>1. Dropped \subseteq Axis /\ a \notin Dropped
      BY <1>7, <1>14 DEF Dropped
    <3>2. IsFiniteSet(Axis)
      <4>1. Axis = {"x"} \cup {"y"} /\ IsFiniteSet({"x"})
        BY FS_Singleton
      <4>2. IsFiniteSet({"x"} \cup {"y"})
        BY <4>1, FS_AddElement
      <4> QED
        BY <4>1, <4>2
    <3> QED
      BY <3>1, <3>2, FS_Subset, FS_CardinalityType
  <2>3. CASE stale
    <3>1. Cardinality(Dropped) <= 0 /\ paused /\ paused'
      BY <1>5, <1>13, <2>3 DEF Bit
    <3>2. Dropped = {}
      BY <2>2, <3>1, FS_EmptySet
    <3>3. IsFiniteSet({a}) /\ Cardinality({a}) = 1 /\ Dropped' \in SUBSET {a}
      BY <2>1, <3>2, FS_Singleton
    <3>4. Cardinality(Dropped') <= 1
      <4>1. Cardinality(Dropped') <= Cardinality({a})
        BY <3>3, FS_Subset
      <4> QED
        BY <3>3, <4>1
    <3>5. Bit(paused' /\ ~stale') = 1
      BY <1>3, <3>1 DEF Bit
    <3> QED
      BY <3>4, <3>5
  <2>4. CASE ~stale
    <3>1. a \notin Dropped'
      <4>1. a \in seen => current'[a] = travel[a]
        BY <1>12, <2>4
      <4> QED
        BY <1>5, <4>1 DEF Dropped
    <3>2. Dropped' \in SUBSET Dropped
      BY <2>1, <3>1
    <3>3. Cardinality(Dropped') <= Cardinality(Dropped) /\ Cardinality(Dropped') \in Nat
      BY <2>2, <3>2, FS_Subset, FS_CardinalityType
    <3>4. Bit(paused' /\ ~stale') = Bit(paused /\ ~stale)
      BY <1>3, <1>5, <2>4 DEF Bit
    <3>5. Bit(paused /\ ~stale) \in Int
      BY BitIsInt
    <3> QED
      BY <1>13, <2>2, <3>3, <3>4, <3>5
  <2> QED
    BY <1>9, <2>3, <2>4
<1>16. /\ ~(stale' /\ ~paused')
       /\ order' = <<>> => \A b \in Axis : ~Due(b)' /\ travel'[b] = 0
  BY <1>3, <1>5, <1>7 DEF PositionsFollow
<1>17. ASSUME NEW b \in Axis
       PROVE  /\ Due(b)' => current'[b] = 0
              /\ Due(b)' /\ steady'
                   => last'[b] = abs'[b] - travel'[b] \/ (last'[b] = None /\ b \notin seen')
              /\ ~Due(b)' => last'[b] \in {None, abs'[b]}
              /\ ~Due(b)' /\ order' # <<>> /\ b \in now' => last'[b] = abs'[b]
              /\ ~Due(b)' /\ steady' => current'[b] \in {0, travel'[b]}
  <2>1. CASE b = a
    BY <1>5, <1>7, <1>10, <1>12, <2>1
  <2>2. CASE b # a
    <3>1. (Due(b)' <=> Due(b)) /\ last'[b] = last[b] /\ current'[b] = current[b]
      BY <1>7, <1>10, <2>2
    <3> QED
      BY <1>5, <1>6, <3>1 DEF PositionsFollow
  <2> QED
    BY <2>1, <2>2
<1>18. steady' = steady
  BY <1>5
<1> QED
  BY <1>3, <1>5, <1>6, <1>15, <1>16, <1>17, <1>18 DEF PositionsFollow

LEMMA PositionsOfReport ==
  ASSUME ContactsOK, PositionsFollow, SynReport
  PROVE  PositionsFollow'
<1>1. Takes("syn", {0}) /\ current' = Still /\ UNCHANGED <<last, stale>>
  BY DEF SynReport, Consumes
<1>2. "syn" \notin MtCodes
  BY DEF MtCodes
<1>3. /\ frame' = <<>>
      /\ \A s, c : Pending(s, c) => c = "syn" \/ Rank["syn"] < Rank[c]
  BY <1>1, <1>2, TakenAtPad DEF ContactsOK
<1>4. UNCHANGED <<order, abs, now>>
  BY <1>1, TakesRest
<1>5. \A s, c : ~Pending(s, c)'
  BY <1>3 DEF Pending
<1>6. \A a \in Axis : ~Due(a) /\ ~Due(a)'
  <2>1. \A a \in Axis : AbsCode[a] # "syn" /\ ~(Rank["syn"] < Rank[AbsCode[a]])
    BY CodesOfAxes, RankIs
  <2> QED
    BY <1>3, <1>5, <2>1 DEF Due
<1>7. ASSUME NEW a \in Axis
      PROVE  /\ last'[a] \in {None, abs'[a]}
             /\ order' # <<>> /\ a \in now' => last'[a] = abs'[a]
  BY <1>1, <1>4, <1>6 DEF PositionsFollow
<1> QED
  BY <1>1, <1>3, <1>5, <1>6, <1>7 DEF PositionsFollow

LEMMA PositionsOfPause ==
  ASSUME PositionsFollow, Pause \/ UNCHANGED vars
  PROVE  PositionsFollow'
<1>1. CASE Pause
  <2>1. frame = <<>> /\ UNCHANGED padVars /\ UNCHANGED <<last, current>>
    BY <1>1 DEF Pause
  <2>2. UNCHANGED <<order, abs, frame, travel, steady, seen, now>>
    BY <2>1 DEF padVars
  <2>3. \A s, c : ~Pending(s, c) /\ ~Pending(s, c)'
    BY <2>1, <2>2, NothingPending DEF Pending
  <2>4. \A a \in Axis : ~Due(a) /\ ~Due(a)'
    BY <2>3 DEF Due
  <2>5. ASSUME NEW a \in Axis
        PROVE  /\ last'[a] \in {None, abs'[a]}
               /\ order' # <<>> /\ a \in now' => last'[a] = abs'[a]
    BY <2>1, <2>2, <2>4 DEF PositionsFollow
  <2>6. frame' = <<>> /\ current' = Still
    BY <2>1, <2>2 DEF PositionsFollow
  <2> QED
    BY <2>3, <2>4, <2>5, <2>6 DEF PositionsFollow
<1>2. CASE UNCHANGED vars
  BY <1>2 DEF vars, padVars, PositionsFollow, Dropped, Due, Pending
<1> QED
  BY <1>1, <1>2

-----------------------------------------------------------------------------
(* Rounding *)

\* What the arithmetic needs of the invariant.
RoundingInv ==
  /\ last \in [Axis -> Int \cup {None}]
  /\ current \in [Axis -> Int]
  /\ remainder \in [Axis -> Int]
  /\ debt \in [Axis -> Int]
  /\ NothingLostByRounding

\* The quotient is between what it divides and that less the divisor.
LEMMA Division ==
  ASSUME NEW m \in Int, NEW k \in Nat \ {0}
  PROVE  /\ m \div k \in Int
         /\ k * (m \div k) <= m
         /\ m < k * (m \div k) + k
  BY SMT

\* Rounding is off by half a unit at most.
LEMMA RoundIsNear ==
  ASSUME NEW n \in Int
  PROVE  Round(n) \in Int /\ 2 * (n - Den * Round(n)) \in -Den..Den
<1> DEFINE q == (2 * n + Den) \div (2 * Den)
           r == (Den - 2 * n) \div (2 * Den)
<1>1. 2 * Den \in Nat \ {0} /\ 2 * n + Den \in Int /\ Den - 2 * n \in Int
  OBVIOUS
<1>2. /\ q \in Int
      /\ (2 * Den) * q <= 2 * n + Den
      /\ 2 * n + Den < (2 * Den) * q + 2 * Den
  BY <1>1, Division
<1>3. /\ r \in Int
      /\ (2 * Den) * r <= Den - 2 * n
      /\ Den - 2 * n < (2 * Den) * r + 2 * Den
  BY <1>1, Division
<1> HIDE DEF q, r
<1>4. (2 * Den) * q = 2 * (Den * q) /\ Den * q \in Int
  BY <1>2
<1>5. (2 * Den) * r = 2 * (Den * r) /\ Den * (-r) = -(Den * r) /\ Den * r \in Int
  BY <1>3
<1>6. CASE n >= 0
  <2>1. Round(n) = q
    BY <1>6 DEF Round, q
  <2> QED
    BY <2>1, <1>2, <1>4
<1>7. CASE ~(n >= 0)
  <2>1. Round(n) = -r
    BY <1>7 DEF Round, r
  <2> QED
    BY <2>1, <1>3, <1>5
<1> QED
  BY <1>6, <1>7

\* Two sequences of one element each make one of two.
LEMMA ConcatOfTwo ==
  ASSUME NEW S, NEW x \in S, NEW y \in S
  PROVE  <<x>> \o <<y>> = <<x, y>>
<1> DEFINE s == <<x>>
           t == <<y>>
           u == <<x, y>>
<1>1. /\ s \in Seq(S) /\ Len(s) = 1 /\ s[1] = x
      /\ t \in Seq(S) /\ Len(t) = 1 /\ t[1] = y
      /\ u \in Seq(S) /\ Len(u) = 2 /\ u[1] = x /\ u[2] = y
  OBVIOUS
<1> HIDE DEF s, t, u
<1>2. /\ (s \o t) \in Seq(S) /\ Len(s \o t) = 2
      /\ (s \o t)[1] = s[1] /\ (s \o t)[2] = t[1]
  BY <1>1, ConcatProperties
<1>3. s \o t = u
  BY <1>1, <1>2, SeqEqual
<1> QED
  BY <1>3 DEF s, t, u

\* The sum over one event and over two.
LEMMA PaidOfOne ==
  ASSUME NEW e, NEW natural, NEW a, Moved(e, natural, a) \in Int
  PROVE  Paid(<<e>>, natural, a) = Moved(e, natural, a)
  BY DEF Paid

LEMMA PaidOfTwo ==
  ASSUME NEW e, NEW f, NEW natural, NEW a
  PROVE  Paid(<<e, f>>, natural, a) = Moved(e, natural, a) + Moved(f, natural, a)
  BY DEF Paid

\* The events of a frame move what was to be emitted.
LEMMA PaidForMotion ==
  ASSUME NEW e \in [Axis -> Int], NEW a \in Axis
  PROVE  Paid(MotionEvents(e), FALSE, a) = e[a]
<1> DEFINE m == [type |-> "motion", x |-> e["x"], y |-> e["y"]]
<1>1. Moved(m, FALSE, a) = m[a]
  BY DEF Moved
<1>2. m["x"] = e["x"] /\ m["y"] = e["y"]
  OBVIOUS
<1> HIDE DEF m
<1>3. m[a] = e[a] /\ e[a] \in Int
  BY <1>2
<1>4. CASE e["x"] # 0 \/ e["y"] # 0
  <2>1. MotionEvents(e) = <<m>>
    BY <1>4 DEF MotionEvents, When, m
  <2> QED
    BY <2>1, <1>1, <1>3, PaidOfOne
<1>5. CASE ~(e["x"] # 0 \/ e["y"] # 0)
  <2>1. MotionEvents(e) = <<>>
    BY <1>5 DEF MotionEvents, When
  <2> QED
    BY <2>1, <1>5 DEF Paid
<1> QED
  BY <1>4, <1>5

LEMMA PaidForScroll ==
  ASSUME NEW e \in [Axis -> Int], NEW a \in Axis, NEW natural \in BOOLEAN
  PROVE  Paid(ScrollEvents(natural, e), natural, a) = e[a]
<1> DEFINE Along(b) == [type |-> "scroll", axis |-> b, value |-> Turned(natural, e[b])]
<1>1. \A b \in Axis : Moved(Along(b), natural, a) = IF a = b THEN e[b] ELSE 0
  BY DEF Moved, Turned
<1>2. /\ When(e["y"] # 0, <<Along("y")>>) = IF e["y"] # 0 THEN <<Along("y")>> ELSE <<>>
      /\ When(e["x"] # 0, <<Along("x")>>) = IF e["x"] # 0 THEN <<Along("x")>> ELSE <<>>
  BY DEF When
<1>3. ScrollEvents(natural, e)
        = When(e["y"] # 0, <<Along("y")>>) \o When(e["x"] # 0, <<Along("x")>>)
  BY DEF ScrollEvents
<1> DEFINE S == {Along("x"), Along("y")}
<1> HIDE DEF Along
<1>4. /\ <<Along("y")>> \o <<Along("x")>> = <<Along("y"), Along("x")>>
      /\ <<Along("y")>> \o <<>> = <<Along("y")>>
      /\ <<>> \o <<Along("x")>> = <<Along("x")>>
      /\ <<>> \o <<>> = <<>>
  <2>1. Along("x") \in S /\ Along("y") \in S
    OBVIOUS
  <2>2. <<Along("x")>> \in Seq(S) /\ <<Along("y")>> \in Seq(S) /\ <<>> \in Seq(S)
    OBVIOUS
  <2> QED
    BY <2>1, <2>2, ConcatOfTwo, ConcatEmptySeq
<1>5. CASE e["y"] # 0 /\ e["x"] # 0
  <2>1. ScrollEvents(natural, e) = <<Along("y"), Along("x")>>
    BY <1>2, <1>3, <1>4, <1>5
  <2> QED
    BY <2>1, <1>1, PaidOfTwo
<1>6. CASE e["y"] # 0 /\ e["x"] = 0
  <2>1. ScrollEvents(natural, e) = <<Along("y")>>
    BY <1>2, <1>3, <1>4, <1>6
  <2> QED
    BY <2>1, <1>1, <1>6, PaidOfOne
<1>7. CASE e["y"] = 0 /\ e["x"] # 0
  <2>1. ScrollEvents(natural, e) = <<Along("x")>>
    BY <1>2, <1>3, <1>4, <1>7
  <2> QED
    BY <2>1, <1>1, <1>7, PaidOfOne
<1>8. CASE e["y"] = 0 /\ e["x"] = 0
  <2>1. ScrollEvents(natural, e) = <<>>
    BY <1>2, <1>3, <1>4, <1>8
  <2> QED
    BY <2>1, <1>8 DEF Paid
<1> QED
  BY <1>5, <1>6, <1>7, <1>8

\* What emit() rounds away is the rest that is kept and the debt that is left.
LEMMA RestIsDebt ==
  ASSUME RoundingInv, NEW scale \in Nat, NEW natural \in BOOLEAN,
         RestKept(scale), Owed(scale, natural),
         \A a \in Axis : Paid(out', natural, a) = emit(scale)[a]
  PROVE  /\ remainder' \in [Axis -> Int]
         /\ debt' \in [Axis -> Int]
         /\ NothingLostByRounding'
<1>1. ASSUME NEW a \in Axis
      PROVE  /\ remainder'[a] \in Int
             /\ debt'[a] = remainder'[a]
             /\ 2 * remainder'[a] \in -Den..Den
  <2>1. /\ current[a] \in Int /\ remainder[a] \in Int /\ debt[a] = remainder[a]
        /\ current[a] * scale \in Int
    BY DEF RoundingInv, NothingLostByRounding
  <2> DEFINE t == current[a] * scale + remainder[a]
  <2>2. t \in Int
    BY <2>1
  <2>3. total(scale)[a] = t /\ emit(scale)[a] = Round(t)
    BY DEF total, emit
  <2>4. Round(t) \in Int /\ 2 * (t - Den * Round(t)) \in -Den..Den
    BY <2>2, RoundIsNear
  <2>5. remainder'[a] = t - Den * Round(t)
    BY <2>3 DEF RestKept
  <2>6. debt'[a] = debt[a] + current[a] * scale - Den * Round(t)
    BY <2>3 DEF Owed
  <2>7. Den * Round(t) \in Int
    BY <2>4
  <2>8. debt'[a] = t - Den * Round(t)
    BY <2>1, <2>6, <2>7
  <2> HIDE DEF t
  <2> QED
    BY <2>2, <2>4, <2>5, <2>7, <2>8
<1>2. remainder' \in [Axis -> Int]
  BY <1>1 DEF RestKept
<1>3. debt' \in [Axis -> Int]
  BY <1>1 DEF Owed
<1> QED
  BY <1>1, <1>2, <1>3 DEF NothingLostByRounding

\* Emitting gives an integer for each axis.
LEMMA EmitTypes ==
  ASSUME RoundingInv, NEW scale \in Nat
  PROVE  emit(scale) \in [Axis -> Int]
<1>1. \A a \in Axis : total(scale)[a] \in Int
  BY DEF RoundingInv, total
<1> QED
  BY <1>1, RoundIsNear DEF emit

LEMMA RoundingInit == Init => RoundingInv
  BY DEF Init, RoundingInv, NothingLostByRounding, Still, Unknown

LEMMA Untouched ==
  ASSUME RoundingInv, UNCHANGED <<last, current, remainder, debt>>
  PROVE  RoundingInv'
  BY DEF RoundingInv, NothingLostByRounding

LEMMA TouchKeepsInv ==
  ASSUME RoundingInv, TouchDown \/ TouchUp
  PROVE  RoundingInv'
<1>1. last' \in [Axis -> Int \cup {None}]
  BY DEF TouchDown, TouchUp, LastForgotten, Unknown
<1>2. current' \in [Axis -> Int]
  BY DEF TouchDown, TouchUp, Still, RoundingInv
<1>3. UNCHANGED <<remainder, debt>>
  BY DEF TouchDown, TouchUp
<1> QED
  BY <1>1, <1>2, <1>3 DEF RoundingInv, NothingLostByRounding

LEMMA AbsAxisKeepsInv ==
  ASSUME RoundingInv, AbsAxis
  PROVE  RoundingInv'
<1>1. PICK a \in Axis :
        /\ Upcoming.value \in Coordinates
        /\ current' = [current EXCEPT ![a] = IF Previous(a) = None THEN @
                                             ELSE @ + (Upcoming.value - Previous(a))]
        /\ last' = [last EXCEPT ![a] = Upcoming.value]
  BY DEF AbsAxis, Consumes, Takes
<1>2. Upcoming.value \in Int
  BY <1>1, ContactsAssumption DEF Coordinates
<1>3. Previous(a) = None \/ Previous(a) \in Int
  BY DEF Previous, RoundingInv
<1>4. current' \in [Axis -> Int]
  BY <1>1, <1>2, <1>3 DEF RoundingInv
<1>5. last' \in [Axis -> Int \cup {None}]
  BY <1>1, <1>2 DEF RoundingInv
<1>6. UNCHANGED <<remainder, debt>>
  BY DEF AbsAxis
<1> QED
  BY <1>4, <1>5, <1>6 DEF RoundingInv, NothingLostByRounding

LEMMA ReportKeepsInv ==
  ASSUME RoundingInv, SynReport
  PROVE  RoundingInv'
<1>1. current' \in [Axis -> Int] /\ UNCHANGED last
  BY DEF SynReport, Still
<1>2. CASE UNCHANGED <<remainder, debt>>
  BY <1>1, <1>2 DEF RoundingInv, NothingLostByRounding
<1>3. CASE SynTyped
  BY <1>1, <1>3 DEF SynTyped, RoundingInv, NothingLostByRounding, Still
<1>4. CASE SynMotion
  <2>1. PICK scale \in MotionScales :
          out' = MotionEvents(emit(scale)) /\ RestKept(scale) /\ Owed(scale, FALSE)
    BY <1>4 DEF SynMotion
  <2>2. emit(scale) \in [Axis -> Int] /\ scale \in Nat
    BY EmitTypes
  <2>3. \A a \in Axis : Paid(out', FALSE, a) = emit(scale)[a]
    BY <2>1, <2>2, PaidForMotion
  <2> QED
    BY <1>1, <2>1, <2>2, <2>3, RestIsDebt DEF RoundingInv
<1>5. CASE SynScroll
  <2>1. PICK natural \in BOOLEAN :
          /\ out' = ScrollEvents(natural, emit(ScrollScale))
          /\ RestKept(ScrollScale)
          /\ Owed(ScrollScale, natural)
    BY <1>5 DEF SynScroll
  <2>2. emit(ScrollScale) \in [Axis -> Int]
    BY EmitTypes
  <2>3. \A a \in Axis : Paid(out', natural, a) = emit(ScrollScale)[a]
    BY <2>1, <2>2, PaidForScroll
  <2> QED
    BY <1>1, <2>1, <2>3, RestIsDebt DEF RoundingInv
<1> QED
  BY <1>2, <1>3, <1>4, <1>5 DEF SynReport, SynPinch, SynSwipe, SynStill

LEMMA RoundingKept ==
  ASSUME RoundingInv, [Next]_vars
  PROVE  RoundingInv'
<1>1. CASE PadFrame
  BY <1>1, Untouched DEF PadFrame, trackVars
<1>2. CASE Pause
  BY <1>2, Untouched DEF Pause
<1>3. CASE MtSlot \/ MtTrackingId \/ MtPosition
  BY <1>3, Untouched DEF MtSlot, MtTrackingId, MtPosition, MtUntouched
<1>4. CASE TouchDown \/ TouchUp
  BY <1>4, TouchKeepsInv
<1>5. CASE ToolTap
  BY <1>5, Untouched DEF ToolTap
<1>6. CASE AbsAxis
  BY <1>6, AbsAxisKeepsInv
<1>7. CASE SynReport
  BY <1>7, ReportKeepsInv
<1>8. CASE UNCHANGED vars
  BY <1>8, Untouched DEF vars
<1> QED
  BY <1>1, <1>2, <1>3, <1>4, <1>5, <1>6, <1>7, <1>8 DEF Next, Process

-----------------------------------------------------------------------------
(* The invariant *)

LEMMA InitMotion == Init => MotionInv
<1> SUFFICES ASSUME Init PROVE MotionInv
  OBVIOUS
<1>1. RoundingInv
  BY RoundingInit
<1>2. TypeOK
  <2>1. mt_slots = [s \in Slots |-> [active |-> FALSE, x |-> 0, y |-> 0]]
    BY DEF Init
  <2>2. mt_slots \in [Slots -> [active : BOOLEAN, x : Int, y : Int]]
    BY <2>1
  <2>3. Active = {}
    BY <2>1 DEF Active
  <2>4. 0 \in Slots \cap HwSlots
    BY ContactsAssumption DEF Slots
  <2>5. 0 \in 0..Cardinality(HwSlots)
    BY ContactsAssumption, FS_CardinalityType
  <2> QED
    BY <1>1, <2>2, <2>3, <2>4, <2>5 DEF Init, TypeOK, RoundingInv
<1>3. ContactsOK
  <2>1. frame = <<>> /\ order = <<>>
    BY DEF Init, ContactsInit
  <2>2. FrameOK
    BY <2>1 DEF FrameOK
  <2>3. Cardinality(HwSlots) \in Nat
    BY ContactsAssumption, FS_CardinalityType
  <2>4. order \in Seq(HwSlots) /\ IsInjective(order) /\ Len(order) <= Cardinality(HwSlots)
    BY <2>1, <2>3 DEF IsInjective
  <2>5. Still \in [Axis -> Int]
    BY DEF Still
  <2> QED
    BY <2>1, <2>2, <2>4, <2>5 DEF Init, ContactsInit, ContactsOK
<1>4. PinchFollows
  BY DEF Init, NoPinch, PinchFollows
<1> QED
  BY <1>1, <1>2, <1>3, <1>4, TableInit, PositionsInit DEF MotionInv, RoundingInv

\* The types of what an action does to the table, the touch and the pinch.
LEMMA TypesFrom ==
  ASSUME RoundingInv',
         mt_slots' \in [Slots -> [active : BOOLEAN, x : Int, y : Int]],
         Active' \subseteq HwSlots, current_slot' \in Slots \cap HwSlots,
         touch_fingers' \in 0..Cardinality(HwSlots), stale' \in BOOLEAN,
         pinch_active' \in BOOLEAN, pinch_base_dist' \in Nat,
         strayed' \in Nat, paused' \in BOOLEAN
  PROVE  TypeOK' /\ NothingLostByRounding'
  BY DEF TypeOK, RoundingInv

LEMMA PausedAfter ==
  ASSUME TypeOK, NEW code, NEW V, Consumes(code, V)
  PROVE  paused' \in BOOLEAN /\ paused' = (paused /\ ~FrameEnds) /\ UNCHANGED strayed
         /\ Takes(code, V)
  BY DEF Consumes, TypeOK

LEMMA PadFrameKeeps ==
  ASSUME MotionInv, RoundingInv', PadFrame
  PROVE  MotionInv'
<1>1. TypeOK /\ ContactsOK /\ TableFollows /\ PositionsFollow /\ PinchFollows
  BY DEF MotionInv
<1>2. PICK D \in SUBSET HwSlots : \E to \in Places(D) :
        SendFrame(D, to) /\ strayed' = strayed + Bit(strayed > 0 \/ Strays(D, to))
  BY DEF PadFrame
<1>3. PICK to \in Places(D) :
        SendFrame(D, to) /\ strayed' = strayed + Bit(strayed > 0 \/ Strays(D, to))
  BY <1>2
<1>4. Strays(D, to) \in BOOLEAN
  BY DEF Strays
<1>5. strayed' \in Nat /\ (strayed' = 0 => strayed = 0)
  BY <1>1, <1>3, <1>4, StrayedOfFrame DEF TypeOK
<1>6. PICK changed, after : Sends(D, to, changed, after)
  BY <1>1, <1>3, SendFrameSends
<1>7. ContactsOK'
  BY <1>1, <1>6, PlacesArePlaces, SentContactsOK
<1>8. /\ UNCHANGED <<mt_slots, current_slot, touch_fingers, stale, pinch_active,
                     pinch_base_dist, begun>>
      /\ paused' = stale
  BY DEF PadFrame, trackVars
<1>9. Active' = Active
  BY <1>8 DEF Active
<1>10. TypeOK' /\ NothingLostByRounding'
  BY <1>1, <1>5, <1>8, <1>9, TypesFrom DEF TypeOK
<1>11. PinchFollows'
  BY <1>1, <1>5, <1>8 DEF PinchFollows
<1>12. TableFollows'
  BY <1>1, TableOfPadFrame
<1>13. PositionsFollow'
  BY <1>1, PositionsOfPadFrame
<1> QED
  BY <1>7, <1>10, <1>11, <1>12, <1>13 DEF MotionInv

LEMMA PauseKeeps ==
  ASSUME MotionInv, RoundingInv', Pause \/ UNCHANGED vars
  PROVE  MotionInv'
<1>1. TypeOK /\ ContactsOK /\ TableFollows /\ PositionsFollow /\ PinchFollows
  BY DEF MotionInv
<1>2. /\ UNCHANGED <<mt_slots, current_slot, touch_fingers, pinch_active,
                     pinch_base_dist, begun, strayed, paused>>
      /\ UNCHANGED padVars
      /\ stale' \in BOOLEAN
  BY <1>1 DEF Pause, vars, TypeOK
<1>3. UNCHANGED <<order, at, mt_slot, abs, frame, steady, travel, seen, now>>
  BY <1>2 DEF padVars
<1>4. ContactsOK'
  <2>1. FrameOK' = FrameOK
    BY <1>3 DEF FrameOK, GroupOK, Truths, Down
  <2> QED
    BY <1>1, <1>3, <2>1 DEF ContactsOK
<1>5. TableFollows'
  BY <1>1, <1>2, <1>3 DEF TableFollows, Down, Pending, Upcoming
<1>6. Active' = Active
  BY <1>2 DEF Active
<1>7. TypeOK' /\ NothingLostByRounding'
  BY <1>1, <1>2, <1>6, TypesFrom DEF TypeOK
<1>8. PinchFollows'
  BY <1>1, <1>2 DEF PinchFollows
<1>9. PositionsFollow'
  BY <1>1, PositionsOfPause
<1> QED
  BY <1>4, <1>5, <1>7, <1>8, <1>9 DEF MotionInv

\* Events of the slots.
LEMMA SlotEventKeeps ==
  ASSUME MotionInv, RoundingInv', MtSlot \/ MtTrackingId \/ MtPosition
  PROVE  MotionInv'
<1>1. TypeOK /\ ContactsOK /\ TableFollows /\ PositionsFollow /\ PinchFollows
  BY DEF MotionInv
<1>2. PICK code \in MtCodes : \E V : Consumes(code, V)
  BY DEF MtSlot, MtTrackingId, MtPosition, MtCodes
<1>3. PICK V : Consumes(code, V)
  BY <1>2
<1>4. paused' \in BOOLEAN /\ paused' = (paused /\ ~FrameEnds) /\ UNCHANGED strayed
      /\ Takes(code, V)
  BY <1>1, <1>3, PausedAfter
<1>5. UNCHANGED <<touch_fingers, last, current, stale, pinch_active, pinch_base_dist, begun>>
  BY DEF MtSlot, MtTrackingId, MtPosition, MtUntouched
<1>6. /\ TableFollows' /\ current_slot' \in Slots \cap HwSlots
      /\ mt_slots' \in [Slots -> [active : BOOLEAN, x : Int, y : Int]]
      /\ Active' \subseteq HwSlots
  <2>1. CASE MtSlot
    <3>1. TableFollows' /\ current_slot' \in Slots \cap HwSlots /\ UNCHANGED mt_slots
      BY <1>1, <2>1, TableOfMtSlot
    <3>2. Active' = Active
      BY <3>1 DEF Active
    <3> QED
      BY <1>1, <3>1, <3>2 DEF TypeOK
  <2>2. CASE MtTrackingId
    BY <1>1, <2>2, TableOfTrackingId DEF TypeOK
  <2>3. CASE MtPosition
    BY <1>1, <2>3, TableOfPosition DEF TypeOK
  <2> QED
    BY <2>1, <2>2, <2>3
<1>7. ContactsOK'
  BY <1>1, <1>4, TakenContactsOK
<1>8. PositionsFollow'
  BY <1>1, <1>4, <1>5, PositionsKept DEF TypeOK
<1>9. TypeOK' /\ NothingLostByRounding'
  BY <1>1, <1>4, <1>5, <1>6, TypesFrom DEF TypeOK
<1>10. PinchFollows'
  BY <1>1, <1>4, <1>5 DEF PinchFollows
<1> QED
  BY <1>6, <1>7, <1>8, <1>9, <1>10 DEF MotionInv

\* Events of the pad.
LEMMA PadEventKeepsInv ==
  ASSUME MotionInv, RoundingInv', TouchDown \/ TouchUp \/ ToolTap \/ AbsAxis \/ SynReport
  PROVE  MotionInv'
<1>1. TypeOK /\ ContactsOK /\ TableFollows /\ PositionsFollow /\ PinchFollows
  BY DEF MotionInv
<1>2. PICK code \in DOMAIN Rank \ MtCodes : \E V : Consumes(code, V)
  <2>1. CASE TouchDown \/ TouchUp \/ SynReport
    BY <2>1, RankIs DEF TouchDown, TouchUp, SynReport, MtCodes
  <2>2. CASE AbsAxis
    BY <2>2, RankIs DEF AbsAxis, MtCodes
  <2>3. CASE ToolTap
    <3>1. PICK n \in 2..3 : Consumes(<<"doubletap", "tripletap">>[n - 1], {0, 1})
      BY <2>3 DEF ToolTap
    <3>2. n = 2 \/ n = 3
      OBVIOUS
    <3> QED
      BY <3>1, <3>2, RankIs DEF MtCodes
  <2> QED
    BY <2>1, <2>2, <2>3
<1>3. PICK V : Consumes(code, V)
  BY <1>2
<1>4. paused' \in BOOLEAN /\ UNCHANGED strayed /\ Takes(code, V) /\ code \notin MtCodes
  BY <1>1, <1>3, PausedAfter
<1>5. UNCHANGED <<mt_slots, current_slot>> /\ Active' = Active
  BY DEF TouchDown, TouchUp, ToolTap, AbsAxis, SynReport, Active
<1>6. TableFollows'
  BY <1>1, <1>4, <1>5, TableKept
<1>7. ContactsOK'
  BY <1>1, <1>4, TakenContactsOK
<1>8. PositionsFollow'
  BY <1>1, PositionsOfTouchDown, PositionsOfTouchUp, PositionsOfToolTap, PositionsOfAbsAxis,
     PositionsOfReport DEF TypeOK
<1>9. stale' \in BOOLEAN
  BY <1>1 DEF TouchDown, TouchUp, ToolTap, AbsAxis, SynReport, TypeOK
<1>10. touch_fingers' \in 0..Cardinality(HwSlots)
  <2>1. CASE TouchDown
    BY <1>1, <2>1, TouchDownKeeps
  <2>2. CASE TouchUp
    BY <1>1, <2>2, TouchesAreCounted DEF TouchUp
  <2>3. CASE ToolTap
    <3>1. PICK n \in 2..3 :
            /\ Consumes(<<"doubletap", "tripletap">>[n - 1], {0, 1})
            /\ touch_fingers' = IF Upcoming.value # 0 THEN n ELSE n - 1
      BY <2>3 DEF ToolTap
    <3>2. n = 2 \/ n = 3
      OBVIOUS
    <3>3. Takes(<<"doubletap", "tripletap">>[n - 1], {0, 1})
      BY <3>1 DEF Consumes
    <3>4. Upcoming.code = <<"doubletap", "tripletap">>[n - 1]
      BY <3>3, TakesRest
    <3>5. <<"doubletap", "tripletap">>[n - 1] \notin MtCodes
      BY <3>2 DEF MtCodes
    <3>6. Upcoming \in Truths(Pad)
      BY <1>1, <3>3, <3>5, TakenAtPad DEF ContactsOK
    <3>7. n <= Cardinality(HwSlots)
      BY <3>2, <3>4, <3>6, TruthTold
    <3>8. Cardinality(HwSlots) \in Nat
      BY <1>1, TouchesAreCounted
    <3> QED
      BY <3>1, <3>2, <3>7, <3>8
  <2>4. CASE AbsAxis \/ SynReport
    BY <1>1, <2>4 DEF AbsAxis, SynReport, TypeOK
  <2> QED
    BY <2>1, <2>2, <2>3, <2>4
<1>11. pinch_active' \in BOOLEAN /\ pinch_base_dist' \in Nat /\ PinchFollows'
  <2>1. CASE TouchDown
    BY <1>1, <2>1, TouchDownKeeps
  <2>2. CASE TouchUp
    BY <1>1, <1>4, <2>2 DEF TouchUp, NoPinch, PinchFollows, TypeOK
  <2>3. CASE ToolTap \/ AbsAxis \/ SynReport
    <3>1. UNCHANGED <<pinch_active, pinch_base_dist, begun>>
      BY <2>3 DEF ToolTap, AbsAxis, SynReport
    <3> QED
      BY <1>1, <1>4, <3>1 DEF PinchFollows, TypeOK
  <2> QED
    BY <2>1, <2>2, <2>3
<1>12. TypeOK' /\ NothingLostByRounding'
  BY <1>1, <1>4, <1>5, <1>9, <1>10, <1>11, TypesFrom DEF TypeOK
<1> QED
  BY <1>6, <1>7, <1>8, <1>11, <1>12 DEF MotionInv

LEMMA NextKeepsMotion == MotionInv /\ [Next]_vars => MotionInv'
<1> SUFFICES ASSUME MotionInv, [Next]_vars PROVE MotionInv'
  OBVIOUS
<1>1. RoundingInv
  BY DEF MotionInv, TypeOK, RoundingInv
<1>2. RoundingInv'
  BY <1>1, RoundingKept
<1> QED
  BY <1>2, PadFrameKeeps, PauseKeeps, SlotEventKeeps, PadEventKeepsInv DEF Next, Process

-----------------------------------------------------------------------------
(* The theorems *)

\* The table of slots, the positions, the pinch and the rests of the rounding
\* stay with the pad, whatever frames it sends and however they are processed.
THEOREM MotionInvariant == Spec => []MotionInv
  BY InitMotion, NextKeepsMotion, PTL DEF Spec

\* All but half a unit of the scaled displacement that DWT let through was sent
\* as motion or as scrolling, by SYN_REPORT's rounding.
THEOREM RoundingLosesNothing == Spec => []NothingLostByRounding
<1>1. MotionInv => NothingLostByRounding
  BY DEF MotionInv
<1> QED
  BY <1>1, MotionInvariant, PTL

\* Between frames mt_slots has the contacts that are on the pad, where they are.
THEOREM SlotTableIsThePads == Spec => []SlotTableAgrees
<1>1. MotionInv => SlotTableAgrees
  <2> SUFFICES ASSUME MotionInv, frame = <<>>, strayed = 0, NEW s \in Slots
               PROVE  /\ mt_slots[s].active <=> s \in Down
                      /\ s \in Down => \A a \in Axis : mt_slots[s][a] = at[s][a]
    BY DEF SlotTableAgrees
  <2>1. \A c : ~Pending(s, c)
    BY NothingPending
  <2>2. s \in Down => s \in HwSlots
    BY DownAreSlots DEF MotionInv
  <2> QED
    BY <2>1, <2>2 DEF MotionInv, TableFollows
<1> QED
  BY <1>1, MotionInvariant, PTL

\* The displacement a SYN_REPORT sends is the oldest contact's in this frame, or
\* none; only a pause takes it away, and of one axis at most.
THEOREM FramesMoveTheOldest == Spec => []MovesWithOldest
<1>1. MotionInv => MovesWithOldest
  <2> SUFFICES ASSUME MotionInv, frame # <<>>, Upcoming.code = "syn", steady
               PROVE  /\ \A a \in Axis : current[a] \in {0, travel[a]}
                      /\ Cardinality({a \in seen : current[a] # travel[a]}) <= Bit(paused)
    BY DEF MovesWithOldest
  <2>1. FrameOK /\ PositionsFollow /\ seen \subseteq Axis /\ paused \in BOOLEAN
    BY DEF MotionInv, ContactsOK, TypeOK
  <2>2. frame[1].slot = Pad
    BY <2>1, FirstGroup, TruthTold DEF MtCodes
  <2>3. \A a \in Axis : ~Due(a)
    <3>1. \A c : Pending(Pad, c) => c = "syn" \/ Rank["syn"] < Rank[c]
      BY <2>1, <2>2, AtThePad
    <3> QED
      BY <3>1, RankIs DEF Due, AbsCode
  <2>4. \A a \in Axis : current[a] \in {0, travel[a]}
    BY <2>1, <2>3 DEF PositionsFollow
  <2>5. Cardinality(Dropped) <= Bit(paused /\ ~stale)
    BY <2>1 DEF PositionsFollow
  <2>6. Dropped = {a \in seen : current[a] # travel[a]}
    BY <2>1, <2>3 DEF Dropped
  <2>7. Cardinality({a \in seen : current[a] # travel[a]}) \in Nat
    <3>1. IsFiniteSet(Axis)
      <4>1. IsFiniteSet({"x"})
        BY FS_Singleton
      <4>2. IsFiniteSet({"x"} \cup {"y"})
        BY <4>1, FS_AddElement
      <4>3. {"x"} \cup {"y"} = Axis
        OBVIOUS
      <4> QED
        BY <4>2, <4>3
    <3> QED
      BY <2>1, <3>1, FS_Subset, FS_CardinalityType
  <2>8. Cardinality({a \in seen : current[a] # travel[a]}) <= Bit(paused)
    BY <2>1, <2>5, <2>6, <2>7 DEF Bit
  <2> QED
    BY <2>4, <2>8
<1> QED
  BY <1>1, MotionInvariant, PTL

\* What a report of one finger sends is motion, what one of two sends is scrolling.
LEMMA MotionsOnly ==
  ASSUME NEW e, NEW i \in DOMAIN MotionEvents(e)
  PROVE  MotionEvents(e)[i].type = "motion"
<1> DEFINE m == [type |-> "motion", x |-> e["x"], y |-> e["y"]]
<1>1. m.type = "motion"
  OBVIOUS
<1>2. MotionEvents(e) = IF e["x"] # 0 \/ e["y"] # 0 THEN <<m>> ELSE <<>>
  BY DEF MotionEvents, When
<1> HIDE DEF m
<1> QED
  BY <1>1, <1>2

LEMMA ScrollsOnly ==
  ASSUME NEW natural, NEW e, NEW i \in DOMAIN ScrollEvents(natural, e)
  PROVE  ScrollEvents(natural, e)[i].type = "scroll"
<1> DEFINE Along(b) == [type |-> "scroll", axis |-> b, value |-> Turned(natural, e[b])]
           S == {Along("x"), Along("y")}
           s == When(e["y"] # 0, <<Along("y")>>)
           t == When(e["x"] # 0, <<Along("x")>>)
<1>1. Along("x").type = "scroll" /\ Along("y").type = "scroll"
  OBVIOUS
<1>2. ScrollEvents(natural, e) = s \o t
  BY DEF ScrollEvents
<1>3. /\ s = IF e["y"] # 0 THEN <<Along("y")>> ELSE <<>>
      /\ t = IF e["x"] # 0 THEN <<Along("x")>> ELSE <<>>
  BY DEF When
<1> HIDE DEF Along, s, t
<1>4. s \in Seq(S) /\ t \in Seq(S)
  <2>1. Along("x") \in S /\ Along("y") \in S
    OBVIOUS
  <2> HIDE DEF S
  <2>2. <<>> \in Seq(S) /\ <<Along("x")>> \in Seq(S) /\ <<Along("y")>> \in Seq(S)
    BY <2>1
  <2>3. s \in Seq(S)
    BY <1>3, <2>2
  <2>4. t \in Seq(S)
    BY <1>3, <2>2
  <2> QED
    BY <2>3, <2>4
<1> HIDE DEF S
<1>5. s \o t \in Seq(S)
  BY <1>4, ConcatProperties
<1>6. (s \o t)[i] \in S
  BY <1>2, <1>5, LenProperties, ElementOfSeq
<1> QED
  BY <1>1, <1>2, <1>6 DEF S

\* Only the SYN_REPORT of an active pinch with two contacts sends an UPDATE.
LEMMA UpdatesOfPinches ==
  ASSUME Next, NEW i \in DOMAIN out', out'[i].type = "pinch_update"
  PROVE  SynReport /\ pinch_active /\ out' = <<Scaled("pinch_update")>>
         /\ active_slot_count >= 2
<1>1. out' # <<>>
  OBVIOUS
<1>2. ~PadFrame /\ ~Pause /\ ~MtSlot /\ ~MtTrackingId /\ ~MtPosition /\ ~ToolTap /\ ~AbsAxis
  BY <1>1 DEF PadFrame, Pause, MtSlot, MtTrackingId, MtPosition, ToolTap, AbsAxis
<1>3. ~TouchDown
  BY <1>1 DEF TouchDown, Pinch
<1>4. ~TouchUp
  BY <1>1 DEF TouchUp, When, Scaled, Pinch
<1>5. SynReport
  BY <1>2, <1>3, <1>4 DEF Next, Process
<1>6. ~SynTyped /\ ~SynStill /\ ~SynSwipe
  BY <1>1 DEF SynTyped, SynStill, SynSwipe
<1>7. ~SynMotion
  BY <1>1, MotionsOnly DEF SynMotion
<1>8. ~SynScroll
  BY <1>1, ScrollsOnly DEF SynScroll
<1>9. SynPinch
  BY <1>5, <1>6, <1>7, <1>8 DEF SynReport
<1> QED
  BY <1>1, <1>5, <1>9 DEF SynPinch, When

\* The scale of an UPDATE is the distance of the two contacts the pinch began
\* with over what it was at the BEGIN.
THEOREM PinchesAreMeasured == Spec => PinchIsMeasured
<1> DEFINE Measured ==
      \A i \in DOMAIN out' :
        (out'[i].type = "pinch_update" /\ strayed = 0 /\ LowestTwo = begun.pair)
          => out'[i].dist * begun.dist = out'[i].base * (IF begun.dist > 0
                                                          THEN Distance(begun.pair)
                                                          ELSE 0)
<1>1. MotionInv /\ Next => Measured
  <2> SUFFICES ASSUME MotionInv, Next, NEW i \in DOMAIN out',
                      out'[i].type = "pinch_update", strayed = 0, LowestTwo = begun.pair
               PROVE  out'[i].dist * begun.dist = out'[i].base * (IF begun.dist > 0
                                                                   THEN Distance(begun.pair)
                                                                   ELSE 0)
    OBVIOUS
  <2>1. SynReport /\ pinch_active /\ out' = <<Scaled("pinch_update")>> /\ active_slot_count >= 2
    BY UpdatesOfPinches
  <2>2. TypeOK /\ ContactsOK /\ TableFollows /\ pinch_base_dist \in Nat
        /\ begun.dist = pinch_base_dist
    BY <2>1 DEF MotionInv, TypeOK, PinchFollows
  <2>3. Takes("syn", {0})
    BY <2>1 DEF SynReport, Consumes
  <2>4. frame # <<>> /\ frame[1].slot = Pad
    BY <2>2, <2>3, TakesRest, TakenAtPad DEF ContactsOK, MtCodes
  <2>5. primary_slot_distance = Distance(begun.pair)
    BY <2>2, <2>4, TableHasContacts
  <2>6. primary_slot_distance \in Nat
    BY <2>1, <2>2, TouchesAreCounted, DistanceIsNat
  <2>7. out'[i] = Scaled("pinch_update")
    BY <2>1
  <2>8. CASE pinch_base_dist > 0
    <3>1. out'[i].dist = primary_slot_distance /\ out'[i].base = pinch_base_dist
      BY <2>1, <2>7, <2>8 DEF Scaled, Pinch
    <3> QED
      BY <2>2, <2>5, <2>6, <2>8, <3>1
  <2>9. CASE ~(pinch_base_dist > 0)
    <3>1. out'[i].dist = 1 /\ out'[i].base = 1
      BY <2>1, <2>7, <2>9 DEF Scaled, Pinch
    <3> QED
      BY <2>2, <2>9, <3>1
  <2> QED
    BY <2>8, <2>9
<1>2. MotionInv /\ [Next]_vars => [Measured]_vars
  BY <1>1
<1>3. PinchIsMeasured <=> [][Measured]_vars
  BY DEF PinchIsMeasured
<1> QED
  BY <1>2, <1>3, MotionInvariant, PTL DEF Spec
=============================================================================
