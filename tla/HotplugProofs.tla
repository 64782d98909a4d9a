---------------------------- MODULE HotplugProofs ----------------------------
(***************************************************************************)
(* Proofs, for every set of nodes and all bounds, that the registry keeps  *)
(* HotplugInv and implements DeviceStream.                                 *)
(***************************************************************************)
EXTENDS Hotplug, FiniteSetTheorems, TLAPS

\* The order of a scan is a sequence of nodes.
LEMMA ScanIsSequence ==
  ASSUME NEW S \in SUBSET Node, NEW s \in SetToSeqs(S)
  PROVE  s \in Seq(Node)
<1>1. IsFiniteSet(S)
  BY HotplugAssumption, FS_Subset
<1>2. Cardinality(S) \in Nat
  BY <1>1, FS_CardinalityType
<1>3. s \in [1..Cardinality(S) -> S]
  BY DEF SetToSeqs
<1> QED
  BY <1>2, <1>3

\* The bounds alone.
LEMMA Bounds ==
  /\ MaxIncarnation \in Nat \ {0}
  /\ MaxFd \in Nat \ {0}
  /\ MaxDev \in Nat \ {0}
BY HotplugAssumption

\* What a tracked fd holds; None is no device.
LEMMA OpenType ==
  ASSUME tracked \in [Fd -> TrackedDevice \cup {None}], NEW fd \in Open
  PROVE  /\ fd \in Fd
         /\ tracked[fd] \in TrackedDevice
         /\ tracked[fd].node \in Node
         /\ tracked[fd].inc \in 1..MaxIncarnation
         /\ tracked[fd].dev \in Dev
BY DEF Open, TrackedDevice

LEMMA InvInit == Init => HotplugInv
<1> SUFFICES ASSUME Init PROVE HotplugInv
  OBVIOUS
<1> USE Bounds
<1>1. Open = {}
  BY DEF Init, Open
<1>2. TypeOK
  <2>1. present \in [Node -> 0..MaxIncarnation] /\ last = present
    BY DEF Init
  <2>2. /\ inotify \in Seq(Node) /\ names \in Seq(Node)
        /\ new_paths \in Seq(Node)
    BY DEF Init
  <2>3. tracked \in [Fd -> TrackedDevice \cup {None}]
    BY DEF Init
  <2>4. told \in [Dev -> {"new", "added", "removed"}]
    BY DEF Init, Stream!Init
  <2>5. accessible \subseteq Node /\ made \in 0..MaxDev /\ seated \in BOOLEAN
    <3>1. accessible = {n \in Node : present[n] = 1} /\ made = 0
      BY DEF Init
    <3>2. seated \in BOOLEAN
      BY Zenon DEF Init
    <3>3. accessible \subseteq Node
      BY <3>1, Zenon
    <3>4. made \in 0..MaxDev
      BY <3>1
    <3> QED
      BY <3>2, <3>3, <3>4
  <2>6. /\ phase \in {"idle", "scan", "names", "open", "fetch"}
        /\ fds \subseteq Open /\ dead_fds \subseteq Open
    BY DEF Init
  <2> QED
    BY <2>1, <2>2, <2>3, <2>4, <2>5, <2>6 DEF TypeOK
<1>3. AnnouncedIsTracked
  BY <1>1 DEF Init, AnnouncedIsTracked, Stream!Init, Dev
<1>4. ListsOfTheCall /\ DeadStayDead
  BY <1>1 DEF Init, ListsOfTheCall, DeadStayDead
<1> QED
  BY <1>2, <1>3, <1>4 DEF HotplugInv
-----------------------------------------------------------------------------
(* Each action preserves HotplugInv. *)

\* The map, the objects and the client's view stay as they are.
Untouched == UNCHANGED <<tracked, made, told>>

\* Hardware that changes leaves the dead dead: a new device gets a new number.
LEMMA HardwareStep ==
  ASSUME HotplugInv, Hardware
  PROVE  HotplugInv'
<1> USE Bounds
<1> PICK n \in Node : Plug(n) \/ Chmod(n) \/ Unplug(n)
  BY DEF Hardware
<1>1. UNCHANGED <<tracked, made, seated, phase, names, new_paths, fds,
                  dead_fds, told>>
  BY DEF Hardware, Plug, Chmod, Unplug, drainVars, Stream!Silent
<1>2. Open' = Open
  BY <1>1 DEF Open
<1>3. TypeOK'
  <2>1. present' \in [Node -> 0..MaxIncarnation]
        /\ last' \in [Node -> 0..MaxIncarnation]
    <3>1. CASE Plug(n)
      <4>1. last' \in [Node -> 0..MaxIncarnation]
        BY <3>1 DEF HotplugInv, TypeOK, Plug
      <4>2. present' = [present EXCEPT ![n] = last'[n]]
        BY <3>1 DEF Plug
      <4> QED
        BY <4>1, <4>2 DEF HotplugInv, TypeOK
    <3>2. CASE Chmod(n) \/ Unplug(n)
      <4>1. /\ present \in [Node -> 0..MaxIncarnation]
            /\ last \in [Node -> 0..MaxIncarnation]
        BY DEF HotplugInv, TypeOK
      <4>2. CASE Chmod(n)
        BY <4>1, <4>2 DEF Chmod
      <4>3. CASE Unplug(n)
        BY <4>1, <4>3 DEF Unplug
      <4> QED
        BY <3>2, <4>2, <4>3
    <3> QED
      BY <3>1, <3>2
  <2>2. accessible' \subseteq Node /\ inotify' \in Seq(Node)
    <3>1. inotify \in Seq(Node) /\ accessible \subseteq Node
      BY DEF HotplugInv, TypeOK
    <3>2. inotify' \in {inotify, Append(inotify, n)}
      BY DEF Plug, Chmod, Unplug
    <3>3. accessible' \subseteq accessible \cup {n}
      BY DEF Plug, Chmod, Unplug
    <3> QED
      BY <3>1, <3>2, <3>3
  <2> QED
    BY <2>1, <2>2, <1>1, <1>2 DEF HotplugInv, TypeOK
<1>4. AnnouncedIsTracked' /\ ListsOfTheCall'
  BY <1>1, <1>2 DEF HotplugInv, AnnouncedIsTracked, ListsOfTheCall
<1>5. DeadStayDead'
  <2>1. /\ \A m \in Node : present'[m] \in {0, last'[m]}
        /\ \A m \in Node : last[m] <= last'[m]
        /\ \A m \in Node : present'[m] \in {0, present[m], last[m] + 1}
    <3>0. /\ present \in [Node -> 0..MaxIncarnation]
          /\ last \in [Node -> 0..MaxIncarnation]
          /\ \A m \in Node : present[m] \in {0, last[m]}
      BY DEF HotplugInv, TypeOK, DeadStayDead
    <3>1. CASE Plug(n)
      <4>1. /\ last' = [last EXCEPT ![n] = @ + 1]
            /\ present' = [present EXCEPT ![n] = last'[n]]
        BY <3>1 DEF Plug
      <4>2. last'[n] = last[n] + 1 /\ present'[n] = last[n] + 1
        BY <3>0, <4>1
      <4>3. \A m \in Node \ {n} : last'[m] = last[m] /\ present'[m] = present[m]
        BY <3>0, <4>1
      <4> QED
        BY <3>0, <4>2, <4>3
    <3>2. CASE Chmod(n)
      BY <3>0, <3>2 DEF Chmod
    <3>3. CASE Unplug(n)
      BY <3>0, <3>3 DEF Unplug
    <3> QED
      BY <3>1, <3>2, <3>3
  <2>2. ASSUME NEW fd \in Open
        PROVE  tracked[fd].inc <= last'[tracked[fd].node]
    <3>1. tracked[fd].inc \in 1..MaxIncarnation /\ tracked[fd].node \in Node
      BY OpenType DEF HotplugInv, TypeOK
    <3>2. tracked[fd].inc <= last[tracked[fd].node]
      BY DEF HotplugInv, DeadStayDead
    <3>3. /\ last[tracked[fd].node] \in Nat
          /\ last'[tracked[fd].node] \in Nat
      BY <3>1, <1>3 DEF HotplugInv, TypeOK
    <3> QED
      BY <2>1, <3>1, <3>2, <3>3
  <2>3. ASSUME NEW fd \in dead_fds PROVE ~ Alive(tracked[fd])'
    <3>0. fd \in Open
      BY DEF HotplugInv, TypeOK
    <3>1. tracked[fd].inc \in 1..MaxIncarnation /\ tracked[fd].node \in Node
      BY <3>0, OpenType DEF HotplugInv, TypeOK
    <3>2. tracked[fd].inc <= last[tracked[fd].node]
      BY <3>0 DEF HotplugInv, DeadStayDead
    <3>3. last[tracked[fd].node] \in Nat
      BY <3>1 DEF HotplugInv, TypeOK
    <3>4. present[tracked[fd].node] # tracked[fd].inc
      BY DEF HotplugInv, DeadStayDead, Alive
    <3>5. present'[tracked[fd].node] # tracked[fd].inc
      BY <2>1, <3>1, <3>2, <3>3, <3>4
    <3> QED
      BY <3>5, <1>1 DEF Alive
  <2> QED
    BY <2>1, <2>2, <2>3, <1>1, <1>2 DEF DeadStayDead
<1> QED
  BY <1>3, <1>4, <1>5 DEF HotplugInv

\* Steps that only move the lists of the call.
LEMMA BookkeepingStep ==
  ASSUME HotplugInv,
         AssignSeat \/ Dispatch \/ FilterName \/ StartOpening \/ EndScan
           \/ StartReading \/ EndDrain
  PROVE  HotplugInv'
<1> USE Bounds
<1>1. Untouched /\ UNCHANGED <<present, last, accessible>>
  BY DEF Untouched, AssignSeat, Dispatch, FilterName, StartOpening, EndScan,
         StartReading, EndDrain, kernelVars, Stream!Silent
<1>2. Open' = Open
  BY <1>1 DEF Open, Untouched
<1>3. AnnouncedIsTracked'
  BY <1>1, <1>2 DEF HotplugInv, AnnouncedIsTracked, Untouched
<1>4. dead_fds' = dead_fds
  BY DEF AssignSeat, Dispatch, FilterName, StartOpening, EndScan,
         StartReading, EndDrain
<1>5. DeadStayDead'
  BY <1>1, <1>2, <1>4 DEF HotplugInv, DeadStayDead, Alive, Untouched
<1>6. ListsOfTheCall'
  <2>1. CASE AssignSeat
    BY <2>1 DEF HotplugInv, ListsOfTheCall, AssignSeat
  <2>2. CASE Dispatch
    BY <2>2 DEF HotplugInv, ListsOfTheCall, Dispatch
  <2>3. CASE FilterName
    BY <2>3 DEF HotplugInv, ListsOfTheCall, FilterName
  <2>4. CASE StartOpening
    BY <2>4 DEF HotplugInv, ListsOfTheCall, StartOpening
  <2>5. CASE EndScan
    BY <2>5 DEF HotplugInv, ListsOfTheCall, EndScan
  <2>6. CASE StartReading
    BY <2>6 DEF HotplugInv, ListsOfTheCall, StartReading
  <2>7. CASE EndDrain
    BY <2>7 DEF HotplugInv, ListsOfTheCall, EndDrain
  <2> QED
    BY <2>1, <2>2, <2>3, <2>4, <2>5, <2>6, <2>7
<1>7. TypeOK'
  <2>0. /\ inotify \in Seq(Node) /\ names \in Seq(Node)
        /\ new_paths \in Seq(Node)
    BY DEF HotplugInv, TypeOK
  <2>1. inotify' \in Seq(Node)
    <3>1. CASE Dispatch
      BY <3>1 DEF Dispatch
    <3>2. CASE inotify' = inotify
      BY <2>0, <3>2
    <3> QED
      BY <3>1, <3>2 DEF AssignSeat, FilterName, StartOpening, EndScan,
                        StartReading, EndDrain, kernelVars
  <2>2. names' \in Seq(Node)
    <3>1. CASE Dispatch
      BY <2>0, <3>1 DEF Dispatch
    <3>2. CASE FilterName
      BY <2>0, <3>2 DEF FilterName
    <3>3. CASE names' = names
      BY <2>0, <3>3
    <3> QED
      BY <3>1, <3>2, <3>3 DEF AssignSeat, StartOpening, EndScan, StartReading,
                              EndDrain
  <2>3. new_paths' \in Seq(Node)
    <3>1. CASE AssignSeat
      BY <3>1, ScanIsSequence DEF AssignSeat
    <3>2. CASE FilterName
      <4>1. Head(names) \in Node
        BY <3>2 DEF HotplugInv, TypeOK, FilterName
      <4> QED
        BY <3>2, <4>1 DEF HotplugInv, TypeOK, FilterName
    <3>3. CASE Dispatch \/ StartOpening \/ EndScan \/ StartReading \/ EndDrain
      BY <3>3 DEF HotplugInv, TypeOK, Dispatch, StartOpening, EndScan,
                  StartReading, EndDrain
    <3> QED
      BY <3>1, <3>2, <3>3
  <2>4. fds' \subseteq Open
    BY DEF HotplugInv, TypeOK, AssignSeat, Dispatch, FilterName, StartOpening,
           EndScan, StartReading, EndDrain
  <2>5. phase' \in {"idle", "scan", "names", "open", "fetch"}
    BY DEF HotplugInv, TypeOK, AssignSeat, Dispatch, FilterName, StartOpening,
           EndScan, StartReading, EndDrain
  <2>6. seated' \in BOOLEAN
    BY DEF HotplugInv, TypeOK, AssignSeat, Dispatch, FilterName, StartOpening,
           EndScan, StartReading, EndDrain
  <2> QED
    BY <2>1, <2>2, <2>3, <2>4, <2>5, <2>6, <1>1, <1>2, <1>4
       DEF HotplugInv, TypeOK, Untouched
<1> QED
  BY <1>3, <1>5, <1>6, <1>7 DEF HotplugInv

\* The next node of a scan or a drain: opened with a fresh object, or not.
LEMMA TryOpenStep ==
  ASSUME HotplugInv, TryOpen
  PROVE  HotplugInv'
<1> USE Bounds
<1> DEFINE n == Head(new_paths)
<1>1. new_paths # <<>> /\ new_paths' = Tail(new_paths) /\ n \in Node
  BY DEF TryOpen, HotplugInv, TypeOK
<1>2. /\ UNCHANGED <<present, last, accessible, inotify>>
      /\ UNCHANGED <<seated, phase, names, fds, dead_fds>>
  BY DEF TryOpen, kernelVars
<1>3. fds = {} /\ dead_fds = {}
  BY <1>1 DEF TryOpen, HotplugInv, ListsOfTheCall
<1>4. ListsOfTheCall'
  BY <1>1, <1>2 DEF TryOpen, HotplugInv, ListsOfTheCall
<1>5. new_paths' \in Seq(Node)
  BY <1>1 DEF HotplugInv, TypeOK
<1>6. CASE TryOpenFails(n)
  <2>1. Untouched
    BY <1>6 DEF TryOpenFails, Untouched, Stream!Silent
  <2>2. Open' = Open
    BY <2>1 DEF Open, Untouched
  <2>3. TypeOK'
    BY <1>2, <1>5, <2>1, <2>2 DEF HotplugInv, TypeOK, Untouched
  <2>4. AnnouncedIsTracked'
    BY <2>1, <2>2 DEF HotplugInv, AnnouncedIsTracked, Untouched
  <2>5. DeadStayDead'
    BY <1>2, <2>1, <2>2 DEF HotplugInv, DeadStayDead, Alive, Untouched
  <2> QED
    BY <1>4, <2>3, <2>4, <2>5 DEF HotplugInv
<1>7. CASE TryOpenSucceeds(n)
  <2> HIDE DEF n
  <2> DEFINE td == [node |-> n, inc |-> present[n], dev |-> NewObject]
  <2>1. PICK fd \in Fd : LowestFree(fd) /\ tracked' = [tracked EXCEPT ![fd] = td]
    BY <1>7 DEF TryOpenSucceeds
  <2>2. fd \notin Open
    BY <2>1 DEF LowestFree
  <2>3. /\ NewObject \in Dev /\ present[n] # 0
        /\ made' = NewObject
        /\ told' = [told EXCEPT ![NewObject] = "added"]
    BY <1>7 DEF TryOpenSucceeds
  <2>4. present[n] \in 1..MaxIncarnation /\ present[n] = last[n]
    BY <1>1, <2>3 DEF HotplugInv, TypeOK, DeadStayDead
  <2>5. td \in TrackedDevice /\ td # None
    BY <1>1, <2>3, <2>4, HotplugAssumption DEF TrackedDevice, Dev
  <2>6. /\ td.node = n /\ td.inc = present[n] /\ td.dev = NewObject
    OBVIOUS
  <2> HIDE DEF td
  <2>7. tracked \in [Fd -> TrackedDevice \cup {None}]
    BY DEF HotplugInv, TypeOK
  <2>8. /\ tracked'[fd] = td
        /\ \A f \in Fd \ {fd} : tracked'[f] = tracked[f]
        /\ tracked' \in [Fd -> TrackedDevice \cup {None}]
    BY <2>1, <2>5, <2>7
  <2>9. Open' = Open \cup {fd}
    BY <2>5, <2>8 DEF Open
  <2>10. \A f \in Open : f # fd /\ tracked'[f] = tracked[f]
    BY <2>2, <2>8 DEF Open
  <2>11. made \in 0..MaxDev /\ NewObject = made + 1
    BY DEF HotplugInv, TypeOK, NewObject
  <2>12. TypeOK'
    <3>1. told' \in [Dev -> {"new", "added", "removed"}]
      BY <2>3 DEF HotplugInv, TypeOK
    <3>2. made' \in 0..MaxDev
      BY <2>3 DEF Dev
    <3>3. fds' \subseteq Open' /\ dead_fds' \subseteq Open'
      BY <1>2, <1>3
    <3> QED
      BY <1>2, <1>5, <2>8, <3>1, <3>2, <3>3 DEF HotplugInv, TypeOK
  <2>13. AnnouncedIsTracked'
    <3>1. \A f \in Open : told[tracked[f].dev] = "added"
      BY DEF HotplugInv, AnnouncedIsTracked
    <3>2. \A d \in Dev : told[d] = "new" <=> d > made
      BY DEF HotplugInv, AnnouncedIsTracked
    <3>3. \A f \in Open : tracked[f].dev \in Dev /\ tracked[f].dev # NewObject
      BY <2>3, <2>7, <2>11, <3>1, <3>2, OpenType DEF Dev
    <3>4. \A d \in Dev : told'[d] = IF d = NewObject THEN "added" ELSE told[d]
      BY <2>3 DEF HotplugInv, TypeOK
    <3>5. \A f \in Open' : told'[tracked'[f].dev] = "added"
      BY <2>3, <2>6, <2>8, <2>9, <2>10, <3>1, <3>3, <3>4
    <3>6. \A f, g \in Open' : tracked'[f].dev = tracked'[g].dev => f = g
      BY <2>6, <2>8, <2>9, <2>10, <3>3 DEF HotplugInv, AnnouncedIsTracked
    <3>7. \A d \in Dev : told'[d] = "added"
            => \E f \in Open' : tracked'[f].dev = d
      BY <2>6, <2>8, <2>9, <2>10, <3>4 DEF HotplugInv, AnnouncedIsTracked
    <3>8. \A d \in Dev : told'[d] = "new" <=> d > made'
      BY <2>3, <2>11, <3>2, <3>4 DEF Dev
    <3> QED
      BY <3>5, <3>6, <3>7, <3>8 DEF AnnouncedIsTracked
  <2>14. DeadStayDead'
    <3>1. \A f \in Open' : tracked'[f].inc <= last[tracked'[f].node]
      <4>1. last[n] \in Nat
        BY <1>1 DEF HotplugInv, TypeOK
      <4> QED
        BY <2>4, <2>6, <2>8, <2>9, <2>10, <4>1 DEF HotplugInv, DeadStayDead
    <3> QED
      BY <1>2, <1>3, <3>1 DEF HotplugInv, DeadStayDead
  <2> QED
    BY <1>4, <2>12, <2>13, <2>14 DEF HotplugInv
<1> QED
  BY <1>6, <1>7 DEF TryOpen

\* One device is read: nothing changes but the lists.
LEMMA FetchStep ==
  ASSUME HotplugInv, NEW fd \in Fd, Fetch(fd)
  PROVE  HotplugInv'
<1>1. /\ UNCHANGED <<present, last, accessible, inotify>>
      /\ UNCHANGED <<tracked, made, seated, phase, names, new_paths, told>>
  BY DEF Fetch, kernelVars, Stream!Silent
<1>2. Open' = Open
  BY <1>1 DEF Open
<1>3. /\ fd \in fds /\ phase = "fetch"
      /\ fds' = fds \ {fd}
      /\ dead_fds' = dead_fds \/ (/\ dead_fds' = dead_fds \cup {fd}
                                  /\ ~ Alive(tracked[fd]))
  BY DEF Fetch
<1>4. TypeOK'
  BY <1>1, <1>2, <1>3 DEF HotplugInv, TypeOK
<1>5. AnnouncedIsTracked'
  BY <1>1, <1>2 DEF HotplugInv, AnnouncedIsTracked
<1>6. ListsOfTheCall'
  BY <1>1, <1>3 DEF HotplugInv, ListsOfTheCall
<1>7. DeadStayDead'
  BY <1>1, <1>2, <1>3 DEF HotplugInv, DeadStayDead, Alive
<1> QED
  BY <1>4, <1>5, <1>6, <1>7 DEF HotplugInv

\* A dead device leaves the map, the list and the client together.
LEMMA RemoveDeadStep ==
  ASSUME HotplugInv, NEW fd \in Fd, RemoveDead(fd)
  PROVE  HotplugInv'
<1>1. /\ UNCHANGED <<present, last, accessible, inotify>>
      /\ UNCHANGED <<made, seated, phase, names, new_paths, fds>>
  BY DEF RemoveDead, kernelVars
<1>2. /\ fds = {} /\ fd \in dead_fds /\ phase = "fetch"
      /\ dead_fds' = dead_fds \ {fd}
      /\ tracked' = [tracked EXCEPT ![fd] = None]
      /\ told' = [told EXCEPT ![tracked[fd].dev] = "removed"]
  BY DEF RemoveDead
<1>3. fd \in Open /\ dead_fds \subseteq Open
  BY <1>2 DEF HotplugInv, TypeOK
<1>4. tracked \in [Fd -> TrackedDevice \cup {None}]
  BY DEF HotplugInv, TypeOK
<1>5. /\ Open' = Open \ {fd}
      /\ \A f \in Open' : tracked'[f] = tracked[f]
      /\ tracked' \in [Fd -> TrackedDevice \cup {None}]
  BY <1>2, <1>4 DEF Open
<1>6. \A f \in Open : tracked[f].dev \in Dev
  BY <1>4, OpenType
<1>7. \A d \in Dev :
        told'[d] = IF d = tracked[fd].dev THEN "removed" ELSE told[d]
  BY <1>2 DEF HotplugInv, TypeOK
<1>8. TypeOK'
  <2>1. told' \in [Dev -> {"new", "added", "removed"}]
    BY <1>2 DEF HotplugInv, TypeOK
  <2>2. fds' \subseteq Open' /\ dead_fds' \subseteq Open'
    BY <1>1, <1>2, <1>3, <1>5
  <2> QED
    BY <1>1, <1>5, <2>1, <2>2 DEF HotplugInv, TypeOK
<1>9. AnnouncedIsTracked'
  <2>1. \A f \in Open' : told'[tracked'[f].dev] = "added"
    BY <1>3, <1>5, <1>6, <1>7 DEF HotplugInv, AnnouncedIsTracked
  <2>2. \A f, g \in Open' : tracked'[f].dev = tracked'[g].dev => f = g
    BY <1>5 DEF HotplugInv, AnnouncedIsTracked
  <2>3. \A d \in Dev : told'[d] = "added"
          => \E f \in Open' : tracked'[f].dev = d
    BY <1>5, <1>7 DEF HotplugInv, AnnouncedIsTracked
  <2>4. \A d \in Dev : told'[d] = "new" <=> d > made'
    BY <1>1, <1>3, <1>6, <1>7 DEF HotplugInv, AnnouncedIsTracked
  <2> QED
    BY <2>1, <2>2, <2>3, <2>4 DEF AnnouncedIsTracked
<1>10. ListsOfTheCall'
  BY <1>1, <1>2 DEF HotplugInv, ListsOfTheCall
<1>11. DeadStayDead'
  <2>1. \A f \in dead_fds' : present[tracked[f].node] # tracked[f].inc
    BY <1>2 DEF HotplugInv, DeadStayDead, Alive
  <2>2. \A f \in dead_fds' : f \in Open'
    BY <1>2, <1>3, <1>5
  <2>3. \A f \in dead_fds' : present'[tracked'[f].node] # tracked'[f].inc
    BY <1>1, <1>5, <2>1, <2>2
  <2>4. \A f \in Open' : tracked'[f].inc <= last'[tracked'[f].node]
    BY <1>1, <1>5 DEF HotplugInv, DeadStayDead
  <2>5. \A n \in Node : present'[n] \in {0, last'[n]}
    BY <1>1 DEF HotplugInv, DeadStayDead
  <2> QED
    BY <2>3, <2>4, <2>5 DEF DeadStayDead, Alive
<1> QED
  BY <1>8, <1>9, <1>10, <1>11 DEF HotplugInv

LEMMA InvStep == HotplugInv /\ [Next]_vars => HotplugInv'
<1> SUFFICES ASSUME HotplugInv, [Next]_vars PROVE HotplugInv'
  OBVIOUS
<1>1. CASE Hardware
  BY <1>1, HardwareStep
<1>2. CASE AssignSeat \/ Dispatch \/ FilterName \/ StartOpening \/ EndScan
             \/ StartReading \/ EndDrain
  BY <1>2, BookkeepingStep
<1>3. CASE TryOpen
  BY <1>3, TryOpenStep
<1>4. CASE \E fd \in Fd : Fetch(fd)
  BY <1>4, FetchStep
<1>5. CASE \E fd \in Fd : RemoveDead(fd)
  BY <1>5, RemoveDeadStep
<1>6. CASE UNCHANGED vars
  <2>1. Open' = Open
    BY <1>6 DEF vars, Open
  <2> QED
    BY <1>6, <2>1 DEF vars, HotplugInv, TypeOK, AnnouncedIsTracked,
                      ListsOfTheCall, DeadStayDead, Alive
<1> QED
  BY <1>1, <1>2, <1>3, <1>4, <1>5, <1>6 DEF Next, ApiStep

\* The registry's invariant: the map and the client agree, the lists live as
\* long as their call, and the dead stay dead.
THEOREM RegistryInvariant == Spec => []HotplugInv
BY InvInit, InvStep, PTL DEF Spec

\* The announced objects are those of the open fds, one to an fd.
THEOREM RegistryAgreesWithClient == Spec => []AnnouncedIsTracked
<1>1. HotplugInv => AnnouncedIsTracked
  BY DEF HotplugInv
<1> QED
  BY <1>1, RegistryInvariant, PTL

\* Types of the registry and of the lists of a call.
THEOREM RegistryTypes == Spec => []TypeOK
<1>1. HotplugInv => TypeOK
  BY DEF HotplugInv
<1> QED
  BY <1>1, RegistryInvariant, PTL
-----------------------------------------------------------------------------
(* The registry implements DeviceStream. *)

LEMMA StreamStep ==
  ASSUME HotplugInv, [Next]_vars
  PROVE  [Stream!Next]_Stream!streamVars
<1>1. CASE UNCHANGED vars
  BY <1>1 DEF vars, Stream!streamVars
<1>2. CASE Hardware \/ AssignSeat \/ Dispatch \/ FilterName \/ StartOpening
             \/ EndScan \/ StartReading \/ EndDrain
  <2>1. Stream!Silent
    BY <1>2 DEF Hardware, AssignSeat, Dispatch, FilterName, StartOpening,
                EndScan, StartReading, EndDrain
  <2> QED
    BY <2>1 DEF Stream!Next
<1>3. CASE TryOpen
  <2>1. CASE TryOpenFails(Head(new_paths))
    BY <2>1 DEF TryOpenFails, Stream!Next
  <2>2. CASE TryOpenSucceeds(Head(new_paths))
    <3>1. /\ NewObject \in Dev
          /\ told' = [told EXCEPT ![NewObject] = "added"]
          /\ event' = Stream!Queued("added", NewObject)
      BY <2>2 DEF TryOpenSucceeds
    <3>2. made \in Nat /\ NewObject = made + 1
      BY Bounds DEF HotplugInv, TypeOK, NewObject
    <3>3. \A d \in Dev : d \in Nat /\ (told[d] = "new" <=> d > made)
      BY Bounds DEF HotplugInv, AnnouncedIsTracked, Dev
    <3>4. told[NewObject] = "new"
      BY <3>1, <3>2, <3>3
    <3>5. \A e \in Dev : e < NewObject => told[e] # "new"
      BY <3>2, <3>3
    <3>6. Stream!Add(NewObject)
      BY <3>1, <3>4, <3>5 DEF Stream!Add
    <3> QED
      BY <3>1, <3>6 DEF Stream!Next
  <2> QED
    BY <1>3, <2>1, <2>2 DEF TryOpen
<1>4. ASSUME NEW fd \in Fd, Fetch(fd) PROVE Stream!Next
  <2>1. fd \in Open
    BY <1>4 DEF Fetch, HotplugInv, TypeOK
  <2>2. tracked[fd].dev \in Dev /\ told[tracked[fd].dev] = "added"
    BY <2>1, OpenType DEF HotplugInv, TypeOK, AnnouncedIsTracked
  <2>3. CASE event' = Stream!Queued("input", tracked[fd].dev) /\ told' = told
    <3>1. Stream!Input(tracked[fd].dev)
      BY <2>2, <2>3 DEF Stream!Input
    <3> QED
      BY <2>2, <3>1 DEF Stream!Next
  <2>4. CASE event' = Stream!Quiet /\ told' = told
    BY <2>4 DEF Stream!Silent, Stream!Next
  <2> QED
    BY <1>4, <2>3, <2>4 DEF Fetch, Stream!Silent
<1>5. ASSUME NEW fd \in Fd, RemoveDead(fd) PROVE Stream!Next
  <2>1. fd \in Open
    BY <1>5 DEF RemoveDead, HotplugInv, TypeOK
  <2>2. tracked[fd].dev \in Dev /\ told[tracked[fd].dev] = "added"
    BY <2>1, OpenType DEF HotplugInv, TypeOK, AnnouncedIsTracked
  <2>3. Stream!Remove(tracked[fd].dev)
    BY <1>5, <2>2 DEF RemoveDead, Stream!Remove
  <2> QED
    BY <2>2, <2>3 DEF Stream!Next
<1> QED
  BY <1>1, <1>2, <1>3, <1>4, <1>5 DEF Next, ApiStep

\* Every device object is announced once, sends input only while it is known,
\* and is removed at most once: the registry implements DeviceStream.
THEOREM RegistryImplementsDeviceStream == Spec => Refines
<1>1. Init => Stream!Init
  BY DEF Init
<1>2. HotplugInv /\ [Next]_vars => [Stream!Next]_Stream!streamVars
  BY StreamStep
<1> QED
  BY <1>1, <1>2, RegistryInvariant, PTL DEF Spec, Refines, Stream!Spec
=============================================================================
