--------------------------- MODULE DaemonLoopProofs ---------------------------
(***************************************************************************)
(* For any nodes, batches, queues and number of plugs: a node is opened    *)
(* once, a token keeps its device, no read of the daemon blocks, and a     *)
(* device costs two tokens at most each time it is plugged in.             *)
(***************************************************************************)
EXTENDS DaemonLoop, FiniteSetTheorems, TLAPS

\* What TokenKeepsDevice says of a step.
KeepsDevices ==
  \A t \in Tracked :
    IF t \in Tracked'
    THEN /\ devices_map'[t].node = devices_map[t].node
         /\ devices_map'[t].inc = devices_map[t].inc
    ELSE ~Alive(devices_map[t])

LEMMA Constants ==
  /\ Token \subseteq Nat
  /\ Notices \notin Token
  /\ MaxPlugs \in Nat
  /\ BatchSize \in Nat \ {0}
  /\ IsFiniteSet(Node)
BY DaemonLoopAssumption DEF Token

LEMMA InvInit == Init => LoopInv
<1> SUFFICES ASSUME Init PROVE LoopInv
  OBVIOUS
<1>1. Tracked = {}
  BY DEF Init, Tracked
<1>2. KernelTypes /\ MapTypes /\ ListTypes
  BY <1>1 DEF Init, KernelTypes, MapTypes, ListTypes
<1>3. TokensBelowNext /\ OnePerNode /\ ReportedIsReadable
  BY <1>1 DEF Init, TokensBelowNext, OnePerNode, ReportedIsReadable
<1> QED
  BY <1>2, <1>3 DEF LoopInv

\* A step that opens and removes nothing, though it may use up a token.
LEMMA MapKept ==
  ASSUME LoopInv, plugs' \in Nat, plugs <= plugs',
         UNCHANGED devices_map, next_token' \in {next_token, next_token + 1}
  PROVE  /\ Tracked' = Tracked
         /\ MapTypes' /\ TokensBelowNext' /\ OnePerNode'
         /\ KeepsDevices
<1>1. Tracked' = Tracked /\ Tracked \subseteq Nat
  BY Constants DEF Tracked
<1>2. next_token \in Nat /\ next_token' \in Nat /\ next_token <= next_token'
  BY DEF LoopInv, MapTypes
<1>3. MapTypes'
  BY <1>1, <1>2 DEF LoopInv, KernelTypes, MapTypes
<1>4. TokensBelowNext' /\ OnePerNode'
  BY <1>1, <1>2 DEF LoopInv, TokensBelowNext, OnePerNode
<1>5. KeepsDevices
  BY <1>1 DEF KeepsDevices
<1> QED
  BY <1>1, <1>3, <1>4, <1>5

LEMMA MapUntouched ==
  ASSUME LoopInv, plugs' \in Nat, plugs <= plugs',
         UNCHANGED <<devices_map, next_token>>
  PROVE  /\ Tracked' = Tracked
         /\ MapTypes' /\ TokensBelowNext' /\ OnePerNode'
         /\ KeepsDevices
BY MapKept

\* A step that leaves the map and the reported events alone and takes nothing
\* away from what can be read.
LEMMA StillReadable ==
  ASSUME LoopInv, UNCHANGED <<devices_map, events>>,
         notices # <<>> => notices' # <<>>,
         \A t \in Tracked :
           /\ pending[t] > 0 => pending'[t] > 0
           /\ ~Alive(devices_map[t]) => ~Alive(devices_map[t])'
  PROVE  ReportedIsReadable'
<1>1. Tracked' = Tracked
  BY DEF Tracked
<1>2. SUFFICES ASSUME NEW x \in events
               PROVE  Readable(x)'
  BY DEF ReportedIsReadable
<1>3. Readable(x)
  BY <1>2 DEF LoopInv, ReportedIsReadable
<1> QED
  BY <1>1, <1>3 DEF Readable

\* A device plugged in is not one that a wrapper has already.
LEMMA PlugKeepsInv ==
  ASSUME LoopInv, NEW n \in Node, Plug(n)
  PROVE  LoopInv' /\ KeepsDevices
<1>1. plugs' = plugs + 1 /\ UNCHANGED <<pending, loopVars>>
  BY DEF Plug
<1>2. notices' = Append(notices, n) \/ notices' = notices
  BY DEF Plug, Notify
<1>3. KernelTypes'
  <2>1. plugs \in Nat /\ present \in [Node -> 0..plugs] /\ notices \in Seq(Node)
    BY DEF LoopInv, KernelTypes
  <2>2. plugs' \in Nat /\ plugs' \in 0..plugs' /\ 0..plugs \subseteq 0..plugs'
    BY <1>1, <2>1
  <2>3. present' \in [Node -> 0..plugs']
    BY <2>1, <2>2 DEF Plug
  <2>4. notices' \in Seq(Node)
    <3>1. CASE notices' = Append(notices, n)
      BY <2>1, <3>1
    <3>2. CASE notices' = notices
      BY <2>1, <3>2
    <3> QED
      BY <1>2, <3>1, <3>2
  <2> QED
    BY <1>1, <2>2, <2>3, <2>4 DEF LoopInv, KernelTypes
<1>4. Tracked' = Tracked /\ MapTypes' /\ TokensBelowNext' /\ OnePerNode'
        /\ KeepsDevices
  <2>1. plugs' \in Nat /\ plugs <= plugs'
    BY <1>1 DEF LoopInv, KernelTypes
  <2> QED
    BY <1>1, <2>1, MapUntouched DEF loopVars
<1>5. ListTypes'
  BY <1>1 DEF LoopInv, ListTypes, loopVars
<1>6. ReportedIsReadable'
  <2>1. notices # <<>> => notices' # <<>>
    BY <1>2 DEF LoopInv, KernelTypes
  <2>2. ASSUME NEW t \in Tracked, ~Alive(devices_map[t])
        PROVE  ~Alive(devices_map[t])'
    <3>1. devices_map[t].inc # plugs + 1
      BY DEF LoopInv, KernelTypes, MapTypes
    <3> QED
      BY <1>1, <2>2, <3>1 DEF Plug, Alive, loopVars, LoopInv, KernelTypes, MapTypes
  <2> QED
    BY <1>1, <2>1, <2>2, StillReadable DEF loopVars
<1> QED
  BY <1>3, <1>4, <1>5, <1>6 DEF LoopInv

\* The other kernel steps: permissions, removal, input.
LEMMA KernelKeepsInv ==
  ASSUME LoopInv, NEW n \in Node, Chmod(n) \/ Unplug(n) \/ Send(n)
  PROVE  LoopInv' /\ KeepsDevices
<1>1. UNCHANGED <<plugs, loopVars>>
  BY DEF Chmod, Unplug, Send
<1>2. notices' = Append(notices, n) \/ notices' = notices
  BY DEF Chmod, Unplug, Send, Notify
<1>3. /\ present' = present \/ present' = [present EXCEPT ![n] = 0]
      /\ \/ pending' = pending
         \/ pending' = [t \in Token |->
                          pending[t] + (IF t \in ClientsOf(n) THEN 1 ELSE 0)]
  BY DEF Chmod, Unplug, Send
<1>4. KernelTypes'
  <2>1. plugs \in Nat /\ present \in [Node -> 0..plugs] /\ notices \in Seq(Node)
          /\ pending \in [Token -> Nat] /\ plugs' = plugs
    BY <1>1 DEF LoopInv, KernelTypes
  <2>2. present' \in [Node -> 0..plugs']
    BY <1>3, <2>1
  <2>3. pending' \in [Token -> Nat]
    BY <1>3, <2>1
  <2>4. notices' \in Seq(Node)
    <3>1. CASE notices' = Append(notices, n)
      BY <2>1, <3>1
    <3>2. CASE notices' = notices
      BY <2>1, <3>2
    <3> QED
      BY <1>2, <3>1, <3>2
  <2> QED
    BY <2>1, <2>2, <2>3, <2>4 DEF KernelTypes
<1>5. Tracked' = Tracked /\ MapTypes' /\ TokensBelowNext' /\ OnePerNode'
        /\ KeepsDevices
  <2>1. plugs' \in Nat /\ plugs <= plugs'
    BY <1>1 DEF LoopInv, KernelTypes
  <2> QED
    BY <1>1, <2>1, MapUntouched DEF loopVars
<1>6. ListTypes'
  BY <1>1 DEF LoopInv, ListTypes, loopVars
<1>7. ReportedIsReadable'
  <2>1. notices # <<>> => notices' # <<>>
    BY <1>2 DEF LoopInv, KernelTypes
  <2>2. ASSUME NEW t \in Tracked
        PROVE  /\ pending[t] > 0 => pending'[t] > 0
               /\ ~Alive(devices_map[t]) => ~Alive(devices_map[t])'
    <3>1. t \in Token
      BY DEF Tracked
    <3>2. pending[t] > 0 => pending'[t] > 0
      BY <1>3, <3>1 DEF LoopInv, KernelTypes
    <3>3. devices_map[t].inc # 0
      BY DEF LoopInv, MapTypes, KernelTypes
    <3>4. ~Alive(devices_map[t]) => ~Alive(devices_map[t])'
      BY <1>1, <1>3, <3>3 DEF Alive, loopVars, LoopInv, KernelTypes, MapTypes
    <3> QED
      BY <3>2, <3>4
  <2> QED
    BY <1>1, <2>1, <2>2, StillReadable DEF loopVars
<1> QED
  BY <1>4, <1>5, <1>6, <1>7 DEF LoopInv

\* The order of enumerate() is a sequence of nodes.
LEMMA ScanIsSequence ==
  ASSUME NEW S \in SUBSET Node, NEW s \in [1..Cardinality(S) -> S]
  PROVE  s \in Seq(Node)
<1>1. Cardinality(S) \in Nat
  BY Constants, FS_Subset, FS_CardinalityType
<1> QED
  BY <1>1

\* Steps that only move on in a list or between phases.
LEMMA ListsKeepInv ==
  ASSUME LoopInv, Scan \/ EndNames \/ AddWatch \/ ProcessBatch
  PROVE  LoopInv' /\ KeepsDevices
<1>1. UNCHANGED <<kernelVars, devices_map, next_token, events>>
  BY DEF Scan, EndNames, AddWatch, ProcessBatch
<1>2. names' \in Seq(Node)
  <2>1. CASE Scan
    <3> DEFINE there == {n \in Node : present[n] # 0}
    <3>1. names' \in [1..Cardinality(there) -> there]
      BY <2>1 DEF Scan
    <3>2. there \in SUBSET Node
      OBVIOUS
    <3> HIDE DEF there
    <3> QED
      BY <3>1, <3>2, ScanIsSequence
  <2>2. CASE EndNames \/ AddWatch \/ ProcessBatch
    BY <2>2 DEF EndNames, AddWatch, ProcessBatch, LoopInv, ListTypes
  <2> QED
    BY <2>1, <2>2
<1>3. KernelTypes' /\ ListTypes'
  BY <1>1, <1>2 DEF LoopInv, KernelTypes, ListTypes, kernelVars
<1>4. Tracked' = Tracked /\ MapTypes' /\ TokensBelowNext' /\ OnePerNode'
        /\ KeepsDevices
  BY <1>1, MapUntouched DEF LoopInv, KernelTypes, kernelVars
<1>5. ReportedIsReadable'
  BY <1>1, StillReadable DEF Alive, kernelVars
<1> QED
  BY <1>3, <1>4, <1>5 DEF LoopInv

\* poll() reports what can be read.
LEMMA PollKeepsInv ==
  ASSUME LoopInv, PollReturns
  PROVE  LoopInv' /\ KeepsDevices
<1>1. UNCHANGED <<plugs, present, settled, pending, notices, devices_map,
                  next_token, phase, names>>
  BY DEF PollReturns
<1>2. ReportedIsReadable'
  BY <1>1 DEF PollReturns, ReportedIsReadable, Readable, Tracked, Alive
<1>3. events' \subseteq Token \cup {Notices}
  BY DEF PollReturns, Readable, Tracked
<1>4. KernelTypes' /\ ListTypes'
  BY <1>1, <1>3 DEF LoopInv, KernelTypes, ListTypes
<1>5. MapTypes' /\ TokensBelowNext' /\ OnePerNode' /\ KeepsDevices
  BY <1>1, MapUntouched DEF LoopInv, KernelTypes
<1> QED
  BY <1>2, <1>4, <1>5 DEF LoopInv

\* What is read is taken off the list of what poll() reported.
LEMMA ReadKeepsInv ==
  ASSUME LoopInv, ReadNotices \/ \E t \in Token : Fetch(t)
  PROVE  LoopInv' /\ KeepsDevices
<1>1. UNCHANGED <<plugs, present, devices_map, next_token>>
  BY DEF ReadNotices, Fetch
<1>2. MapTypes' /\ TokensBelowNext' /\ OnePerNode' /\ KeepsDevices
  BY <1>1, MapUntouched DEF LoopInv, KernelTypes
<1>3. Tracked' = Tracked
  BY <1>1 DEF Tracked
<1>4. CASE ReadNotices
  <2>1. /\ notices' = <<>> /\ names' = notices
        /\ events' = events \ {Notices}
        /\ UNCHANGED pending
    BY <1>4 DEF ReadNotices, Others
  <2>2. KernelTypes' /\ ListTypes'
    BY <1>1, <2>1 DEF LoopInv, KernelTypes, ListTypes
  <2>3. ReportedIsReadable'
    BY <1>1, <1>3, <2>1 DEF LoopInv, ReportedIsReadable, Readable, Alive
  <2> QED
    BY <1>2, <2>2, <2>3 DEF LoopInv
<1>5. ASSUME NEW t \in Token, Fetch(t)
      PROVE  LoopInv' /\ KeepsDevices
  <2>1. /\ events' = events \ {t}
        /\ pending' = [pending EXCEPT
                        ![t] = IF @ < BatchSize THEN 0 ELSE @ - BatchSize]
        /\ UNCHANGED <<notices, names>>
    BY <1>5 DEF Fetch, Others, Rest
  <2>2. KernelTypes'
    <3>1. pending \in [Token -> Nat] /\ BatchSize \in Nat
      BY Constants DEF LoopInv, KernelTypes
    <3>2. pending' \in [Token -> Nat]
      BY <2>1, <3>1
    <3> QED
      BY <1>1, <2>1, <3>2 DEF LoopInv, KernelTypes
  <2>3. ListTypes'
    BY <2>1 DEF LoopInv, ListTypes
  <2>4. ReportedIsReadable'
    <3>1. \A x \in Token \ {t} : pending'[x] = pending[x]
      BY <2>1 DEF LoopInv, KernelTypes
    <3>2. ASSUME NEW x \in events' PROVE Readable(x)'
      <4>1. x \in events /\ x # t /\ Readable(x)
        BY <2>1, <3>2 DEF LoopInv, ReportedIsReadable
      <4>2. CASE x = Notices
        BY <2>1, <4>1, <4>2 DEF Readable
      <4>3. CASE x # Notices
        <5>1. x \in Tracked /\ x \in Token
          BY <4>1, <4>3 DEF Readable, Tracked
        <5>2. pending'[x] = pending[x]
          BY <3>1, <4>1, <5>1
        <5> QED
          BY <1>1, <1>3, <4>1, <4>3, <5>1, <5>2 DEF Readable, Alive
      <4> QED
        BY <4>2, <4>3
    <3> QED
      BY <3>2 DEF ReportedIsReadable
  <2> QED
    BY <1>2, <2>2, <2>3, <2>4 DEF LoopInv
<1> QED
  BY <1>4, <1>5

\* Only what is gone is given up.
LEMMA DisconnectedKeepsInv ==
  ASSUME LoopInv, NEW t \in Token, Disconnected(t)
  PROVE  LoopInv' /\ KeepsDevices
<1>1. /\ events' = events \ {t}
      /\ devices_map' = [devices_map EXCEPT ![t] = None]
      /\ pending' = [pending EXCEPT ![t] = 0]
      /\ ~Alive(devices_map[t])
      /\ UNCHANGED <<plugs, present, notices, next_token, names>>
  BY DEF Disconnected, Others
<1>2. /\ DOMAIN devices_map' = Token
      /\ \A u \in Token \ {t} : devices_map'[u] = devices_map[u]
      /\ devices_map'[t] = None
      /\ Tracked' = Tracked \ {t}
  BY <1>1 DEF LoopInv, MapTypes, Tracked
<1>3. KernelTypes' /\ ListTypes'
  BY <1>1 DEF LoopInv, KernelTypes, ListTypes
<1>4. MapTypes' /\ TokensBelowNext'
  BY <1>1, <1>2 DEF LoopInv, MapTypes, TokensBelowNext, Tracked
<1>5. OnePerNode'
  BY <1>2 DEF LoopInv, OnePerNode, Tracked
<1>6. ReportedIsReadable'
  <2>1. ASSUME NEW x \in events' PROVE Readable(x)'
    <3>1. x \in events /\ x # t /\ Readable(x)
      BY <1>1, <2>1 DEF LoopInv, ReportedIsReadable
    <3>2. CASE x = Notices
      BY <1>1, <3>1, <3>2 DEF Readable
    <3>3. CASE x # Notices
      <4>1. x \in Tracked' /\ x \in Token
        BY <1>2, <3>1, <3>3 DEF Readable, Tracked
      <4>2. pending'[x] = pending[x] /\ devices_map'[x] = devices_map[x]
        BY <1>1, <1>2, <3>1, <4>1 DEF LoopInv, KernelTypes
      <4> QED
        BY <1>1, <3>1, <3>3, <4>1, <4>2 DEF Readable, Alive
    <3> QED
      BY <3>2, <3>3
  <2> QED
    BY <2>1 DEF ReportedIsReadable
<1>7. KeepsDevices
  BY <1>1, <1>2 DEF KeepsDevices, Tracked
<1> QED
  BY <1>3, <1>4, <1>5, <1>6, <1>7 DEF LoopInv

\* A new wrapper has a new token and is the only one of its node.
LEMMA OpenedKeepsInv ==
  ASSUME LoopInv, NEW n \in Node, Opened(n), ~already_tracked(n),
         names' \in Seq(Node),
         UNCHANGED <<plugs, present, notices, events>>
  PROVE  LoopInv' /\ KeepsDevices
<1>1. /\ devices_map' = [devices_map EXCEPT ![next_token] = Wrapper(n)]
      /\ pending' = [pending EXCEPT ![next_token] = 0]
      /\ next_token' = next_token + 1
      /\ present[n] # 0
  BY DEF Opened, NewToken
<1>2. /\ Wrapper(n).node = n
      /\ Wrapper(n).inc \in 1..plugs
  BY <1>1 DEF Wrapper, LoopInv, KernelTypes
<1>3. next_token \notin Tracked /\ next_token \in Nat
  BY Constants DEF LoopInv, TokensBelowNext, MapTypes, Tracked
<1>4. /\ DOMAIN devices_map' = Token
      /\ \A t \in Token \ {next_token} : devices_map'[t] = devices_map[t]
      /\ next_token \in Token => devices_map'[next_token] = Wrapper(n)
  BY <1>1 DEF LoopInv, MapTypes
<1>5. Tracked \subseteq Tracked' /\ Tracked' \subseteq Tracked \cup {next_token}
  BY <1>3, <1>4 DEF Tracked
<1>6. KernelTypes' /\ ListTypes'
  BY <1>1 DEF LoopInv, KernelTypes, ListTypes
<1>7. \A t \in Tracked : t # next_token /\ t \in Token
                          /\ devices_map'[t] = devices_map[t]
  BY <1>3, <1>4 DEF Tracked
<1>8. MapTypes' /\ TokensBelowNext'
  <2>1. ASSUME NEW t \in Tracked'
        PROVE  /\ devices_map'[t].node \in Node
               /\ devices_map'[t].inc \in 1..plugs'
               /\ t < next_token'
    <3>1. CASE t \in Tracked
      <4>1. t < next_token /\ t \in Nat
        BY <3>1, Constants DEF LoopInv, TokensBelowNext, Tracked
      <4> QED
        BY <1>1, <1>3, <1>7, <3>1, <4>1 DEF LoopInv, MapTypes
    <3>2. CASE t = next_token
      <4>1. devices_map'[t] = Wrapper(n)
        BY <1>4, <3>2 DEF Tracked
      <4> QED
        BY <1>1, <1>2, <1>3, <3>2, <4>1
    <3> QED
      BY <1>5, <3>1, <3>2
  <2> QED
    BY <1>1, <1>3, <1>4, <2>1 DEF MapTypes, TokensBelowNext
<1>9. OnePerNode'
  <2>1. ASSUME NEW t \in Tracked', NEW u \in Tracked',
               devices_map'[t].node = devices_map'[u].node
        PROVE  t = u
    <3>1. \A v \in Tracked : devices_map'[v].node # n
      BY <1>7 DEF already_tracked
    <3>2. \A v \in Tracked' : v = next_token => devices_map'[v].node = n
      BY <1>2, <1>4 DEF Tracked
    <3> QED
      BY <1>5, <1>7, <2>1, <3>1, <3>2 DEF LoopInv, OnePerNode
  <2> QED
    BY <2>1 DEF OnePerNode
<1>10. ReportedIsReadable'
  <2>1. ASSUME NEW x \in events' PROVE Readable(x)'
    <3>1. Readable(x)
      BY <2>1 DEF LoopInv, ReportedIsReadable
    <3>2. CASE x = Notices
      BY <3>1, <3>2 DEF Readable
    <3>3. CASE x # Notices
      <4>1. x \in Tracked /\ x \in Tracked'
        BY <1>5, <3>1, <3>3 DEF Readable
      <4>2. pending'[x] = pending[x] /\ devices_map'[x] = devices_map[x]
        BY <1>1, <1>7, <4>1 DEF LoopInv, KernelTypes
      <4> QED
        BY <3>1, <3>3, <4>1, <4>2 DEF Readable, Alive
    <3> QED
      BY <3>2, <3>3
  <2> QED
    BY <2>1 DEF ReportedIsReadable
<1>11. KeepsDevices
  BY <1>5, <1>7 DEF KeepsDevices
<1> QED
  BY <1>6, <1>8, <1>9, <1>10, <1>11 DEF LoopInv

LEMMA OpenNameKeepsInv ==
  ASSUME LoopInv, OpenName
  PROVE  LoopInv' /\ KeepsDevices
<1> DEFINE n == Head(names)
<1>1. /\ names # <<>> /\ names' = Tail(names)
      /\ UNCHANGED <<plugs, present, notices, events>>
      /\ \/ /\ UNCHANGED <<devices_map, pending>>
            /\ next_token' \in {next_token, next_token + 1}
         \/ ~already_tracked(n) /\ Opened(n)
  BY DEF OpenName, NotOpened, Unregistered, NamesLeft
<1>2. names \in Seq(Node)
  BY DEF LoopInv, ListTypes
<1>3. n \in Node /\ names' \in Seq(Node)
  BY <1>1, <1>2
<1> HIDE DEF n
<1>4. CASE /\ UNCHANGED <<devices_map, pending>>
           /\ next_token' \in {next_token, next_token + 1}
  <2>1. KernelTypes' /\ ListTypes'
    BY <1>1, <1>3, <1>4 DEF LoopInv, KernelTypes, ListTypes
  <2>2. MapTypes' /\ TokensBelowNext' /\ OnePerNode' /\ KeepsDevices
    BY <1>1, <1>4, MapKept DEF LoopInv, KernelTypes
  <2>3. ReportedIsReadable'
    BY <1>1, <1>4, StillReadable DEF Alive
  <2> QED
    BY <2>1, <2>2, <2>3 DEF LoopInv
<1>5. CASE ~already_tracked(n) /\ Opened(n)
  BY <1>1, <1>3, <1>5, OpenedKeepsInv
<1> QED
  BY <1>1, <1>4, <1>5

LEMMA InvStep == LoopInv /\ [Next]_vars => LoopInv' /\ KeepsDevices
<1> SUFFICES ASSUME LoopInv, [Next]_vars
             PROVE  LoopInv' /\ KeepsDevices
  OBVIOUS
<1>1. CASE Kernel
  BY <1>1, PlugKeepsInv, KernelKeepsInv DEF Kernel
<1>2. CASE Run
  BY <1>2, ListsKeepInv, OpenNameKeepsInv, PollKeepsInv, ReadKeepsInv,
     DisconnectedKeepsInv DEF Run
<1>3. CASE UNCHANGED vars
  <2>1. KernelTypes' /\ ListTypes'
    BY <1>3 DEF LoopInv, KernelTypes, ListTypes, vars
  <2>2. MapTypes' /\ TokensBelowNext' /\ OnePerNode' /\ KeepsDevices
    BY <1>3, MapUntouched DEF LoopInv, KernelTypes, vars
  <2>3. ReportedIsReadable'
    BY <1>3, StillReadable DEF Alive, vars
  <2> QED
    BY <2>1, <2>2, <2>3 DEF LoopInv
<1> QED
  BY <1>1, <1>2, <1>3 DEF Next

\* The map, its tokens and what poll() reported agree.
THEOREM LoopInvariant == Spec => []LoopInv
<1>1. LoopInv /\ [Next]_vars => LoopInv'
  BY InvStep
<1> QED
  BY InvInit, <1>1, PTL DEF Spec

\* However inotify names it and whenever its old device is found gone, a node
\* is opened once.
THEOREM NodeIsOpenedOnce == Spec => []OnePerNode
<1>1. LoopInv => OnePerNode
  BY DEF LoopInv
<1> QED
  BY LoopInvariant, <1>1, PTL

\* The daemon never reads a file that has nothing for it: its one thread does
\* not block outside poll().
THEOREM NoReadBlocks == Spec => []ReportedIsReadable
<1>1. LoopInv => ReportedIsReadable
  BY DEF LoopInv
<1> QED
  BY LoopInvariant, <1>1, PTL

\* A token means the same device as long as it is tracked, and a device is
\* dropped only when it is gone.
THEOREM TokensKeepDevices == Spec => TokenKeepsDevice
<1>1. LoopInv /\ [Next]_vars =>
        [\A t \in Tracked :
           IF t \in Tracked'
           THEN /\ devices_map'[t].node = devices_map[t].node
                /\ devices_map'[t].inc = devices_map[t].inc
           ELSE ~Alive(devices_map[t])]_vars
  BY InvStep DEF KeepsDevices
<1> QED
  BY LoopInvariant, <1>1, PTL DEF Spec, TokenKeepsDevice
-----------------------------------------------------------------------------
(* Types, and the number of tokens used up *)

\* The parts of TypeOK that LoopInv does not have.
MoreTypes ==
  /\ plugs \in 0..MaxPlugs
  /\ settled \subseteq Node
  /\ edges \subseteq Token \cup {Notices}
  /\ \A t \in Tracked : devices_map[t] \in [node : Node, inc : 1..plugs]
  /\ phase \in {"start", "scan", "watch", "loop", "names", "batch"}

LEMMA TypesInParts == LoopInv => (TypeOK <=> MoreTypes /\ TokensAreNamed)
  BY DEF LoopInv, KernelTypes, MapTypes, ListTypes, TypeOK, MoreTypes

LEMMA NodesAreCounted ==
  ASSUME NEW S \in SUBSET Node
  PROVE  IsFiniteSet(S) /\ Cardinality(S) \in Nat
BY Constants, FS_Subset, FS_CardinalityType

\* What TokensAreNamed adds up, before a step and after it.
LEMMA CountsAreNat ==
  ASSUME LoopInv, LoopInv'
  PROVE  /\ {next_token, Len(names), Len(notices), plugs} \subseteq Nat
         /\ {next_token', Len(names'), Len(notices'), plugs'} \subseteq Nat
         /\ There \in SUBSET Node /\ Unsettled \in SUBSET Node
         /\ {Cardinality(There), Cardinality(Unsettled)} \subseteq Nat
         /\ There' \in SUBSET Node /\ Unsettled' \in SUBSET Node
         /\ {Cardinality(There'), Cardinality(Unsettled')} \subseteq Nat
<1>1. /\ There \in SUBSET Node /\ Unsettled \in SUBSET Node
      /\ There' \in SUBSET Node /\ Unsettled' \in SUBSET Node
  BY DEF There, Unsettled
<1>2. /\ {Cardinality(There), Cardinality(Unsettled)} \subseteq Nat
      /\ {Cardinality(There'), Cardinality(Unsettled')} \subseteq Nat
  BY <1>1, NodesAreCounted
<1>3. {next_token, Len(names), Len(notices), plugs} \subseteq Nat
  BY DEF LoopInv, KernelTypes, MapTypes, ListTypes
<1>4. {next_token', Len(names'), Len(notices'), plugs'} \subseteq Nat
  BY DEF LoopInv, KernelTypes, MapTypes, ListTypes
<1> QED
  BY <1>1, <1>2, <1>3, <1>4

LEMMA SmallerCounts ==
  ASSUME NEW S \in SUBSET Node, NEW T \in SUBSET S
  PROVE  Cardinality(T) <= Cardinality(S)
BY NodesAreCounted, FS_Subset

\* Names that go from one list to the next, or cost a token.
LEMMA NothingNamed ==
  ASSUME LoopInv, LoopInv', TokensAreNamed, plugs' = plugs,
         phase' = "start" <=> phase = "start",
         There' \subseteq There, Unsettled' \subseteq Unsettled,
         next_token' + Len(names') + Len(notices') <= next_token + Len(names) + Len(notices)
  PROVE  TokensAreNamed'
<1>1. /\ Cardinality(There') <= Cardinality(There)
      /\ Cardinality(Unsettled') <= Cardinality(Unsettled)
  BY CountsAreNat, SmallerCounts
<1> DEFINE scan == IF phase = "start" THEN Cardinality(There) ELSE 0
           scanned == IF phase' = "start" THEN Cardinality(There') ELSE 0
           used == next_token + Len(names) + Len(notices)
           usedThen == next_token' + Len(names') + Len(notices')
           later == Cardinality(Unsettled)
           laterThen == Cardinality(Unsettled')
<1>2. scan \in Nat /\ scanned \in Nat /\ scanned <= scan
  BY <1>1, CountsAreNat
<1>3. /\ used \in Nat /\ usedThen \in Nat /\ later \in Nat /\ laterThen \in Nat
      /\ plugs \in Nat
  BY CountsAreNat
<1>4. used + later + scan <= 2 * plugs /\ usedThen <= used /\ laterThen <= later
  BY <1>1 DEF TokensAreNamed
<1>5. TokensAreNamed' <=> usedThen + laterThen + scanned <= 2 * plugs
  BY DEF TokensAreNamed
<1> HIDE DEF scan, scanned, used, usedThen, later, laterThen
<1>6. usedThen + laterThen + scanned <= 2 * plugs
  BY <1>2, <1>3, <1>4
<1> QED
  BY <1>5, <1>6

\* A plug may be named twice: by the scan or at once, and when it is settled.
LEMMA PlugIsCounted ==
  ASSUME LoopInv, LoopInv', TokensAreNamed, NEW n \in Node, Plug(n)
  PROVE  TokensAreNamed'
<1>1. /\ plugs' = plugs + 1 /\ present' = [present EXCEPT ![n] = plugs']
      /\ settled' = settled \ {n} /\ UNCHANGED <<names, next_token, phase>>
      /\ notices' = notices \/ (phase # "start" /\ notices' = Append(notices, n))
  BY DEF Plug, Notify, Watching, loopVars
<1>2. There' \subseteq There \cup {n} /\ Unsettled' \subseteq Unsettled \cup {n}
  BY <1>1 DEF There, Unsettled, LoopInv, KernelTypes
<1>3. ASSUME NEW S \in SUBSET Node, NEW T \in SUBSET (S \cup {n})
      PROVE  Cardinality(T) <= Cardinality(S) + 1
  <2>1. Cardinality(S \cup {n}) \in {Cardinality(S), Cardinality(S) + 1}
    BY NodesAreCounted, FS_AddElement
  <2>2. Cardinality(T) <= Cardinality(S \cup {n})
    BY SmallerCounts
  <2>3. T \in SUBSET Node /\ Cardinality(T) \in Nat /\ Cardinality(S) \in Nat
    BY NodesAreCounted
  <2> QED
    BY <2>1, <2>2, <2>3
<1>4. /\ Cardinality(There') <= Cardinality(There) + 1
      /\ Cardinality(Unsettled') <= Cardinality(Unsettled) + 1
  BY <1>2, <1>3, CountsAreNat
<1>5. Len(notices') <= Len(notices) + (IF phase = "start" THEN 0 ELSE 1)
  <2>1. notices \in Seq(Node)
    BY DEF LoopInv, KernelTypes
  <2>2. CASE notices' = notices
    BY <2>2, CountsAreNat
  <2>3. CASE phase # "start" /\ notices' = Append(notices, n)
    BY <2>1, <2>3
  <2> QED
    BY <1>1, <2>2, <2>3
<1> DEFINE scan == IF phase = "start" THEN Cardinality(There) ELSE 0
           scanned == IF phase = "start" THEN Cardinality(There') ELSE 0
           used == next_token + Len(names)
           told == Len(notices)
           toldThen == Len(notices')
           later == Cardinality(Unsettled)
           laterThen == Cardinality(Unsettled')
<1>6. /\ used \in Nat /\ told \in Nat /\ toldThen \in Nat /\ plugs \in Nat
      /\ later \in Nat /\ laterThen \in Nat /\ scan \in Nat /\ scanned \in Nat
  BY CountsAreNat
<1>7. toldThen + scanned <= told + scan + 1
  BY <1>4, <1>5, CountsAreNat
<1>8. used + told + later + scan <= 2 * plugs /\ laterThen <= later + 1
  BY <1>4 DEF TokensAreNamed
<1>9. TokensAreNamed' <=> used + toldThen + laterThen + scanned <= 2 * (plugs + 1)
  BY <1>1 DEF TokensAreNamed
<1> HIDE DEF scan, scanned, used, told, toldThen, later, laterThen
<1>10. used + toldThen + laterThen + scanned <= 2 * (plugs + 1)
  BY <1>6, <1>7, <1>8
<1> QED
  BY <1>9, <1>10

\* What is settled is named, and never again.
LEMMA ChmodIsCounted ==
  ASSUME LoopInv, LoopInv', TokensAreNamed, NEW n \in Node, Chmod(n)
  PROVE  TokensAreNamed'
<1>1. /\ present[n] # 0 /\ n \notin settled /\ settled' = settled \cup {n}
      /\ UNCHANGED <<plugs, present, names, next_token, phase>>
      /\ notices' = notices \/ notices' = Append(notices, n)
  BY DEF Chmod, Notify, loopVars
<1>2. There' = There /\ Unsettled' = Unsettled \ {n} /\ n \in Unsettled
  BY <1>1 DEF There, Unsettled
<1>3. Cardinality(Unsettled') = Cardinality(Unsettled) - 1
  BY <1>2, CountsAreNat, NodesAreCounted, FS_RemoveElement
<1>4. Len(notices') <= Len(notices) + 1
  <2>1. notices \in Seq(Node)
    BY DEF LoopInv, KernelTypes
  <2> QED
    BY <1>1, <2>1
<1> DEFINE scan == IF phase = "start" THEN Cardinality(There) ELSE 0
           used == next_token + Len(names)
           told == Len(notices)
           toldThen == Len(notices')
           later == Cardinality(Unsettled)
           laterThen == Cardinality(Unsettled')
<1>5. /\ used \in Nat /\ told \in Nat /\ toldThen \in Nat /\ plugs \in Nat
      /\ later \in Nat /\ laterThen \in Nat /\ scan \in Nat
  BY CountsAreNat
<1>6. /\ used + told + later + scan <= 2 * plugs
      /\ laterThen = later - 1 /\ toldThen <= told + 1
  BY <1>3, <1>4 DEF TokensAreNamed
<1>7. TokensAreNamed' <=> used + toldThen + laterThen + scan <= 2 * plugs
  BY <1>1, <1>2 DEF TokensAreNamed
<1> HIDE DEF scan, used, told, toldThen, later, laterThen
<1>8. used + toldThen + laterThen + scan <= 2 * plugs
  BY <1>5, <1>6
<1> QED
  BY <1>7, <1>8

LEMMA ScanIsCounted ==
  ASSUME LoopInv, LoopInv', TokensAreNamed, Scan
  PROVE  TokensAreNamed'
<1>1. /\ phase = "start" /\ phase' = "scan"
      /\ names' \in [1..Cardinality(There) -> There]
      /\ UNCHANGED <<plugs, present, settled, notices, next_token>>
  BY DEF Scan, There, kernelVars
<1>2. There' = There /\ Unsettled' = Unsettled
  BY <1>1 DEF There, Unsettled
<1>3. Len(names') = Cardinality(There)
  BY <1>1, CountsAreNat
<1> QED
  BY <1>1, <1>2, <1>3, CountsAreNat DEF TokensAreNamed

\* A name looked at costs a token at most.
LEMMA NamesAreCounted ==
  ASSUME LoopInv, OpenName
  PROVE  /\ names # <<>> /\ Len(names') = Len(names) - 1
         /\ next_token' \in {next_token, next_token + 1}
         /\ UNCHANGED <<plugs, present, settled, notices, phase>>
<1>1. names \in Seq(Node) /\ names # <<>> /\ names' = Tail(names)
  BY DEF OpenName, NamesLeft, LoopInv, ListTypes
<1> QED
  BY <1>1 DEF OpenName, Opened, NotOpened, Unregistered

LEMMA NamesCostTokens ==
  LoopInv /\ TokensAreNamed /\ [Next]_vars => TokensAreNamed'
<1> SUFFICES ASSUME LoopInv, TokensAreNamed, [Next]_vars PROVE TokensAreNamed'
  OBVIOUS
<1>1. LoopInv'
  BY InvStep
<1>2. CASE OpenName
  <2>1. There' = There /\ Unsettled' = Unsettled
    BY <1>2, NamesAreCounted DEF There, Unsettled
  <2>2. next_token' + Len(names') + Len(notices') <= next_token + Len(names) + Len(notices)
    BY <1>1, <1>2, NamesAreCounted, CountsAreNat
  <2> QED
    BY <1>1, <1>2, <2>1, <2>2, NamesAreCounted, NothingNamed
<1>3. CASE ReadNotices
  <2>1. /\ names' = notices /\ notices' = <<>> /\ phase' # "start" /\ phase # "start"
        /\ UNCHANGED <<plugs, present, settled, next_token>>
    BY <1>3 DEF ReadNotices
  <2>2. There' = There /\ Unsettled' = Unsettled
    BY <2>1 DEF There, Unsettled
  <2>3. next_token' + Len(names') + Len(notices') <= next_token + Len(names) + Len(notices)
    BY <1>1, <2>1, CountsAreNat
  <2> QED
    BY <1>1, <2>1, <2>2, <2>3, NothingNamed
<1>4. ASSUME NEW n \in Node, Unplug(n) PROVE TokensAreNamed'
  <2>1. /\ present' = [present EXCEPT ![n] = 0]
        /\ UNCHANGED <<plugs, settled, notices, names, next_token, phase>>
    BY <1>4 DEF Unplug, loopVars
  <2>2. There' \subseteq There /\ Unsettled' \subseteq Unsettled
    BY <2>1 DEF There, Unsettled, LoopInv, KernelTypes
  <2> QED
    BY <1>1, <2>1, <2>2, CountsAreNat, NothingNamed
<1>5. CASE \/ \E n \in Node : Send(n)
           \/ EndNames \/ AddWatch \/ PollReturns \/ ProcessBatch
           \/ \E t \in Token : Fetch(t) \/ Disconnected(t)
           \/ UNCHANGED vars
  <2>1. /\ UNCHANGED <<plugs, present, settled, notices, names, next_token>>
        /\ phase' = "start" <=> phase = "start"
    BY <1>5 DEF Send, EndNames, AddWatch, PollReturns, ProcessBatch, Fetch, Disconnected,
                kernelVars, loopVars, vars
  <2>2. There' = There /\ Unsettled' = Unsettled
    BY <2>1 DEF There, Unsettled
  <2> QED
    BY <1>1, <2>1, <2>2, CountsAreNat, NothingNamed
<1>6. CASE Scan \/ \E n \in Node : Plug(n) \/ Chmod(n)
  BY <1>1, <1>6, ScanIsCounted, PlugIsCounted, ChmodIsCounted
<1> QED
  BY <1>2, <1>3, <1>4, <1>5, <1>6 DEF Next, Kernel, Run

\* A name still to be looked at has its token.
LEMMA TokenIsLeft ==
  ASSUME TypeOK, names # <<>>
  PROVE  next_token \in Token
<1>1. /\ next_token \in Nat /\ Len(names) \in Nat \ {0} /\ Len(notices) \in Nat
      /\ plugs \in 0..MaxPlugs /\ TokensAreNamed
  BY DEF TypeOK
<1>2. There \in SUBSET Node /\ Unsettled \in SUBSET Node
  BY DEF There, Unsettled
<1>3. Cardinality(There) \in Nat /\ Cardinality(Unsettled) \in Nat
  BY <1>2, NodesAreCounted
<1> DEFINE scan == IF phase = "start" THEN Cardinality(There) ELSE 0
<1>4. scan \in Nat
  BY <1>3
<1>5. next_token + Len(names) + Len(notices) + Cardinality(Unsettled) + scan <= 2 * plugs
  BY <1>1 DEF TokensAreNamed
<1> HIDE DEF scan
<1>6. next_token < 2 * MaxPlugs
  BY <1>1, <1>3, <1>4, <1>5, Constants
<1> QED
  BY <1>1, <1>6, Constants DEF Token

\* A wrapper is what was there when its node was opened.
LEMMA WrappersAreTyped ==
  ASSUME LoopInv, MoreTypes, [Next]_vars
  PROVE  \A t \in Tracked' : devices_map'[t] \in [node : Node, inc : 1..plugs']
<1>1. plugs \in Nat /\ plugs' \in {plugs, plugs + 1}
  BY DEF LoopInv, KernelTypes, Next, Kernel, Run, Plug, Chmod, Unplug, Send, Scan, OpenName,
         EndNames, AddWatch, PollReturns, ReadNotices, Fetch, Disconnected, ProcessBatch,
         kernelVars, vars
<1>2. ASSUME NEW t \in Tracked', t \in Tracked, devices_map'[t] = devices_map[t]
      PROVE  devices_map'[t] \in [node : Node, inc : 1..plugs']
  <2>1. devices_map[t] \in [node : Node, inc : 1..plugs] /\ 1..plugs \subseteq 1..plugs'
    BY <1>1, <1>2 DEF MoreTypes
  <2> QED
    BY <1>2, <2>1
<1>3. ASSUME UNCHANGED devices_map
      PROVE  \A t \in Tracked' : devices_map'[t] \in [node : Node, inc : 1..plugs']
  BY <1>2, <1>3 DEF Tracked
<1>4. CASE OpenName /\ ~UNCHANGED devices_map
  <2> DEFINE n == Head(names)
  <2>1. n \in Node /\ Opened(n) /\ plugs' = plugs /\ present' = present
    BY <1>4 DEF OpenName, NotOpened, Unregistered, LoopInv, ListTypes
  <2>2. Wrapper(n) \in [node : Node, inc : 1..plugs']
    BY <2>1 DEF Opened, Wrapper, LoopInv, KernelTypes
  <2>3. \A t \in Token : devices_map'[t] \in {devices_map[t], Wrapper(n)}
    BY <2>1 DEF Opened, NewToken, LoopInv, MapTypes
  <2> HIDE DEF n
  <2>4. ASSUME NEW t \in Tracked'
        PROVE  devices_map'[t] \in [node : Node, inc : 1..plugs']
    <3>1. CASE devices_map'[t] = Wrapper(n)
      BY <2>2, <3>1
    <3>2. CASE devices_map'[t] = devices_map[t]
      <4>1. t \in Tracked
        BY <2>4, <3>2 DEF Tracked
      <4> QED
        BY <1>2, <3>2, <4>1
    <3> QED
      BY <2>3, <3>1, <3>2 DEF Tracked
  <2> QED
    BY <2>4
<1>5. ASSUME NEW u \in Token, Disconnected(u)
      PROVE  \A t \in Tracked' : devices_map'[t] \in [node : Node, inc : 1..plugs']
  <2>1. \A t \in Token : devices_map'[t] = IF t = u THEN None ELSE devices_map[t]
    BY <1>5 DEF Disconnected, LoopInv, MapTypes
  <2>2. \A t \in Tracked' : t \in Tracked /\ devices_map'[t] = devices_map[t]
    BY <2>1 DEF Tracked
  <2> QED
    BY <1>2, <2>2
<1>6. CASE ~OpenName /\ ~\E u \in Token : Disconnected(u)
  <2>1. UNCHANGED devices_map
    BY <1>6 DEF Next, Kernel, Run, Plug, Chmod, Unplug, Send, Scan, EndNames, AddWatch,
                PollReturns, ReadNotices, Fetch, ProcessBatch, loopVars, vars
  <2> QED
    BY <1>3, <2>1
<1> QED
  BY <1>3, <1>4, <1>5, <1>6

LEMMA KernelIsTyped ==
  ASSUME LoopInv, MoreTypes, [Next]_vars
  PROVE  /\ plugs' \in 0..MaxPlugs
         /\ settled' \subseteq Node
         /\ edges' \subseteq Token \cup {Notices}
         /\ phase' \in {"start", "scan", "watch", "loop", "names", "batch"}
<1>1. plugs' \in 0..MaxPlugs
  BY DaemonLoopAssumption DEF MoreTypes, Next, Kernel, Run, Plug, Chmod, Unplug, Send, Scan, OpenName,
         EndNames, AddWatch, PollReturns, ReadNotices, Fetch, Disconnected, ProcessBatch,
         kernelVars, vars
<1>2. settled' \subseteq Node
  BY DEF MoreTypes, Next, Kernel, Run, Plug, Chmod, Unplug, Send, Scan, OpenName,
         EndNames, AddWatch, PollReturns, ReadNotices, Fetch, Disconnected, ProcessBatch,
         kernelVars, vars
<1>3. edges' \subseteq Token \cup {Notices}
  <2>1. \A n : ClientsOf(n) \subseteq Token
    BY DEF ClientsOf, Tracked
  <2> QED
    BY <2>1 DEF MoreTypes, Next, Kernel, Run, Plug, Chmod, Unplug, Send, Notify, Scan,
         OpenName, EndNames, AddWatch, PollReturns, ReadNotices, Fetch, Disconnected,
         ProcessBatch, kernelVars, vars
<1>4. phase' \in {"start", "scan", "watch", "loop", "names", "batch"}
  BY DEF MoreTypes, Next, Kernel, Run, Plug, Chmod, Unplug, Send, Scan, OpenName,
         EndNames, AddWatch, PollReturns, ReadNotices, Fetch, Disconnected, ProcessBatch,
         kernelVars, loopVars, vars
<1> QED
  BY <1>1, <1>2, <1>3, <1>4

\* For any nodes and plugs, and whichever devices cannot be registered, the
\* daemon uses up a token at most for each time a node is listed or named, which
\* is twice for each plug: tokens, which are handed out and never returned, are
\* no more than that.
THEOREM TokensAreForNames == Spec => []TypeOK
<1>1. Init => MoreTypes /\ TokensAreNamed
  <2> SUFFICES ASSUME Init PROVE MoreTypes /\ TokensAreNamed
    OBVIOUS
  <2>1. Tracked = {} /\ There = {} /\ Unsettled = {}
    BY DEF Init, Tracked, There, Unsettled
  <2>2. TokensAreNamed
    BY <2>1, FS_EmptySet DEF Init, TokensAreNamed
  <2>3. MoreTypes
    BY <2>1, DaemonLoopAssumption DEF Init, MoreTypes
  <2> QED
    BY <2>2, <2>3
<1>2. LoopInv /\ MoreTypes /\ TokensAreNamed /\ [Next]_vars => MoreTypes' /\ TokensAreNamed'
  <2>1. LoopInv /\ MoreTypes /\ [Next]_vars => MoreTypes'
    BY WrappersAreTyped, KernelIsTyped DEF MoreTypes
  <2> QED
    BY <2>1, NamesCostTokens
<1>3. LoopInv /\ MoreTypes /\ TokensAreNamed => TypeOK
  BY TypesInParts
<1> QED
  BY <1>1, <1>2, <1>3, LoopInvariant, PTL DEF Spec
=============================================================================
