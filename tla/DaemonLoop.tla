------------------------------ MODULE DaemonLoop ------------------------------
(***************************************************************************)
(* The daemon's event loop (src/event_loop.rs): its scan at start, the     *)
(* edge-triggered poll, hotplug by inotify and one batch per readiness.    *)
(* What becomes of a frame is DaemonPad and DaemonKeys; here frames are    *)
(* counted.  The files are read in blocking mode, so a read that finds     *)
(* nothing stops the whole loop.                                           *)
(***************************************************************************)
EXTENDS Integers, Sequences, FiniteSets

CONSTANTS
  Keyboards,        \* device nodes behind which keyboards appear
  Pointers,         \* device nodes behind which pointers appear
  Unregistrable,    \* those of which epoll may refuse the file
  BatchSize,        \* frames one fetch_events() returns at most
  QueueBound,       \* bound: frames in a kernel queue, per node
  MaxPlugs,         \* bound: times a device is plugged in
  LastPlug,         \* bound: how many of the plugs a node may take part in
  NoticeBound,      \* bound: names in the inotify queue
  Notices,          \* inotify_token
  None

Node == Keyboards \cup Pointers
Token == 0..2 * MaxPlugs - 1    \* a node is named twice each time

ASSUME DaemonLoopAssumption ==
  /\ Keyboards \cap Pointers = {} /\ IsFiniteSet(Node)
  /\ Unregistrable \subseteq Node
  /\ {BatchSize, MaxPlugs, NoticeBound} \subseteq Nat \ {0}
  /\ QueueBound \in [Node -> Nat] /\ LastPlug \in [Node -> 0..MaxPlugs]
  /\ Notices \notin Nat
  /\ None \notin [node : Node, inc : Nat]

VARIABLES
  \* the kernel
  plugs,         \* devices plugged in so far
  present,       \* which of them is behind each node, or 0
  settled,       \* nodes of which udev has set the permissions
  pending,       \* frames queued for the client of each token
  notices,       \* names in the inotify queue
  edges,         \* what changed since epoll last reported it
  \* run()
  devices_map,   \* the DeviceWrapper of each token, or None
  next_token,
  phase,         \* "start", "scan", "watch", then "loop", "names", "batch"
  events,        \* what poll() returned and is not handled yet
  names          \* names still to be opened

kernelVars == <<plugs, present, settled, pending, notices, edges>>
loopVars == <<devices_map, next_token, phase, events, names>>
vars == <<plugs, present, settled, pending, notices, edges, devices_map,
          next_token, phase, events, names>>

Tracked == {t \in Token : devices_map[t] # None}
Alive(w) == present[w.node] = w.inc
Readable(x) ==
  IF x = Notices THEN notices # <<>>
  ELSE x \in Tracked /\ (pending[x] > 0 \/ ~Alive(devices_map[x]))

Init ==
  /\ plugs = 0
  /\ present = [n \in Node |-> 0]
  /\ settled = {}
  /\ pending = [t \in Token |-> 0]
  /\ notices = <<>>
  /\ edges = {}
  /\ devices_map = [t \in Token |-> None]
  /\ next_token = 0
  /\ phase = "start"
  /\ events = {}
  /\ names = <<>>
-----------------------------------------------------------------------------
(* The kernel and udev. *)

Watching == phase \notin {"start", "scan", "watch"}

\* IN_CREATE and IN_ATTRIB reach the daemon once it watches the directory.
Notify(n) ==
  IF Watching
  THEN /\ Len(notices) < NoticeBound
       /\ notices' = Append(notices, n)
       /\ edges' = edges \cup {Notices}
  ELSE UNCHANGED <<notices, edges>>

Plug(n) ==
  /\ present[n] = 0
  /\ plugs < LastPlug[n]
  /\ plugs' = plugs + 1
  /\ present' = [present EXCEPT ![n] = plugs']
  /\ settled' = settled \ {n}
  /\ Notify(n)
  /\ UNCHANGED <<pending, loopVars>>

Chmod(n) ==
  /\ present[n] # 0 /\ n \notin settled
  /\ settled' = settled \cup {n}
  /\ Notify(n)
  /\ UNCHANGED <<plugs, present, pending, loopVars>>

ClientsOf(n) ==
  {t \in Tracked : devices_map[t].node = n /\ Alive(devices_map[t])}

\* A hangup wakes the clients; what they have not read is lost to them.
Unplug(n) ==
  /\ present[n] # 0
  /\ present' = [present EXCEPT ![n] = 0]
  /\ edges' = edges \cup ClientsOf(n)
  /\ UNCHANGED <<plugs, settled, pending, notices, loopVars>>

\* The device sends a frame; every frame is an edge.
Send(n) ==
  /\ present[n] # 0
  /\ \A t \in ClientsOf(n) : pending[t] < QueueBound[n]
  /\ pending' = [t \in Token |-> pending[t] + (IF t \in ClientsOf(n) THEN 1 ELSE 0)]
  /\ edges' = edges \cup ClientsOf(n)
  /\ UNCHANGED <<plugs, present, settled, notices, loopVars>>

Kernel == \E n \in Node : Plug(n) \/ Chmod(n) \/ Unplug(n) \/ Send(n)
-----------------------------------------------------------------------------
(* scan_input_devices, try_open_device and the inotify branch of run() *)

NeverTracked(n) == FALSE                          \* fault: opened each time
already_tracked(n) == \E t \in Tracked : devices_map[t].node = n

\* DeviceWrapper::new
Wrapper(n) == [node |-> n, inc |-> present[n]]

NumberTracked == Cardinality(Tracked)             \* fault: tokens reused
NewToken == next_token

\* The wrapper's client starts with an empty queue.
Opened(n) ==
  /\ present[n] # 0
  /\ devices_map' = [devices_map EXCEPT ![NewToken] = Wrapper(n)]
  /\ pending' = [pending EXCEPT ![NewToken] = 0]
  /\ next_token' = next_token + 1

\* The node is gone, or the pointer is grabbed by somebody else.
NotOpened(n) ==
  /\ present[n] = 0 \/ n \in Pointers
  /\ UNCHANGED <<devices_map, pending, next_token>>

\* register() of a hotplugged device fails after it was given its token: the
\* device is closed again.  (A device of the scan that cannot be registered ends
\* the daemon.)
Unregistered(n) ==
  /\ phase = "names" /\ n \in Unregistrable
  /\ present[n] # 0
  /\ next_token' = next_token + 1
  /\ UNCHANGED <<devices_map, pending>>

\* enumerate() lists the nodes there are, in any order.
Scan ==
  /\ phase = "start"
  /\ LET there == {n \in Node : present[n] # 0} IN
       names' \in {s \in [1..Cardinality(there) -> there] :
                     \A n \in there : \E i \in DOMAIN s : s[i] = n}
  /\ phase' = "scan"
  /\ UNCHANGED <<kernelVars, devices_map, next_token, events>>

\* Fault: what could not be registered is tried again.
NamesRetried ==
  IF UNCHANGED devices_map /\ next_token' # next_token THEN names ELSE Tail(names)
NamesLeft == Tail(names)

OpenName ==
  /\ phase \in {"scan", "names"} /\ names # <<>>
  /\ LET n == Head(names) IN
     IF already_tracked(n) THEN UNCHANGED <<devices_map, pending, next_token>>
                           ELSE Opened(n) \/ NotOpened(n) \/ Unregistered(n)
  /\ names' = NamesLeft
  /\ UNCHANGED <<plugs, present, settled, notices, edges, phase, events>>

\* After the scan the uinput device is made and the directory watched; after
\* a list of names the next event is looked at.
EndNames ==
  /\ phase \in {"scan", "names"} /\ names = <<>>
  /\ phase' = IF phase = "scan" THEN "watch" ELSE "loop"
  /\ UNCHANGED <<kernelVars, devices_map, next_token, events, names>>

AddWatch ==
  /\ phase = "watch"
  /\ phase' = "loop"
  /\ UNCHANGED <<kernelVars, devices_map, next_token, events, names>>
-----------------------------------------------------------------------------
(* The loop *)

\* poll(): an edge is reported once, and only if there still is something.
PollReturns ==
  /\ phase = "loop" /\ events = {}
  /\ events' = {x \in edges : Readable(x)}
  /\ events' # {}
  /\ edges' = {}
  /\ UNCHANGED <<plugs, present, settled, pending, notices, devices_map,
                 next_token, phase, names>>

OthersDropped(x) == {}                            \* fault: break for continue
Others(x) == events \ {x}

\* The inotify branch: one read takes all names.
ReadNotices ==
  /\ phase = "loop" /\ Notices \in events
  /\ events' = Others(Notices)
  /\ names' = notices
  /\ notices' = <<>>
  /\ phase' = "names"
  /\ UNCHANGED <<plugs, present, settled, pending, edges, devices_map,
                 next_token>>

RestOfOne(n) == n - 1                             \* fault: one frame a read
Rest(n) == IF n < BatchSize THEN 0 ELSE n - BatchSize

\* fetch_events() of a live device blocks until there is a frame.
Fetch(t) ==
  /\ phase = "loop" /\ t \in events
  /\ Alive(devices_map[t]) /\ pending[t] > 0
  /\ pending' = [pending EXCEPT ![t] = Rest(@)]
  /\ events' = Others(t)
  /\ phase' = "batch"
  /\ UNCHANGED <<plugs, present, settled, notices, edges, devices_map, next_token,
                 names>>

\* Fault: ENODEV is logged like any other error.
OnlyLogged(t) ==
  /\ phase = "loop" /\ t \in events
  /\ ~Alive(devices_map[t])
  /\ events' = Others(t)
  /\ UNCHANGED <<kernelVars, devices_map, next_token, phase, names>>

\* fetch_events() fails with ENODEV; the wrapper and its fd go.
Disconnected(t) ==
  /\ phase = "loop" /\ t \in events
  /\ ~Alive(devices_map[t])
  /\ events' = Others(t)
  /\ devices_map' = [devices_map EXCEPT ![t] = None]
  /\ pending' = [pending EXCEPT ![t] = 0]
  /\ edges' = edges \ {t}
  /\ UNCHANGED <<plugs, present, settled, notices, next_token, phase, names>>

\* process_event() for each event of the batch; its errors are only logged.
ProcessBatch ==
  /\ phase = "batch"
  /\ phase' = "loop"
  /\ UNCHANGED <<kernelVars, devices_map, next_token, events, names>>

Run ==
  \/ Scan \/ OpenName \/ EndNames \/ AddWatch
  \/ PollReturns \/ ReadNotices
  \/ \E t \in Token : Fetch(t) \/ Disconnected(t)
  \/ ProcessBatch

Next == Kernel \/ Run

Spec == Init /\ [][Next]_vars

\* The daemon is one thread that runs whenever it has something to do.
FairSpec == Spec /\ WF_vars(Run)
-----------------------------------------------------------------------------
(* Properties *)

\* What is plugged in, and of which udev has still to set the permissions.
There == {n \in Node : present[n] # 0}
Unsettled == There \ settled

\* Each time a device is plugged in its node is listed by the scan or named by
\* IN_CREATE, and named by IN_ATTRIB; a token is used up by at most one attempt
\* for each, although the device may fail to be registered.
TokensAreNamed ==
  next_token + Len(names) + Len(notices) + Cardinality(Unsettled)
    + (IF phase = "start" THEN Cardinality(There) ELSE 0) <= 2 * plugs

TypeOK ==
  /\ plugs \in 0..MaxPlugs
  /\ present \in [Node -> 0..plugs]
  /\ settled \subseteq Node
  /\ pending \in [Token -> Nat]
  /\ notices \in Seq(Node)
  /\ edges \subseteq Token \cup {Notices}
  /\ \A t \in Tracked : devices_map[t] \in [node : Node, inc : 1..plugs]
  /\ next_token \in Nat /\ TokensAreNamed
  /\ phase \in {"start", "scan", "watch", "loop", "names", "batch"}
  /\ events \subseteq Token \cup {Notices}
  /\ names \in Seq(Node)

\* A node is opened once, although inotify names it twice and it may be
\* plugged in again before its old device is found gone.
OnePerNode ==
  \A t, u \in Tracked : devices_map[t].node = devices_map[u].node => t = u

\* What poll() reported stays readable until it is handled, so that no read
\* blocks the only thread there is.
ReportedIsReadable == \A x \in events : Readable(x)

\* The parts of TypeOK that the invariant below needs.
KernelTypes ==
  /\ plugs \in Nat
  /\ present \in [Node -> 0..plugs]
  /\ pending \in [Token -> Nat]
  /\ notices \in Seq(Node)

MapTypes ==
  /\ DOMAIN devices_map = Token
  /\ \A t \in Tracked : /\ devices_map[t].node \in Node
                        /\ devices_map[t].inc \in 1..plugs
  /\ next_token \in Nat

ListTypes ==
  /\ names \in Seq(Node)
  /\ events \subseteq Token \cup {Notices}

\* Tokens are handed out in increasing order.
TokensBelowNext == \A t \in Tracked : t < next_token

\* Tokens are never reused, a node is behind one of them, and what poll()
\* reported can still be read: inductive, whatever the kernel does meanwhile.
LoopInv ==
  /\ KernelTypes /\ MapTypes /\ ListTypes
  /\ TokensBelowNext
  /\ OnePerNode
  /\ ReportedIsReadable

\* A token never passes from one device to another, and what is tracked is
\* given up only when it is gone.
TokenKeepsDevice ==
  [][\A t \in Tracked :
       IF t \in Tracked'
       THEN /\ devices_map'[t].node = devices_map[t].node
            /\ devices_map'[t].inc = devices_map[t].inc
       ELSE ~Alive(devices_map[t])]_vars

\* The wrapper of node n, as there is one at most.
Gone(n) == \E t \in Tracked : devices_map[t].node = n /\ ~Alive(devices_map[t])
Behind(n) == \E t \in Tracked : devices_map[t].node = n /\ pending[t] > 0

\* A device that vanished is dropped, although inotify does not tell of it.
DeadIsRemoved == \A n \in Node : Gone(n) ~> ~Gone(n)

\* A keyboard named by inotify of which nothing is tracked is opened unless it
\* goes away first, whatever else the same read names: provided that the node of
\* a keyboard that is there can be opened, and its file be registered.
FreshNodeIsOpened ==
  \A n \in Keyboards \ Unregistrable :
    (/\ present[n] # 0 /\ ~already_tracked(n)
     /\ \E i \in 1..Len(notices) : notices[i] = n)
      ~> (already_tracked(n) \/ present[n] = 0)

\* As long as no device falls behind by more than a batch, all it sends is
\* processed although readiness is reported once, and frames may come between
\* the report and the read.
SmallBacklogForwarded ==
  [](\A t \in Token : pending[t] <= BatchSize) =>
    \A n \in Node : Behind(n) ~> ~Behind(n)
=============================================================================
