------------------------------- MODULE Hotplug -------------------------------
(***************************************************************************)
(* Which devices the library tracks (src/backend.rs, src/ffi_types.rs,     *)
(* src/lib.rs): libinput_udev_assign_seat() opens what is there, every     *)
(* libinput_dispatch() first opens the nodes that inotify names and that   *)
(* are not tracked by path, then reads every device, and last drops those  *)
(* whose read failed with ENODEV.                                          *)
(*                                                                         *)
(* Hardware comes and goes between any two steps.  A node's successive     *)
(* devices are its incarnations, numbered from 1; 0 is none.  udev makes a *)
(* node accessible some time after it was created, and both acts put the   *)
(* node's name into the inotify queue (IN_CREATE, IN_ATTRIB).              *)
(***************************************************************************)
EXTENDS Naturals, FiniteSets, SequencesExt

CONSTANTS
  Node,           \* names in /dev/input of pointers and keyboards
  MaxIncarnation, \* bound: devices that appear behind one node
  MaxFd,          \* open files the process may have: RawFds are 1..MaxFd
  MaxDev,         \* bound: LibinputDevice objects created
  None            \* no tracked device

ASSUME HotplugAssumption ==
  /\ IsFiniteSet(Node)
  /\ MaxIncarnation \in Nat \ {0}
  /\ MaxFd \in Nat \ {0}
  /\ MaxDev \in Nat \ {0}
  /\ None \notin [node : Node, inc : 1..MaxIncarnation, dev : 1..MaxDev]

Fd == 1..MaxFd
Dev == 1..MaxDev

VARIABLES
  \* the kernel and udev
  present,     \* present[n]: incarnation behind the node, or 0
  last,        \* last[n]: incarnations so far
  accessible,  \* nodes udev is done with
  inotify,     \* names not yet read, oldest first
  \* BackendState.devices and LibinputContext.devices
  tracked,     \* tracked[fd]: the TrackedDevice of an open fd, or None
  made,        \* devices.len(): LibinputDevice objects created so far
  seated,      \* the client has assigned the seat
  \* locals of drain_into_queue and of assign_seat
  phase,       \* "idle", "scan", "names", "open", "fetch"
  names,       \* what read_events returned and is not filtered yet
  new_paths,   \* nodes still to be opened, in order
  fds,         \* fds the loop has still to visit
  dead_fds,    \* fds whose read failed with ENODEV
  \* what the client has been told (history)
  told, event

kernelVars == <<present, last, accessible, inotify>>
drainVars == <<phase, names, new_paths,
                 fds, dead_fds>>
vars == <<present, last, accessible, inotify, tracked, made, seated, phase,
          names, new_paths, fds, dead_fds, told, event>>

\* What the client was told, as a DeviceStream of the objects created.
Stream == INSTANCE DeviceStream WITH Dev <- Dev, told <- told, event <- event

TrackedDevice == [node : Node, inc : 1..MaxIncarnation, dev : Dev]

Open == {fd \in Fd : tracked[fd] # None}
IsTracked(n) == \E fd \in Open : tracked[fd].node = n
Alive(td) == present[td.node] = td.inc

Init ==
  /\ present \in [Node -> {0, 1}]
  /\ last = present
  /\ accessible = {n \in Node : present[n] = 1}
  /\ inotify = <<>>
  /\ tracked = [fd \in Fd |-> None]
  /\ made = 0
  /\ seated = FALSE
  /\ phase = "idle"
  /\ names = <<>>
  /\ new_paths = <<>>
  /\ fds = {}
  /\ dead_fds = {}
  /\ Stream!Init
-----------------------------------------------------------------------------
(* The kernel and udev (external). *)

Plug(n) ==
  /\ present[n] = 0
  /\ last[n] < MaxIncarnation
  /\ last' = [last EXCEPT ![n] = @ + 1]
  /\ present' = [present EXCEPT ![n] = last'[n]]
  /\ inotify' = Append(inotify, n)
  /\ UNCHANGED <<accessible, tracked, made, seated, drainVars>>

Chmod(n) ==
  /\ present[n] # 0
  /\ n \notin accessible
  /\ accessible' = accessible \cup {n}
  /\ inotify' = Append(inotify, n)
  /\ UNCHANGED <<present, last, tracked, made, seated, drainVars>>

\* The node goes away; reads of its open fds fail with ENODEV from now on.
\* The watch asks for IN_CREATE and IN_ATTRIB only: nothing is queued.
Unplug(n) ==
  /\ present[n] # 0
  /\ present' = [present EXCEPT ![n] = 0]
  /\ accessible' = accessible \ {n}
  /\ UNCHANGED <<last, inotify, tracked, made, seated, drainVars>>

Hardware ==
  /\ \E n \in Node : Plug(n) \/ Chmod(n) \/ Unplug(n)
  /\ Stream!Silent
-----------------------------------------------------------------------------
(* Opening devices *)

\* libinput_udev_assign_seat: every node that exists, in the directory's
\* order, tracked or not.  The client assigns the seat of a context once.
AssignSeat ==
  /\ phase = "idle"
  /\ ~seated
  /\ seated' = TRUE
  /\ phase' = "scan"
  /\ new_paths' \in SetToSeqs({n \in Node : present[n] # 0})
  /\ Stream!Silent
  /\ UNCHANGED <<kernelVars, tracked, made, names, fds, dead_fds>>

\* libinput_dispatch, up to the read of the inotify queue.
Dispatch ==
  /\ phase = "idle"
  /\ phase' = "names"
  /\ names' = inotify
  /\ inotify' = <<>>
  /\ Stream!Silent
  /\ UNCHANGED <<present, last, accessible, tracked, made, seated, new_paths,
                 fds, dead_fds>>

\* handle_hotplug: of the names read, those whose path no tracked device has.
FilterName ==
  /\ names # <<>>
  /\ names' = Tail(names)
  /\ new_paths' = IF IsTracked(Head(names)) THEN new_paths
                                            ELSE Append(new_paths, Head(names))
  /\ Stream!Silent
  /\ UNCHANGED <<kernelVars, tracked, made, seated, phase, fds, dead_fds>>

StartOpening ==
  /\ phase = "names"
  /\ names = <<>>
  /\ phase' = "open"
  /\ Stream!Silent
  /\ UNCHANGED <<kernelVars, tracked, made, seated, names, new_paths, fds,
                 dead_fds>>

\* open_restricted returns the lowest RawFd that is not open; that it is open
\* and tracked already, which try_open tests, cannot happen.
LowestFree(fd) == fd \in Fd \ Open /\ \A f \in Fd \ Open : fd <= f

NumberOpen == Cardinality(Open) + 1               \* fault: objects reused
NewObject == made + 1

TryOpenSucceeds(n) ==
  /\ present[n] # 0
  /\ NewObject \in Dev
  /\ \E fd \in Fd :
       /\ LowestFree(fd)
       /\ tracked' = [tracked EXCEPT ![fd] =
                        [node |-> n, inc |-> present[n], dev |-> NewObject]]
  /\ made' = NewObject
  /\ told' = [told EXCEPT ![NewObject] = "added"]
  /\ event' = Stream!Queued("added", NewObject)

\* The node is gone, not accessible yet, taken by an earlier open of the same
\* client, or there is no fd left (bound: nor an object).
TryOpenFails(n) ==
  /\ \/ present[n] = 0 \/ n \notin accessible \/ IsTracked(n)
     \/ Open = Fd \/ NewObject \notin Dev
  /\ Stream!Silent
  /\ UNCHANGED <<tracked, made>>

TryOpen ==
  /\ phase \in {"scan", "open"}
  /\ new_paths # <<>>
  /\ new_paths' = Tail(new_paths)
  /\ TryOpenSucceeds(Head(new_paths)) \/ TryOpenFails(Head(new_paths))
  /\ UNCHANGED <<kernelVars, seated, phase, names, fds, dead_fds>>

EndScan ==
  /\ phase = "scan"
  /\ new_paths = <<>>
  /\ phase' = "idle"
  /\ Stream!Silent
  /\ UNCHANGED <<kernelVars, tracked, made, seated, names, new_paths,
                 fds, dead_fds>>
-----------------------------------------------------------------------------
(* The rest of drain_into_queue *)

StartReading ==
  /\ phase = "open"
  /\ new_paths = <<>>
  /\ phase' = "fetch"
  /\ fds' = Open
  /\ Stream!Silent
  /\ UNCHANGED <<kernelVars, tracked, made, seated, names, new_paths, dead_fds>>

\* One device of the map: input, nothing, or ENODEV.
Fetch(fd) ==
  /\ phase = "fetch"
  /\ fd \in fds
  /\ fds' = fds \ {fd}
  /\ \/ /\ Alive(tracked[fd])
        /\ event' \in {Stream!Queued("input", tracked[fd].dev), Stream!Quiet}
        /\ UNCHANGED <<told, dead_fds>>
     \/ /\ ~Alive(tracked[fd])
        /\ dead_fds' = dead_fds \cup {fd}
        /\ Stream!Silent
  /\ UNCHANGED <<kernelVars, tracked, made, seated, phase, names, new_paths>>

\* Fault: the entry stays in the map.
RemoveDeadKeepsEntry(fd) ==
  /\ phase = "fetch"
  /\ fds = {}
  /\ fd \in dead_fds
  /\ dead_fds' = dead_fds \ {fd}
  /\ told' = [told EXCEPT ![tracked[fd].dev] = "removed"]
  /\ event' = Stream!Queued("removed", tracked[fd].dev)
  /\ UNCHANGED <<kernelVars, tracked, made, seated, phase, names, new_paths,
                 fds>>
RemoveDead(fd) ==
  /\ phase = "fetch"
  /\ fds = {}
  /\ fd \in dead_fds
  /\ dead_fds' = dead_fds \ {fd}
  /\ tracked' = [tracked EXCEPT ![fd] = None]
  /\ told' = [told EXCEPT ![tracked[fd].dev] = "removed"]
  /\ event' = Stream!Queued("removed", tracked[fd].dev)
  /\ UNCHANGED <<kernelVars, made, seated, phase, names, new_paths,
                 fds>>

EndDrain ==
  /\ phase = "fetch"
  /\ fds = {}
  /\ dead_fds = {}
  /\ phase' = "idle"
  /\ Stream!Silent
  /\ UNCHANGED <<kernelVars, tracked, made, seated, names, new_paths,
                 fds, dead_fds>>
-----------------------------------------------------------------------------
ApiStep ==
  \/ FilterName
  \/ StartOpening
  \/ TryOpen
  \/ EndScan
  \/ StartReading
  \/ \E fd \in Fd : Fetch(fd) \/ RemoveDead(fd)
  \/ EndDrain

Next == Hardware \/ AssignSeat \/ Dispatch \/ ApiStep

Spec == Init /\ [][Next]_vars

\* Faults: the inotify fd, or the devices' hangups, are not polled.
ReadableDevices == \E fd \in Open : ~Alive(tracked[fd])
ReadableInotify == inotify # <<>>

\* The epoll fd is readable although no input waits: register_fd adds the
\* inotify fd and every device.
Readable == inotify # <<>> \/ \E fd \in Open : ~Alive(tracked[fd])

\* The compositor dispatches when the fd is readable and a call runs to its
\* end; nothing is assumed of the hardware.
Fairness == WF_vars(Readable /\ Dispatch) /\ WF_vars(ApiStep)

FairSpec == Spec /\ Fairness
-----------------------------------------------------------------------------
(* Properties *)

TypeOK ==
  /\ present \in [Node -> 0..MaxIncarnation]
  /\ last \in [Node -> 0..MaxIncarnation]
  /\ accessible \subseteq Node
  /\ inotify \in Seq(Node)
  /\ tracked \in [Fd -> TrackedDevice \cup {None}]
  /\ made \in 0..MaxDev
  /\ seated \in BOOLEAN
  /\ phase \in {"idle", "scan", "names", "open", "fetch"}
  /\ names \in Seq(Node)
  /\ new_paths \in Seq(Node)
  /\ fds \subseteq Open
  /\ dead_fds \subseteq Open
  /\ told \in [Dev -> {"new", "added", "removed"}]

\* The map and the client's view agree: the announced and not yet removed
\* device objects are those of the open fds, one object to an fd, and the
\* objects not made yet are the ones that were never announced.
AnnouncedIsTracked ==
  /\ \A fd \in Open : told[tracked[fd].dev] = "added"
  /\ \A fd, f \in Open : tracked[fd].dev = tracked[f].dev => fd = f
  /\ \A d \in Dev : told[d] = "added" => \E fd \in Open : tracked[fd].dev = d
  /\ \A d \in Dev : told[d] = "new" <=> d > made

\* The lists of a call live only as long as the call, and an fd is either
\* still to be read or judged.
ListsOfTheCall ==
  /\ names # <<>> => phase = "names"
  /\ new_paths # <<>> => phase \in {"scan", "names", "open"}
  /\ phase # "fetch" => fds = {} /\ dead_fds = {}
  /\ fds \cap dead_fds = {}

\* Whatever is plugged in meanwhile, hardware once found gone stays gone: a
\* node's new device is never taken for the one an fd was opened on.
DeadStayDead ==
  /\ \A n \in Node : present[n] \in {0, last[n]}
  /\ \A fd \in Open : tracked[fd].inc <= last[tracked[fd].node]
  /\ \A fd \in dead_fds : ~Alive(tracked[fd])

HotplugInv ==
  TypeOK /\ AnnouncedIsTracked /\ ListsOfTheCall /\ DeadStayDead

\* ADDED, then input, then REMOVED, for every device object.
Refines == Stream!Spec

\* A device that vanished is removed, although no inotify event tells of it.
DeadIsRemoved ==
  \A d \in Dev :
    (\E fd \in Open : tracked[fd].dev = d /\ ~Alive(tracked[fd]))
      ~> told[d] = "removed"

\* The device behind the node now is tracked.
Current(n) == \E fd \in Open : tracked[fd].node = n /\ Alive(tracked[fd])

\* An accessible node whose name is in the inotify queue, and of which no
\* device is tracked, is opened unless it goes away first.
FreshNodeIsOpened ==
  \A n \in Node :
    (/\ n \in accessible
     /\ ~IsTracked(n)
     /\ \E i \in 1..Len(inotify) : inotify[i] = n)
      ~> (Current(n) \/ present[n] = 0)

\* README "Hotplug via inotify": a device plugged in is opened, unless it goes
\* away first.
PluggedIsOpened ==
  \A n \in Node :
    (n \in accessible /\ seated) ~> (Current(n) \/ present[n] = 0)
=============================================================================
