--------------------------- MODULE NcDevice_proofs ---------------------------
(***************************************************************************)
(* Proofs about the locks, the monitor's stream and the lists of NcDevice, *)
(* for any number of threads, devices, graphs and fifos: a response goes   *)
(* to the call that asked for it, no call returns with a mutex, and the    *)
(* lists lead to what is allocated.                                        *)
(*                                                                         *)
(* All are false where a call gives up at the wrong moment, so each is     *)
(* proved for the faults that the call survives (Leaves, Leaks, Loses).    *)
(***************************************************************************)
EXTENDS NcDevice, TLAPS

\* A value of the wrong size leaves a response on the stream (GraphOption).
Leaves == {"length"}

\* A device that is not found again, descriptors that are no good, and a graph
\* that the device does not give up make a call return with a mutex
\* (ScanBootDevices, GraphAllocated, GraphDeallocated).
Leaks == {"late", "graphInvalid", "graphDestroyNack"}

DeviceOps == {"deviceOpen", "deviceClose", "deviceDestroy"}
MonitorOps == {"graphAllocate", "graphDestroy", "graphGetOption", "fifoAllocate", "fifoDestroy"}

\* Where a thread is fits the call it makes.
Fits(label, op, e) ==
    /\ label \in {"connect", "scan", "streams"} => op = "deviceOpen"
    /\ label \in {"close", "free"} => op \in {"deviceClose", "deviceDestroy"}
    /\ label \in {"send", "response", "link", "write", "stream", "unlink"} =>
          op \in MonitorOps /\ e \in Elements
    /\ label = "link" => op = "graphAllocate"
    /\ op = "graphAllocate" => e \in Graphs
CallsFit ==
    \A t \in Threads :
        /\ pc[t] = "idle" <=> arg[t] = NoCall
        /\ Fits(pc[t], arg[t].op, arg[t].e)
        /\ arg[t].op = "deviceOpen" => devState[arg[t].d] = "CREATED"

\* No other call is under way on a device that is being opened, closed or freed.
Exclusive ==
    \A t, q \in Threads : t # q /\ arg[t].op \in DeviceOps => arg[q].d # arg[t].d

\* The calls that have the graph monitor of their device.
HasMonitor(t) ==
    \/ pc[t] = "response"
    \/ pc[t] \in {"check", "ask", "answer", "copy"} /\ arg[t].op = "graphAllocate"
MonitorHeld == \A t \in Threads : HasMonitor(t) => mutex[Monitor(arg[t].d)] = t

\* What is on the monitor's streams is the request of the call that has it, or
\* all of its answer.
Request(t) == [op |-> arg[t].op, to |-> t, e |-> arg[t].e]
Answer(t, no) == [msg |-> Request(t), ok |-> ~no]
Answers(t, no) ==
    IF arg[t].op = "graphGetOption" THEN <<Answer(t, no), Answer(t, no)>> ELSE <<Answer(t, no)>>
Serves(d, t) ==
    /\ t \in Threads /\ pc[t] = "response" /\ arg[t].d = d
    /\ \/ requests[d] = <<Request(t)>> /\ responses[d] = <<>>
       \/ /\ requests[d] = <<>>
          /\ \E no \in Refuses(arg[t].op) : responses[d] = Answers(t, no)
InStep ==
    \A d \in Devices : \/ requests[d] = <<>> /\ responses[d] = <<>>
                       \/ Serves(d, mutex[Monitor(d)])

\* The calls that have a mutex.
Holds(t, m) ==
    \/ m = Global /\ (\/ pc[t] \in {"connect", "scan", "close"}
                      \/ pc[t] = "write" /\ arg[t].e \in Graphs)
    \/ m = Stream(arg[t].d) /\ pc[t] = "answer"
    \/ m = Monitor(arg[t].d) /\ (HasMonitor(t) \/ pc[t] = "stuck")
HeldInCalls == \A m \in Mutexes, t \in Threads : mutex[m] = t => Holds(t, m)

Monitored == Faults \cap Leaves = {} => MonitorHeld /\ InStep
Locked == Faults \cap (Leaves \cup Leaks) = {} => HeldInCalls

IInv == TypeOK /\ CallsFit /\ Exclusive /\ Monitored /\ Locked

-----------------------------------------------------------------------------
(* Types *)
\* The places of a thread.
Labels == {"idle", "connect", "scan", "streams", "close", "free", "check", "ask", "answer", "copy",
           "send", "response", "find", "link", "write", "stream", "unlink", "stuck"}
\* The parts of TypeOK.
LocksTyped == mutex \in [Mutexes -> Threads \cup {None}]
HandlesTyped ==
    /\ devices \subseteq Devices
    /\ devState \in [Devices -> {"none", "CREATED", "OPENED", "CLOSED"}]
    /\ usb \in [Devices -> {"rom", "booting", "booted", "renamed", "resetting"}]
ListsTyped ==
    /\ state \in [Elements -> {"none", "CREATED", "ALLOCATED"}]
    /\ dev \in [Elements -> Devices \cup {None}]
    /\ head \in [Lists -> Elements \cup {None}]
    /\ next \in [Elements -> Elements \cup {None}]
ThreadsTyped == pc \in [Threads -> Labels] /\ arg \in [Threads -> Calls]
Responses == [msg : Messages, ok : BOOLEAN]
MonitorTyped ==
    /\ requests \in [Devices -> Seq(Messages)]
    /\ responses \in [Devices -> Seq(Responses)]
    /\ onDevice \in [Devices -> SUBSET Elements]
OptionsTyped ==
    /\ asked \in [Devices -> Seq(Threads)] /\ unread \in [Devices -> Seq(Threads)]
    /\ held \in [Devices -> Seq(Threads)]

\* TypeOK is its parts: the mutexes, the device handles, the lists, the threads,
\* the monitor's streams and the options.
LEMMA TypeParts ==
    TypeOK <=> /\ LocksTyped /\ HandlesTyped /\ ListsTyped /\ ThreadsTyped
               /\ MonitorTyped /\ OptionsTyped
  BY DEF TypeOK, LocksTyped, HandlesTyped, ListsTyped, ThreadsTyped, MonitorTyped,
         OptionsTyped, Labels, Responses

\* The parts of TypeOK after a step make it up again.
LEMMA PartsType ==
    ASSUME LocksTyped', HandlesTyped', ListsTyped', ThreadsTyped', MonitorTyped', OptionsTyped'
    PROVE  TypeOK'
  BY DEF TypeOK, LocksTyped, HandlesTyped, ListsTyped, ThreadsTyped, MonitorTyped,
         OptionsTyped, Labels, Responses

\* A part of TypeOK whose variables a step leaves alone stays.
LEMMA PartsStay ==
    ASSUME TypeOK
    PROVE  /\ mutex' = mutex => LocksTyped'
           /\ devices' = devices /\ devState' = devState /\ usb' = usb => HandlesTyped'
           /\ state' = state /\ dev' = dev /\ head' = head /\ next' = next => ListsTyped'
           /\ pc' = pc /\ arg' = arg => ThreadsTyped'
           /\ requests' = requests /\ responses' = responses /\ onDevice' = onDevice => MonitorTyped'
           /\ asked' = asked /\ unread' = unread /\ held' = held => OptionsTyped'
<1>1. mutex' = mutex => LocksTyped'
  BY TypeParts DEF LocksTyped
<1>2. devices' = devices /\ devState' = devState /\ usb' = usb => HandlesTyped'
  BY TypeParts DEF HandlesTyped
<1>3. state' = state /\ dev' = dev /\ head' = head /\ next' = next => ListsTyped'
  BY TypeParts DEF ListsTyped
<1>4. pc' = pc /\ arg' = arg => ThreadsTyped'
  BY TypeParts DEF ThreadsTyped
<1>5. requests' = requests /\ responses' = responses /\ onDevice' = onDevice => MonitorTyped'
  BY TypeParts DEF MonitorTyped
<1>6. asked' = asked /\ unread' = unread /\ held' = held => OptionsTyped'
  BY TypeParts DEF OptionsTyped
<1>. QED
  BY <1>1, <1>2, <1>3, <1>4, <1>5, <1>6

\* A thread that is not idle is in a call on a device.
LEMMA InCall ==
    ASSUME TypeOK, CallsFit, NEW t \in Threads, pc[t] # "idle"
    PROVE  /\ arg[t].d \in Devices /\ arg[t].op \in Ops /\ arg[t].e \in Elements \cup {None}
           /\ arg[t] = [op |-> arg[t].op, d |-> arg[t].d, e |-> arg[t].e]
<1>1. arg[t] \in [op : Ops, d : Devices, e : Elements \cup {None}]
  BY DEF TypeOK, CallsFit, Calls
<1>. QED
  BY <1>1

\* None is no thread, no device and no element of a list.
LEMMA NoneIsNothing ==
    /\ None \notin Threads /\ None \notin Devices /\ None \notin Elements
    /\ Graphs \subseteq Elements /\ Fifos \subseteq Elements
  BY NcDeviceAssumption DEF Elements

\* The list of an element is one of its device's lists.
LEMMA ListNames ==
    ASSUME NEW d \in Devices, NEW e
    PROVE  List(d, e) \in Lists /\ List(d, e)[1] = d
  BY DEF List, Lists

\* A call that begins leaves the threads typed.
LEMMA DoesCall ==
    ASSUME TypeOK, NEW t \in Threads, NEW op \in Ops, NEW d \in Devices,
           NEW e \in Elements \cup {None}, NEW label \in Labels, Call(t, op, d, e, label)
    PROVE  ThreadsTyped'
<1>1. [op |-> op, d |-> d, e |-> e] \in Calls
  BY DEF Calls
<1>. QED
  BY <1>1, TypeParts DEF ThreadsTyped, Call

\* So does a thread that goes on to a label, or returns.
LEMMA Moves ==
    ASSUME TypeOK, NEW t \in Threads
    PROVE  /\ \A label \in Labels : Goto(t, label) => ThreadsTyped'
           /\ Return(t) => ThreadsTyped'
<1>1. "idle" \in Labels /\ NoCall \in Calls
  BY DEF Labels, Calls
<1>. QED
  BY <1>1, TypeParts DEF ThreadsTyped, Goto, Return

\* What a call sends to the graph monitor is a request.
LEMMA Requested ==
    ASSUME TypeOK, CallsFit, NEW t \in Threads, pc[t] = "send"
    PROVE  [op |-> arg[t].op, to |-> t, e |-> arg[t].e] \in Messages
<1>1. arg[t].op \in Ops /\ arg[t].e \in Elements
  BY InCall DEF CallsFit, Fits
<1>. QED
  BY <1>1 DEF Messages

\* A device on which a call may begin is a device.
LEMMA UsableDevice ==
    ASSUME TypeOK, NEW d, Usable(d)
    PROVE  d \in Devices
  BY DEF TypeOK, Usable

\* Every step keeps TypeOK.
LEMMA TypeStep ==
    ASSUME TypeOK, CallsFit, Next
    PROVE  TypeOK'
<1>1. ASSUME NEW t \in Threads, NEW d \in Devices, ncDeviceCreate(t, d)
       PROVE  TypeOK'
  <2>1. HandlesTyped'
    BY <1>1, TypeParts DEF ncDeviceCreate, HandlesTyped
  <2>. QED
    BY <1>1, <2>1, PartsStay, PartsType
       DEF ncDeviceCreate, locks, lists, elems, threads, monitor, options
<1>2. ASSUME NEW t \in Threads, NEW d \in Devices, ncDeviceOpen(t, d)
       PROVE  TypeOK'
  <2>1. LocksTyped'
    BY <1>2, TypeParts DEF ncDeviceOpen, LocksTyped, Lock
  <2>2. HandlesTyped'
    BY <1>2, TypeParts DEF ncDeviceOpen, HandlesTyped
  <2>3. ThreadsTyped'
    BY <1>2, DoesCall, PartsStay DEF ncDeviceOpen, Labels, Ops, threads
  <2>. QED
    BY <1>2, <2>1, <2>2, <2>3, PartsStay, PartsType
       DEF ncDeviceOpen, lists, elems, monitor, options
<1>3. ASSUME NEW t \in Threads, NEW d \in Devices, ncDeviceDestroy(t, d)
       PROVE  TypeOK'
  <2>1. ThreadsTyped'
    BY <1>3, DoesCall DEF ncDeviceDestroy, Labels, Ops
  <2>. QED
    BY <1>3, <2>1, PartsStay, PartsType
       DEF ncDeviceDestroy, locks, handles, lists, elems, monitor, options
<1>4. ASSUME NEW t \in Threads, NEW d \in Devices, NEW op \in {"deviceClose", "deviceDestroy"}, ncDeviceClose(t, d, op)
       PROVE  TypeOK'
  <2>1. LocksTyped'
    BY <1>4, TypeParts DEF ncDeviceClose, LocksTyped, Lock
  <2>2. HandlesTyped'
    BY <1>4, TypeParts DEF ncDeviceClose, HandlesTyped
  <2>3. ThreadsTyped'
    BY <1>4, DoesCall DEF ncDeviceClose, Labels, Ops
  <2>. QED
    BY <1>4, <2>1, <2>2, <2>3, PartsStay, PartsType
       DEF ncDeviceClose, lists, elems, monitor, options
<1>5. ASSUME NEW t \in Threads, NEW d \in Devices, ncDeviceGetOption(t, d)
       PROVE  TypeOK'
  <2>1. ThreadsTyped'
    BY <1>5, DoesCall DEF ncDeviceGetOption, Labels, Ops
  <2>. QED
    BY <1>5, <2>1, PartsStay, PartsType
       DEF ncDeviceGetOption, locks, handles, lists, elems, monitor, options
<1>6. ASSUME NEW t \in Threads, NEW e \in Elements, Create(t, e)
       PROVE  TypeOK'
  <2>1. ListsTyped'
    BY <1>6, TypeParts DEF Create, ListsTyped
  <2>. QED
    BY <1>6, <2>1, PartsStay, PartsType
       DEF Create, locks, handles, threads, monitor, options
<1>7. ASSUME NEW t \in Threads, NEW e \in Elements, DestroyCreated(t, e)
       PROVE  TypeOK'
  <2>1. ListsTyped'
    BY <1>7, TypeParts DEF DestroyCreated, ListsTyped, lists
  <2>. QED
    BY <1>7, <2>1, PartsStay, PartsType
       DEF DestroyCreated, locks, handles, threads, monitor, options
<1>8. ASSUME NEW t \in Threads, NEW g \in Graphs, ncGraphDestroy(t, g)
       PROVE  TypeOK'
  <2>1. ThreadsTyped'
    BY <1>8, NoneIsNothing, DoesCall, UsableDevice DEF ncGraphDestroy, Labels, Ops
  <2>. QED
    BY <1>8, <2>1, PartsStay, PartsType
       DEF ncGraphDestroy, locks, handles, lists, elems, monitor, options
<1>9. ASSUME NEW t \in Threads, NEW g \in Graphs, ncGraphGetOption(t, g)
       PROVE  TypeOK'
  <2>1. ThreadsTyped'
    BY <1>9, NoneIsNothing, DoesCall, UsableDevice DEF ncGraphGetOption, Labels, Ops
  <2>. QED
    BY <1>9, <2>1, PartsStay, PartsType
       DEF ncGraphGetOption, locks, handles, lists, elems, monitor, options
<1>10. ASSUME NEW t \in Threads, NEW g \in Graphs, NEW d \in Devices, ncGraphAllocate(t, g, d)
       PROVE  TypeOK'
  <2>1. ThreadsTyped'
    BY <1>10, NoneIsNothing, DoesCall, PartsStay
       DEF ncGraphAllocate, Labels, Ops, threads
  <2>. QED
    BY <1>10, <2>1, PartsStay, PartsType
       DEF ncGraphAllocate, locks, handles, lists, elems, monitor, options
<1>11. ASSUME NEW t \in Threads, NEW f \in Fifos, ncFifoDestroy(t, f)
       PROVE  TypeOK'
  <2>1. ThreadsTyped'
    BY <1>11, NoneIsNothing, DoesCall, UsableDevice DEF ncFifoDestroy, Labels, Ops
  <2>. QED
    BY <1>11, <2>1, PartsStay, PartsType
       DEF ncFifoDestroy, locks, handles, lists, elems, monitor, options
<1>12. ASSUME NEW t \in Threads, NEW f \in Fifos, NEW d \in Devices, ncFifoAllocate(t, f, d)
       PROVE  TypeOK'
  <2>1. ListsTyped'
    BY <1>12, TypeParts, ListNames DEF ncFifoAllocate, ListsTyped
  <2>2. ThreadsTyped'
    BY <1>12, NoneIsNothing, DoesCall DEF ncFifoAllocate, Labels, Ops
  <2>. QED
    BY <1>12, <2>1, <2>2, PartsStay, PartsType
       DEF ncFifoAllocate, locks, handles, monitor, options
<1>13. ASSUME NEW t \in Threads, XLinkConnect(t)
       PROVE  TypeOK'
  <2>0. pc[t] # "idle" /\ arg[t].d \in Devices /\ arg[t].op \in Ops /\ arg[t].e \in Elements \cup {None}
    BY <1>13, InCall DEF XLinkConnect
  <2>1. LocksTyped'
    BY <1>13, TypeParts DEF XLinkConnect, LocksTyped, Linked
  <2>2. HandlesTyped'
    BY <1>13, <2>0, TypeParts DEF XLinkConnect, HandlesTyped, Linked
  <2>3. ThreadsTyped'
    BY <1>13, Moves DEF XLinkConnect, Labels
  <2>. QED
    BY <1>13, <2>1, <2>2, <2>3, PartsStay, PartsType
       DEF XLinkConnect, lists, elems, monitor, options
<1>14. ASSUME NEW t \in Threads, ScanBootDevices(t)
       PROVE  TypeOK'
  <2>0. pc[t] # "idle" /\ arg[t].d \in Devices /\ arg[t].op \in Ops /\ arg[t].e \in Elements \cup {None}
    BY <1>14, InCall DEF ScanBootDevices
  <2>1. LocksTyped'
    BY <1>14, TypeParts DEF ScanBootDevices, LocksTyped, Linked
  <2>2. HandlesTyped'
    BY <1>14, <2>0, TypeParts DEF ScanBootDevices, HandlesTyped, Linked
  <2>3. ThreadsTyped'
    BY <1>14, Moves DEF ScanBootDevices, Labels
  <2>. QED
    BY <1>14, <2>1, <2>2, <2>3, PartsStay, PartsType
       DEF ScanBootDevices, lists, elems, monitor, options
<1>15. ASSUME NEW t \in Threads, OpenDeviceMonitor(t)
       PROVE  TypeOK'
  <2>0. pc[t] # "idle" /\ arg[t].d \in Devices /\ arg[t].op \in Ops /\ arg[t].e \in Elements \cup {None}
    BY <1>15, InCall DEF OpenDeviceMonitor
  <2>1. ThreadsTyped'
    BY <1>15, Moves DEF OpenDeviceMonitor, Labels
  <2>. QED
    BY <1>15, <2>1, PartsStay, PartsType
       DEF OpenDeviceMonitor, locks, handles, lists, elems, monitor, options
<1>16. ASSUME NEW t \in Threads, DeallocateAll(t)
       PROVE  TypeOK'
  <2>0. pc[t] # "idle" /\ arg[t].d \in Devices /\ arg[t].op \in Ops /\ arg[t].e \in Elements \cup {None}
    BY <1>16, InCall DEF DeallocateAll
  <2>1. LocksTyped'
    BY <1>16, TypeParts DEF DeallocateAll, LocksTyped
  <2>2. HandlesTyped'
    BY <1>16, TypeParts DEF DeallocateAll, HandlesTyped
  <2>3. ListsTyped'
    BY <1>16, TypeParts DEF DeallocateAll, ListsTyped
  <2>4. ThreadsTyped'
    BY <1>16, Moves DEF DeallocateAll, Labels
  <2>5. MonitorTyped'
    BY <1>16, TypeParts, PartsStay DEF DeallocateAll, MonitorTyped
  <2>6. OptionsTyped'
    BY <1>16, TypeParts, PartsStay DEF DeallocateAll, OptionsTyped
  <2>. QED
    BY <2>1, <2>2, <2>3, <2>4, <2>5, <2>6, PartsType
<1>17. ASSUME NEW t \in Threads, FreeDevice(t)
       PROVE  TypeOK'
  <2>0. pc[t] # "idle" /\ arg[t].d \in Devices /\ arg[t].op \in Ops /\ arg[t].e \in Elements \cup {None}
    BY <1>17, InCall DEF FreeDevice
  <2>1. HandlesTyped'
    BY <1>17, TypeParts DEF FreeDevice, HandlesTyped
  <2>2. ThreadsTyped'
    BY <1>17, Moves DEF FreeDevice
  <2>. QED
    BY <1>17, <2>1, <2>2, PartsStay, PartsType
       DEF FreeDevice, locks, lists, elems, monitor, options
<1>18. ASSUME NEW t \in Threads, CheckDevice(t)
       PROVE  TypeOK'
  <2>0. pc[t] # "idle" /\ arg[t].d \in Devices /\ arg[t].op \in Ops /\ arg[t].e \in Elements \cup {None}
    BY <1>18, InCall DEF CheckDevice
  <2>1. ThreadsTyped'
    BY <1>18, Moves DEF CheckDevice, Labels
  <2>. QED
    BY <1>18, <2>1, PartsStay, PartsType
       DEF CheckDevice, locks, handles, lists, elems, monitor, options
<1>19. ASSUME NEW t \in Threads, AskDevice(t)
       PROVE  TypeOK'
  <2>0. pc[t] # "idle" /\ arg[t].d \in Devices /\ arg[t].op \in Ops /\ arg[t].e \in Elements \cup {None}
    BY <1>19, InCall DEF AskDevice
  <2>1. LocksTyped'
    BY <1>19, TypeParts DEF AskDevice, LocksTyped, Lock
  <2>2. ThreadsTyped'
    BY <1>19, Moves DEF AskDevice, Labels
  <2>3. OptionsTyped'
    BY <1>19, TypeParts, PartsStay DEF AskDevice, OptionsTyped
  <2>. QED
    BY <1>19, <2>1, <2>2, <2>3, PartsStay, PartsType
       DEF AskDevice, handles, lists, elems, monitor
<1>20. ASSUME NEW t \in Threads, ReadAnswer(t)
       PROVE  TypeOK'
  <2>0. pc[t] # "idle" /\ arg[t].d \in Devices /\ arg[t].op \in Ops /\ arg[t].e \in Elements \cup {None}
    BY <1>20, InCall DEF ReadAnswer
  <2>1. LocksTyped'
    BY <1>20, TypeParts DEF ReadAnswer, LocksTyped, Unlock
  <2>2. ThreadsTyped'
    BY <1>20, Moves DEF ReadAnswer, Labels
  <2>3. OptionsTyped'
    BY <1>20, TypeParts, PartsStay DEF ReadAnswer, OptionsTyped
  <2>. QED
    BY <1>20, <2>1, <2>2, <2>3, PartsStay, PartsType
       DEF ReadAnswer, handles, lists, elems, monitor
<1>21. ASSUME NEW t \in Threads, CopyAnswer(t)
       PROVE  TypeOK'
  <2>0. pc[t] # "idle" /\ arg[t].d \in Devices /\ arg[t].op \in Ops /\ arg[t].e \in Elements \cup {None}
    BY <1>21, InCall DEF CopyAnswer
  <2>1. LocksTyped'
    BY <1>21, TypeParts DEF CopyAnswer, LocksTyped, Unlock
  <2>2. HandlesTyped'
    BY <1>21, TypeParts DEF CopyAnswer, HandlesTyped
  <2>3. ThreadsTyped'
    BY <1>21, Moves DEF CopyAnswer
  <2>4. OptionsTyped'
    BY <1>21, TypeParts, PartsStay DEF CopyAnswer, OptionsTyped
  <2>. QED
    BY <1>21, <2>1, <2>2, <2>3, <2>4, PartsStay, PartsType
       DEF CopyAnswer, lists, elems, monitor
<1>22. ASSUME NEW t \in Threads, sendGraphMonitorRequest(t)
       PROVE  TypeOK'
  <2>0. pc[t] # "idle" /\ arg[t].d \in Devices /\ arg[t].op \in Ops /\ arg[t].e \in Elements \cup {None}
    BY <1>22, InCall DEF sendGraphMonitorRequest
  <2>1. LocksTyped'
    BY <1>22, TypeParts DEF sendGraphMonitorRequest, LocksTyped, Lock
  <2>2. ThreadsTyped'
    BY <1>22, Moves DEF sendGraphMonitorRequest, Labels
  <2>3. MonitorTyped'
    <3>1. [op |-> arg[t].op, to |-> t, e |-> arg[t].e] \in Messages
      BY <1>22, Requested DEF sendGraphMonitorRequest
    <3>2. \A s \in Seq(Messages), m \in Messages : Append(s, m) \in Seq(Messages)
      OBVIOUS
    <3>3. /\ responses' = responses /\ onDevice' = onDevice
          /\ \/ requests' = requests
             \/ requests' = [requests EXCEPT ![arg[t].d] =
                               Append(@, [op |-> arg[t].op, to |-> t, e |-> arg[t].e])]
      BY <1>22 DEF sendGraphMonitorRequest
    <3>. DEFINE m == [op |-> arg[t].op, to |-> t, e |-> arg[t].e]
    <3>. HIDE DEF m
    <3>4. requests' \in [Devices -> Seq(Messages)]
      <4>1. m \in Messages /\ (requests' = requests \/ requests' = [requests EXCEPT ![arg[t].d] = Append(@, m)])
        BY <3>1, <3>3 DEF m
      <4>2. requests \in [Devices -> Seq(Messages)] /\ arg[t].d \in Devices
        BY <2>0, TypeParts DEF MonitorTyped
      <4>3. Append(requests[arg[t].d], m) \in Seq(Messages)
        BY <4>1, <4>2
      <4>. QED
        BY <4>1, <4>2, <4>3
    <3>. QED
      BY <3>3, <3>4, TypeParts DEF MonitorTyped
  <2>. QED
    BY <1>22, <2>1, <2>2, <2>3, PartsStay, PartsType
       DEF sendGraphMonitorRequest, handles, lists, elems, options
<1>23. ASSUME NEW t \in Threads, GraphAllocated(t)
       PROVE  TypeOK'
  <2>0. pc[t] # "idle" /\ arg[t].d \in Devices /\ arg[t].op \in Ops /\ arg[t].e \in Elements \cup {None}
    BY <1>23, InCall DEF GraphAllocated, At, Response
  <2>1. LocksTyped'
    BY <1>23, TypeParts DEF GraphAllocated, LocksTyped, Unlock
  <2>2. ThreadsTyped'
    BY <1>23, Moves DEF GraphAllocated, Labels
  <2>3. MonitorTyped'
    BY <1>23, TypeParts, PartsStay DEF GraphAllocated, MonitorTyped, Response
  <2>. QED
    BY <1>23, <2>1, <2>2, <2>3, PartsStay, PartsType
       DEF GraphAllocated, Response, handles, lists, elems, options
<1>24. ASSUME NEW t \in Threads, GraphUnsupported(t)
       PROVE  TypeOK'
  <2>0. pc[t] # "idle" /\ arg[t].d \in Devices /\ arg[t].op \in Ops /\ arg[t].e \in Elements \cup {None}
    BY <1>24, InCall DEF GraphUnsupported, At, Response
  <2>1. LocksTyped'
    BY <1>24, TypeParts DEF GraphUnsupported, LocksTyped, Unlock
  <2>2. ThreadsTyped'
    BY <1>24, Moves DEF GraphUnsupported
  <2>3. MonitorTyped'
    BY <1>24, TypeParts, PartsStay DEF GraphUnsupported, MonitorTyped, Response
  <2>. QED
    BY <1>24, <2>1, <2>2, <2>3, PartsStay, PartsType
       DEF GraphUnsupported, Response, handles, lists, elems, options
<1>25. ASSUME NEW t \in Threads, LinkGraph(t)
       PROVE  TypeOK'
  <2>0. pc[t] # "idle" /\ arg[t].d \in Devices /\ arg[t].op \in Ops /\ arg[t].e \in Elements \cup {None}
    BY <1>25, InCall DEF LinkGraph
  <2>1. LocksTyped'
    BY <1>25, TypeParts DEF LinkGraph, LocksTyped, Lock
  <2>2. ListsTyped'
    BY <1>25, <2>0, TypeParts, ListNames DEF LinkGraph, ListsTyped
  <2>3. ThreadsTyped'
    BY <1>25, Moves DEF LinkGraph, Labels
  <2>. QED
    BY <1>25, <2>1, <2>2, <2>3, PartsStay, PartsType
       DEF LinkGraph, handles, monitor, options
<1>26. ASSUME NEW t \in Threads, WriteHead(t)
       PROVE  TypeOK'
  <2>0. pc[t] # "idle" /\ arg[t].d \in Devices /\ arg[t].op \in Ops /\ arg[t].e \in Elements \cup {None}
    BY <1>26, InCall DEF WriteHead
  <2>1. LocksTyped'
    BY <1>26, TypeParts DEF WriteHead, LocksTyped, Unlock
  <2>2. ListsTyped'
    BY <1>26, <2>0, TypeParts DEF WriteHead, ListsTyped
  <2>3. ThreadsTyped'
    BY <1>26, Moves DEF WriteHead, Labels
  <2>. QED
    BY <1>26, <2>1, <2>2, <2>3, PartsStay, PartsType
       DEF WriteHead, handles, monitor, options
<1>27. ASSUME NEW t \in Threads, OpenFifoStream(t)
       PROVE  TypeOK'
  <2>0. pc[t] # "idle" /\ arg[t].d \in Devices /\ arg[t].op \in Ops /\ arg[t].e \in Elements \cup {None}
    BY <1>27, InCall DEF OpenFifoStream
  <2>1. ThreadsTyped'
    BY <1>27, Moves DEF OpenFifoStream, Labels
  <2>. QED
    BY <1>27, <2>1, PartsStay, PartsType
       DEF OpenFifoStream, locks, handles, lists, elems, monitor, options
<1>28. ASSUME NEW t \in Threads, FifoAllocated(t)
       PROVE  TypeOK'
  <2>0. pc[t] # "idle" /\ arg[t].d \in Devices /\ arg[t].op \in Ops /\ arg[t].e \in Elements \cup {None}
    BY <1>28, InCall DEF FifoAllocated, At, Response
  <2>1. LocksTyped'
    BY <1>28, TypeParts DEF FifoAllocated, LocksTyped, Unlock
  <2>2. ListsTyped'
    BY <1>28, TypeParts DEF FifoAllocated, ListsTyped, lists
  <2>3. ThreadsTyped'
    BY <1>28, Moves DEF FifoAllocated
  <2>4. MonitorTyped'
    BY <1>28, TypeParts, PartsStay DEF FifoAllocated, MonitorTyped, Response
  <2>. QED
    BY <1>28, <2>1, <2>2, <2>3, <2>4, PartsStay, PartsType
       DEF FifoAllocated, Response, handles, options
<1>29. ASSUME NEW t \in Threads, GraphDeallocated(t)
       PROVE  TypeOK'
  <2>0. pc[t] # "idle" /\ arg[t].d \in Devices /\ arg[t].op \in Ops /\ arg[t].e \in Elements \cup {None}
    BY <1>29, InCall DEF GraphDeallocated, At, Response
  <2>1. LocksTyped'
    BY <1>29, TypeParts DEF GraphDeallocated, LocksTyped, Unlock
  <2>2. ThreadsTyped'
    BY <1>29, Moves DEF GraphDeallocated, Labels
  <2>3. MonitorTyped'
    BY <1>29, TypeParts, PartsStay DEF GraphDeallocated, MonitorTyped, Response
  <2>. QED
    BY <1>29, <2>1, <2>2, <2>3, PartsStay, PartsType
       DEF GraphDeallocated, Response, handles, lists, elems, options
<1>30. ASSUME NEW t \in Threads, FifoDeallocated(t)
       PROVE  TypeOK'
  <2>0. pc[t] # "idle" /\ arg[t].d \in Devices /\ arg[t].op \in Ops /\ arg[t].e \in Elements \cup {None}
    BY <1>30, InCall DEF FifoDeallocated, At, Response
  <2>1. LocksTyped'
    BY <1>30, TypeParts DEF FifoDeallocated, LocksTyped, Unlock
  <2>2. ThreadsTyped'
    BY <1>30, Moves DEF FifoDeallocated, Labels
  <2>3. MonitorTyped'
    BY <1>30, TypeParts, PartsStay DEF FifoDeallocated, MonitorTyped, Response
  <2>. QED
    BY <1>30, <2>1, <2>2, <2>3, PartsStay, PartsType
       DEF FifoDeallocated, Response, handles, lists, elems, options
<1>31. ASSUME NEW t \in Threads, GraphOption(t)
       PROVE  TypeOK'
  <2>0. pc[t] # "idle" /\ arg[t].d \in Devices /\ arg[t].op \in Ops /\ arg[t].e \in Elements \cup {None}
    BY <1>31, InCall DEF GraphOption, At
  <2>1. LocksTyped'
    BY <1>31, TypeParts DEF GraphOption, LocksTyped, Unlock
  <2>2. ThreadsTyped'
    BY <1>31, Moves DEF GraphOption
  <2>3. MonitorTyped'
    <3>1. responses[arg[t].d] \in Seq(Responses)
      BY <2>0, TypeParts DEF MonitorTyped
    <3>2. Tail(responses[arg[t].d]) \in Seq(Responses) /\ Tail(Tail(responses[arg[t].d])) \in Seq(Responses)
      <4>1. \A s \in Seq(Responses) : Len(s) >= 1 => Tail(s) \in Seq(Responses) /\ Len(Tail(s)) = Len(s) - 1
        OBVIOUS
      <4>2. Len(responses[arg[t].d]) \in Nat /\ Len(responses[arg[t].d]) >= 2
        BY <1>31 DEF GraphOption
      <4>3. Tail(responses[arg[t].d]) \in Seq(Responses) /\ Len(Tail(responses[arg[t].d])) >= 1
        BY <3>1, <4>2
      <4>. QED
        BY <4>3
    <3>3. responses' \in [Devices -> Seq(Responses)]
      BY <1>31, <3>2, TypeParts DEF GraphOption, MonitorTyped
    <3>. QED
      BY <1>31, <3>3, TypeParts DEF GraphOption, MonitorTyped
  <2>. QED
    BY <1>31, <2>1, <2>2, <2>3, PartsStay, PartsType
       DEF GraphOption, handles, lists, elems, options
<1>32. ASSUME NEW t \in Threads, Deallocate(t)
       PROVE  TypeOK'
  <2>0. pc[t] # "idle" /\ arg[t].d \in Devices /\ arg[t].op \in Ops /\ arg[t].e \in Elements \cup {None}
    BY <1>32, InCall DEF Deallocate
  <2>1. ListsTyped'
    <3>1. arg[t].e \in Elements
      BY <1>32 DEF Deallocate, CallsFit, Fits
    <3>. QED
      BY <1>32, <3>1, TypeParts DEF Deallocate, ListsTyped, Unlink
  <2>2. ThreadsTyped'
    BY <1>32, Moves DEF Deallocate
  <2>. QED
    BY <1>32, <2>1, <2>2, PartsStay, PartsType
       DEF Deallocate, locks, handles, monitor, options
<1>33. ASSUME NEW d \in Devices, Boots(d)
       PROVE  TypeOK'
  <2>1. HandlesTyped'
    BY <1>33, TypeParts DEF Boots, HandlesTyped
  <2>. QED
    BY <1>33, <2>1, PartsStay, PartsType
       DEF Boots, locks, lists, elems, threads, monitor, options
<1>34. ASSUME NEW d \in Devices, ReEnumerates(d)
       PROVE  TypeOK'
  <2>1. HandlesTyped'
    BY <1>34, TypeParts DEF ReEnumerates, HandlesTyped
  <2>. QED
    BY <1>34, <2>1, PartsStay, PartsType
       DEF ReEnumerates, locks, lists, elems, threads, monitor, options
<1>35. ASSUME NEW d \in Devices, MonitorExecutes(d)
       PROVE  TypeOK'
  <2>1. MonitorTyped'
    <3>1. requests[d] \in Seq(Messages) /\ requests[d] # <<>> /\ responses[d] \in Seq(Responses)
      BY <1>35, TypeParts DEF MonitorExecutes, MonitorTyped
    <3>2. Head(requests[d]) \in Messages /\ Tail(requests[d]) \in Seq(Messages)
      BY <3>1
    <3>3. Head(requests[d]).e \in Elements
      BY <3>2 DEF Messages
    <3>4. \A no \in BOOLEAN : [msg |-> Head(requests[d]), ok |-> ~no] \in Responses
      BY <3>2 DEF Responses
    <3>5. \A op : Refuses(op) \subseteq BOOLEAN
      BY DEF Refuses, Outcome
    <3>6. \A a \in Responses : <<a>> \in Seq(Responses) /\ <<a, a>> \in Seq(Responses)
      OBVIOUS
    <3>7. requests' \in [Devices -> Seq(Messages)]
      BY <1>35, TypeParts DEF MonitorExecutes, MonitorTyped
    <3>8. responses' \in [Devices -> Seq(Responses)]
      BY <1>35, <3>4, <3>5, TypeParts DEF MonitorExecutes, MonitorTyped
    <3>9. onDevice' \in [Devices -> SUBSET Elements]
      BY <1>35, <3>3, TypeParts DEF MonitorExecutes, MonitorTyped
    <3>. QED
      BY <3>7, <3>8, <3>9 DEF MonitorTyped
  <2>. QED
    BY <1>35, <2>1, PartsStay, PartsType
       DEF MonitorExecutes, locks, handles, lists, elems, threads, options
<1>36. ASSUME NEW d \in Devices, MonitorAnswers(d)
       PROVE  TypeOK'
  <2>1. OptionsTyped'
    BY <1>36, TypeParts DEF MonitorAnswers, OptionsTyped
  <2>. QED
    BY <1>36, <2>1, PartsStay, PartsType
       DEF MonitorAnswers, locks, handles, lists, elems, threads, monitor
<1>. QED
  BY <1>1, <1>2, <1>3, <1>4, <1>5, <1>6, <1>7, <1>8, <1>9, <1>10, <1>11, <1>12,
     <1>13, <1>14, <1>15, <1>16, <1>17, <1>18, <1>19, <1>20, <1>21, <1>22, <1>23,
     <1>24, <1>25, <1>26, <1>27, <1>28, <1>29, <1>30, <1>31, <1>32, <1>33, <1>34,
     <1>35, <1>36
     DEF Next, Begin, Step, Device

-----------------------------------------------------------------------------
(* Calls and devices *)
\* Only the device of its own call.
\* A thread changes only the device of its call, and only when the call opens,
\* closes or frees it.
OnlyOwn(t) == \A d \in Devices : devState'[d] # devState[d] => arg[t].d = d /\ arg[t].op \in DeviceOps

\* An idle thread has no call.
LEMMA Idle ==
    ASSUME CallsFit, NEW t \in Threads
    PROVE  /\ pc[t] = "idle" => arg[t] = NoCall
           /\ NoCall.d = None /\ NoCall.op = "none"
  BY DEF CallsFit, NoCall

\* A device that another thread opens stays CREATED when a thread changes only the
\* device of its own call.
LEMMA Others ==
    ASSUME TypeOK, CallsFit, Exclusive, NEW t \in Threads, OnlyOwn(t)
    PROVE  \A q \in Threads \ {t} : arg[q].op = "deviceOpen" => devState'[arg[q].d] = "CREATED"
<1> SUFFICES ASSUME NEW q \in Threads \ {t}, arg[q].op = "deviceOpen"
             PROVE  devState'[arg[q].d] = "CREATED"
  OBVIOUS
<1>1. pc[q] # "idle" /\ arg[q].d \in Devices
  BY InCall, Idle
<1>2. devState[arg[q].d] = "CREATED"
  BY DEF CallsFit
<1>3. arg[t].op \in DeviceOps => arg[t].d # arg[q].d
  BY DEF Exclusive
<1>. QED
  BY <1>1, <1>2, <1>3 DEF OnlyOwn

\* A thread that goes on within its call fits it, and calls that have their device
\* alone keep it so.
LEMMA GotoFits ==
    ASSUME TypeOK, CallsFit, Exclusive, NEW t \in Threads, pc[t] # "idle",
           NEW label \in Labels, Goto(t, label), label # "idle",
           Fits(label, arg[t].op, arg[t].e),
           OnlyOwn(t), arg[t].op = "deviceOpen" => devState' = devState
    PROVE  CallsFit' /\ Exclusive'
<1>1. arg' = arg /\ pc'[t] = label /\ \A q \in Threads \ {t} : pc'[q] = pc[q]
  BY DEF Goto, TypeOK
<1>2. Exclusive'
  BY <1>1 DEF Exclusive
<1>3. \A q \in Threads : arg[q].op = "deviceOpen" => devState'[arg[q].d] = "CREATED"
  BY Others DEF CallsFit
<1>4. \A q \in Threads : /\ pc'[q] = "idle" <=> arg[q] = NoCall
                         /\ Fits(pc'[q], arg[q].op, arg[q].e)
  BY <1>1 DEF CallsFit
<1>. QED
  BY <1>1, <1>2, <1>3 DEF CallsFit

\* The same of a thread that returns,
LEMMA ReturnFits ==
    ASSUME TypeOK, CallsFit, Exclusive, NEW t \in Threads, Return(t), OnlyOwn(t)
    PROVE  CallsFit' /\ Exclusive'
<1>1. /\ pc'[t] = "idle" /\ arg'[t] = NoCall
      /\ \A q \in Threads \ {t} : pc'[q] = pc[q] /\ arg'[q] = arg[q]
  BY DEF Return, TypeOK
<1>2. Exclusive'
  <2>1. \A q \in Threads \ {t} : arg[q] # NoCall => arg[q].d # None
    BY InCall, Idle, NoneIsNothing
  <2>2. NoCall.op \notin DeviceOps /\ NoCall.d = None
    BY DEF NoCall, DeviceOps
  <2>3. \A q \in Threads \ {t} : arg[q].op \in DeviceOps => arg[q].d # None
    BY <2>1, <2>2
  <2>. QED
    BY <1>1, <2>2, <2>3 DEF Exclusive
<1>3. \A q \in Threads : arg'[q].op = "deviceOpen" => devState'[arg'[q].d] = "CREATED"
  BY <1>1, Others DEF NoCall
<1>4. \A q \in Threads : /\ pc'[q] = "idle" <=> arg'[q] = NoCall
                         /\ Fits(pc'[q], arg'[q].op, arg'[q].e)
  <2>1. Fits("idle", NoCall.op, NoCall.e)
    BY DEF Fits, NoCall
  <2>. QED
    BY <1>1, <2>1 DEF CallsFit
<1>. QED
  BY <1>2, <1>3, <1>4 DEF CallsFit

\* of one that begins a call, when nobody is in the way,
LEMMA CallFits ==
    ASSUME TypeOK, CallsFit, Exclusive, NEW t \in Threads, pc[t] = "idle", devState' = devState,
           NEW op \in Ops, NEW d \in Devices, NEW e \in Elements \cup {None}, NEW label \in Labels,
           Call(t, op, d, e, label), label # "idle", Fits(label, op, e),
           op = "deviceOpen" => devState[d] = "CREATED",
           \A q \in Threads : arg[q].d = d => op \notin DeviceOps /\ arg[q].op \notin DeviceOps
    PROVE  CallsFit' /\ Exclusive'
<1>1. /\ pc'[t] = label /\ arg'[t] = [op |-> op, d |-> d, e |-> e]
      /\ \A q \in Threads \ {t} : pc'[q] = pc[q] /\ arg'[q] = arg[q]
  BY DEF Call, TypeOK
<1>2. Exclusive'
  BY <1>1 DEF Exclusive
<1>3. \A q \in Threads : arg'[q].op = "deviceOpen" => devState'[arg'[q].d] = "CREATED"
  BY <1>1 DEF CallsFit
<1>4. arg'[t] # NoCall
  BY <1>1, NoneIsNothing DEF NoCall
<1>5. \A q \in Threads : /\ pc'[q] = "idle" <=> arg'[q] = NoCall
                         /\ Fits(pc'[q], arg'[q].op, arg'[q].e)
  BY <1>1, <1>4 DEF CallsFit
<1>. QED
  BY <1>2, <1>3, <1>5 DEF CallsFit

\* and of a step that moves no thread and changes no device.
LEMMA NobodyMoves ==
    ASSUME CallsFit, Exclusive, pc' = pc, arg' = arg, devState' = devState
    PROVE  CallsFit' /\ Exclusive'
  BY DEF CallsFit, Exclusive

\* An unused device has no call; a usable one has none that opens, closes or frees it.
LEMMA NobodyElse ==
    ASSUME TypeOK, CallsFit, NEW d \in Devices
    PROVE  /\ Unused(d) => \A q \in Threads : arg[q].d # d
           /\ Usable(d) => \A q \in Threads : arg[q].d = d => arg[q].op \notin DeviceOps
  BY DEF Unused, Usable, CallsFit, DeviceOps

\* Every step keeps the threads within their calls, and the device of a call that
\* opens, closes or frees it from the others.
LEMMA FitStep ==
    ASSUME TypeOK, CallsFit, Exclusive, Next
    PROVE  CallsFit' /\ Exclusive'
<1>1. ASSUME NEW t \in Threads, NEW d \in Devices, ncDeviceCreate(t, d)
       PROVE  CallsFit' /\ Exclusive'
  BY <1>1 DEF ncDeviceCreate, CallsFit, Exclusive, threads
<1>2. ASSUME NEW t \in Threads, NEW d \in Devices, ncDeviceOpen(t, d)
       PROVE  CallsFit' /\ Exclusive'
  <2>1. (pc' = pc /\ arg' = arg) \/ Call(t, "deviceOpen", d, None, "connect")
    BY <1>2 DEF ncDeviceOpen, threads
  <2>2. /\ pc[t] = "idle" /\ devState' = devState
        /\ devState[d] = "CREATED" /\ Unused(d)
    BY <1>2 DEF ncDeviceOpen, Quiet
  <2>3. CASE pc' = pc /\ arg' = arg
    BY <2>2, <2>3, NobodyMoves
  <2>4. CASE Call(t, "deviceOpen", d, None, "connect")
    BY <2>2, <2>4, CallFits, NobodyElse DEF Fits, Labels, Ops
  <2>. QED
    BY <2>1, <2>3, <2>4
<1>3. ASSUME NEW t \in Threads, NEW d \in Devices, ncDeviceDestroy(t, d)
       PROVE  CallsFit' /\ Exclusive'
  BY <1>3, CallFits, NobodyElse
     DEF ncDeviceDestroy, Fits, Labels, Ops, Quiet, handles
<1>4. ASSUME NEW t \in Threads, NEW d \in Devices, NEW op \in {"deviceClose", "deviceDestroy"}, ncDeviceClose(t, d, op)
       PROVE  CallsFit' /\ Exclusive'
  BY <1>4, CallFits, NobodyElse DEF ncDeviceClose, Fits, Labels, Ops, Quiet
<1>5. ASSUME NEW t \in Threads, NEW d \in Devices, ncDeviceGetOption(t, d)
       PROVE  CallsFit' /\ Exclusive'
  BY <1>5, CallFits, NobodyElse
     DEF ncDeviceGetOption, Fits, Labels, Ops, DeviceOps, handles
<1>6. ASSUME NEW t \in Threads, NEW e \in Elements, Create(t, e)
       PROVE  CallsFit' /\ Exclusive'
  BY <1>6 DEF Create, CallsFit, Exclusive, threads, handles
<1>7. ASSUME NEW t \in Threads, NEW e \in Elements, DestroyCreated(t, e)
       PROVE  CallsFit' /\ Exclusive'
  BY <1>7 DEF DestroyCreated, CallsFit, Exclusive, threads, handles
<1>8. ASSUME NEW t \in Threads, NEW g \in Graphs, ncGraphDestroy(t, g)
       PROVE  CallsFit' /\ Exclusive'
  BY <1>8, CallFits, NobodyElse, UsableDevice, NoneIsNothing
     DEF ncGraphDestroy, Fits, Labels, Ops, MonitorOps, DeviceOps, Quiet, handles
<1>9. ASSUME NEW t \in Threads, NEW g \in Graphs, ncGraphGetOption(t, g)
       PROVE  CallsFit' /\ Exclusive'
  BY <1>9, CallFits, NobodyElse, UsableDevice, NoneIsNothing
     DEF ncGraphGetOption, Fits, Labels, Ops, MonitorOps, DeviceOps, Quiet, handles
<1>10. ASSUME NEW t \in Threads, NEW g \in Graphs, NEW d \in Devices, ncGraphAllocate(t, g, d)
       PROVE  CallsFit' /\ Exclusive'
  <2>1. (pc' = pc /\ arg' = arg) \/ Call(t, "graphAllocate", d, g, "send")
    BY <1>10 DEF ncGraphAllocate, threads
  <2>2. /\ pc[t] = "idle" /\ devState' = devState
        /\ Usable(d)
    BY <1>10 DEF ncGraphAllocate, Quiet, handles
  <2>3. CASE pc' = pc /\ arg' = arg
    BY <2>2, <2>3, NobodyMoves
  <2>4. CASE Call(t, "graphAllocate", d, g, "send")
    BY <2>2, <2>4, CallFits, NobodyElse, NoneIsNothing
       DEF Fits, Labels, Ops, MonitorOps, DeviceOps
  <2>. QED
    BY <2>1, <2>3, <2>4
<1>11. ASSUME NEW t \in Threads, NEW f \in Fifos, ncFifoDestroy(t, f)
       PROVE  CallsFit' /\ Exclusive'
  BY <1>11, CallFits, NobodyElse, UsableDevice, NoneIsNothing
     DEF ncFifoDestroy, Fits, Labels, Ops, MonitorOps, DeviceOps, Quiet, handles
<1>12. ASSUME NEW t \in Threads, NEW f \in Fifos, NEW d \in Devices, ncFifoAllocate(t, f, d)
       PROVE  CallsFit' /\ Exclusive'
  BY <1>12, CallFits, NobodyElse, NoneIsNothing
     DEF ncFifoAllocate, Fits, Labels, Ops, MonitorOps, DeviceOps, Quiet, handles
<1>13. ASSUME NEW t \in Threads, XLinkConnect(t)
       PROVE  CallsFit' /\ Exclusive'
  <2>1. pc[t] # "idle" /\ OnlyOwn(t)
    BY <1>13 DEF XLinkConnect, OnlyOwn
  <2>. QED
    BY <1>13, <2>1, GotoFits DEF XLinkConnect, CallsFit, Fits, Labels
<1>14. ASSUME NEW t \in Threads, ScanBootDevices(t)
       PROVE  CallsFit' /\ Exclusive'
  <2>1. pc[t] # "idle" /\ OnlyOwn(t)
    BY <1>14 DEF ScanBootDevices, OnlyOwn
  <2>. QED
    BY <1>14, <2>1, GotoFits, ReturnFits DEF ScanBootDevices, CallsFit, Fits, Labels
<1>15. ASSUME NEW t \in Threads, OpenDeviceMonitor(t)
       PROVE  CallsFit' /\ Exclusive'
  <2>1. pc[t] # "idle" /\ OnlyOwn(t)
    BY <1>15 DEF OpenDeviceMonitor, OnlyOwn, handles
  <2>. QED
    BY <1>15, <2>1, GotoFits, ReturnFits
       DEF OpenDeviceMonitor, CallsFit, Fits, Labels, handles
<1>16. ASSUME NEW t \in Threads, DeallocateAll(t)
       PROVE  CallsFit' /\ Exclusive'
  <2>1. pc[t] # "idle" /\ OnlyOwn(t)
    BY <1>16 DEF DeallocateAll, CallsFit, Fits, DeviceOps, OnlyOwn
  <2>. QED
    BY <1>16, <2>1, GotoFits, ReturnFits DEF DeallocateAll, Fits, Labels
<1>17. ASSUME NEW t \in Threads, FreeDevice(t)
       PROVE  CallsFit' /\ Exclusive'
  <2>1. pc[t] # "idle" /\ OnlyOwn(t)
    BY <1>17 DEF FreeDevice, CallsFit, Fits, DeviceOps, OnlyOwn
  <2>. QED
    BY <1>17, <2>1, ReturnFits DEF FreeDevice
<1>18. ASSUME NEW t \in Threads, CheckDevice(t)
       PROVE  CallsFit' /\ Exclusive'
  <2>1. pc[t] # "idle" /\ OnlyOwn(t)
    BY <1>18 DEF CheckDevice, OnlyOwn, handles
  <2>. QED
    BY <1>18, <2>1, GotoFits DEF CheckDevice, CallsFit, Fits, Labels
<1>19. ASSUME NEW t \in Threads, AskDevice(t)
       PROVE  CallsFit' /\ Exclusive'
  <2>1. pc[t] # "idle" /\ OnlyOwn(t)
    BY <1>19 DEF AskDevice, OnlyOwn, handles
  <2>. QED
    BY <1>19, <2>1, GotoFits DEF AskDevice, CallsFit, Fits, Labels, handles
<1>20. ASSUME NEW t \in Threads, ReadAnswer(t)
       PROVE  CallsFit' /\ Exclusive'
  <2>1. pc[t] # "idle" /\ OnlyOwn(t)
    BY <1>20 DEF ReadAnswer, OnlyOwn, handles
  <2>. QED
    BY <1>20, <2>1, GotoFits DEF ReadAnswer, CallsFit, Fits, Labels, handles
<1>21. ASSUME NEW t \in Threads, CopyAnswer(t)
       PROVE  CallsFit' /\ Exclusive'
  <2>1. pc[t] # "idle" /\ OnlyOwn(t)
    BY <1>21 DEF CopyAnswer, DeviceOps, OnlyOwn
  <2>. QED
    BY <1>21, <2>1, ReturnFits DEF CopyAnswer
<1>22. ASSUME NEW t \in Threads, sendGraphMonitorRequest(t)
       PROVE  CallsFit' /\ Exclusive'
  <2>1. pc[t] # "idle" /\ OnlyOwn(t)
    BY <1>22 DEF sendGraphMonitorRequest, OnlyOwn, handles
  <2>. QED
    BY <1>22, <2>1, GotoFits, ReturnFits
       DEF sendGraphMonitorRequest, CallsFit, Fits, Labels, handles
<1>23. ASSUME NEW t \in Threads, GraphAllocated(t)
       PROVE  CallsFit' /\ Exclusive'
  <2>1. pc[t] # "idle" /\ OnlyOwn(t)
    BY <1>23 DEF GraphAllocated, OnlyOwn, Response, At, handles
  <2>. QED
    BY <1>23, <2>1, GotoFits, ReturnFits
       DEF GraphAllocated, CallsFit, Fits, Labels, Response, At
<1>24. ASSUME NEW t \in Threads, GraphUnsupported(t)
       PROVE  CallsFit' /\ Exclusive'
  <2>1. pc[t] # "idle" /\ OnlyOwn(t)
    BY <1>24 DEF GraphUnsupported, OnlyOwn, Response, At, handles
  <2>. QED
    BY <1>24, <2>1, ReturnFits DEF GraphUnsupported
<1>25. ASSUME NEW t \in Threads, LinkGraph(t)
       PROVE  CallsFit' /\ Exclusive'
  <2>1. pc[t] # "idle" /\ OnlyOwn(t)
    BY <1>25 DEF LinkGraph, OnlyOwn, handles
  <2>. QED
    BY <1>25, <2>1, GotoFits DEF LinkGraph, CallsFit, Fits, Labels
<1>26. ASSUME NEW t \in Threads, WriteHead(t)
       PROVE  CallsFit' /\ Exclusive'
  <2>1. pc[t] # "idle" /\ OnlyOwn(t)
    BY <1>26 DEF WriteHead, OnlyOwn, handles
  <2>. QED
    BY <1>26, <2>1, GotoFits, ReturnFits
       DEF WriteHead, CallsFit, Fits, Labels, handles
<1>27. ASSUME NEW t \in Threads, OpenFifoStream(t)
       PROVE  CallsFit' /\ Exclusive'
  <2>1. pc[t] # "idle" /\ OnlyOwn(t)
    BY <1>27 DEF OpenFifoStream, OnlyOwn, handles
  <2>. QED
    BY <1>27, <2>1, GotoFits, ReturnFits
       DEF OpenFifoStream, CallsFit, Fits, Labels, handles
<1>28. ASSUME NEW t \in Threads, FifoAllocated(t)
       PROVE  CallsFit' /\ Exclusive'
  <2>1. pc[t] # "idle" /\ OnlyOwn(t)
    BY <1>28 DEF FifoAllocated, OnlyOwn, Response, At, handles
  <2>. QED
    BY <1>28, <2>1, ReturnFits DEF FifoAllocated
<1>29. ASSUME NEW t \in Threads, GraphDeallocated(t)
       PROVE  CallsFit' /\ Exclusive'
  <2>1. pc[t] # "idle" /\ OnlyOwn(t)
    BY <1>29 DEF GraphDeallocated, OnlyOwn, Response, At, handles
  <2>. QED
    BY <1>29, <2>1, GotoFits, ReturnFits
       DEF GraphDeallocated, CallsFit, Fits, Labels, Response, At
<1>30. ASSUME NEW t \in Threads, FifoDeallocated(t)
       PROVE  CallsFit' /\ Exclusive'
  <2>1. pc[t] # "idle" /\ OnlyOwn(t)
    BY <1>30 DEF FifoDeallocated, OnlyOwn, Response, At, handles
  <2>. QED
    BY <1>30, <2>1, GotoFits, ReturnFits
       DEF FifoDeallocated, CallsFit, Fits, Labels, Response, At
<1>31. ASSUME NEW t \in Threads, GraphOption(t)
       PROVE  CallsFit' /\ Exclusive'
  <2>1. pc[t] # "idle" /\ OnlyOwn(t)
    BY <1>31 DEF GraphOption, OnlyOwn, At, handles
  <2>. QED
    BY <1>31, <2>1, ReturnFits DEF GraphOption
<1>32. ASSUME NEW t \in Threads, Deallocate(t)
       PROVE  CallsFit' /\ Exclusive'
  <2>1. pc[t] # "idle" /\ OnlyOwn(t)
    BY <1>32 DEF Deallocate, OnlyOwn, handles
  <2>. QED
    BY <1>32, <2>1, ReturnFits DEF Deallocate
<1>33. ASSUME NEW d \in Devices, Boots(d)
       PROVE  CallsFit' /\ Exclusive'
  BY <1>33, NobodyMoves DEF Boots, threads
<1>34. ASSUME NEW d \in Devices, ReEnumerates(d)
       PROVE  CallsFit' /\ Exclusive'
  BY <1>34, NobodyMoves DEF ReEnumerates, threads
<1>35. ASSUME NEW d \in Devices, MonitorExecutes(d)
       PROVE  CallsFit' /\ Exclusive'
  BY <1>35, NobodyMoves DEF MonitorExecutes, threads, handles
<1>36. ASSUME NEW d \in Devices, MonitorAnswers(d)
       PROVE  CallsFit' /\ Exclusive'
  BY <1>36, NobodyMoves DEF MonitorAnswers, threads, handles
<1>. QED
  BY <1>1, <1>2, <1>3, <1>4, <1>5, <1>6, <1>7, <1>8, <1>9, <1>10, <1>11, <1>12,
     <1>13, <1>14, <1>15, <1>16, <1>17, <1>18, <1>19, <1>20, <1>21, <1>22, <1>23,
     <1>24, <1>25, <1>26, <1>27, <1>28, <1>29, <1>30, <1>31, <1>32, <1>33, <1>34,
     <1>35, <1>36
     DEF Next, Begin, Step, Device

-----------------------------------------------------------------------------
(* The monitor *)
\* The mutexes have different names, and those of different devices too.
LEMMA MutexNames ==
    /\ Global \in Mutexes
    /\ \A d \in Devices : Monitor(d) \in Mutexes /\ Stream(d) \in Mutexes /\ Data(d) \in Mutexes
    /\ \A d, c :
                 /\ Monitor(d) # Global /\ Monitor(d) # Stream(c) /\ Stream(d) # Global
                 /\ Monitor(d) = Monitor(c) => d = c
                 /\ Stream(d) = Stream(c) => d = c
    /\ \A d, c :
                 /\ Monitor(c) \in DeviceMutexes(d) \cup {Global} => c = d
                 /\ DeviceMutexes(d) = {Data(d), Stream(d), Monitor(d)}
<1>1. \A d \in Devices : DeviceMutexes(d) \subseteq Mutexes
  BY DEF Mutexes
<1>2. \A d, c :
                 /\ Monitor(d) # Global /\ Monitor(d) # Stream(c) /\ Stream(d) # Global /\ Monitor(d) # Data(c)
                 /\ Monitor(d) = Monitor(c) => d = c
                 /\ Stream(d) = Stream(c) => d = c
  BY DEF Monitor, Global, Stream, Data
<1>3. Global \in Mutexes
  BY DEF Mutexes
<1>6. \A d : DeviceMutexes(d) = {Data(d), Stream(d), Monitor(d)}
  BY DEF DeviceMutexes
<1>4. ASSUME NEW d, NEW c, Monitor(c) \in DeviceMutexes(d) \cup {Global}
      PROVE  c = d
  <2>1. Monitor(c) \in {Data(d), Stream(d), Monitor(d), Global}
    BY <1>4 DEF DeviceMutexes
  <2>2. Monitor(c) # Data(d) /\ Monitor(c) # Stream(d) /\ Monitor(c) # Global
    BY <1>2
  <2>3. Monitor(c) = Monitor(d)
    BY <2>1, <2>2
  <2>. QED
    BY <2>3, <1>2
<1>5. \A d \in Devices : Monitor(d) \in Mutexes /\ Stream(d) \in Mutexes /\ Data(d) \in Mutexes
  BY <1>1 DEF DeviceMutexes
<1>. QED
  BY <1>2, <1>3, <1>5, <1>6

\* No thread moves but one.
OnlyMoves(t) == \A q \in Threads \ {t} : pc'[q] = pc[q] /\ arg'[q] = arg[q]

\* A thread that goes on, returns or begins a call moves no other.
LEMMA Moved ==
    ASSUME TypeOK, NEW t \in Threads
    PROVE  /\ \A label : Goto(t, label) => OnlyMoves(t) /\ pc'[t] = label /\ arg'[t] = arg[t]
           /\ Return(t) => OnlyMoves(t) /\ pc'[t] = "idle" /\ arg'[t] = NoCall
           /\ \A op, d, e, label : Call(t, op, d, e, label) =>
                 OnlyMoves(t) /\ pc'[t] = label /\ arg'[t] = [op |-> op, d |-> d, e |-> e]
           /\ pc' = pc /\ arg' = arg => OnlyMoves(t) /\ pc'[t] = pc[t] /\ arg'[t] = arg[t]
  BY DEF TypeOK, Goto, Return, Call, OnlyMoves

\* Locking and unlocking change one mutex.
LEMMA Mutexed ==
    ASSUME TypeOK, NEW t \in Threads, NEW m \in Mutexes
    PROVE  /\ Lock(t, m) => mutex[m] = None /\ mutex'[m] = t /\ \A k \in Mutexes \ {m} : mutex'[k] = mutex[k]
           /\ Unlock(m) => mutex'[m] = None /\ \A k \in Mutexes \ {m} : mutex'[k] = mutex[k]
  BY DEF TypeOK, Lock, IsFree, Unlock

\* The streams of a monitor are left alone with its mutex, or end up empty.
Kept(d)    == requests'[d] = requests[d] /\ responses'[d] = responses[d] /\ mutex'[Monitor(d)] = mutex[Monitor(d)]
Emptied(d) == requests'[d] = <<>> /\ responses'[d] = <<>>

\* The monitor stays in step when only one thread moves, out of its wait for a
\* response if it was in one, has the monitor if it needs it, and leaves the
\* monitor's streams either as they are or empty.
LEMMA MonitorFrame ==
    ASSUME TypeOK, CallsFit, MonitorHeld, InStep, NEW t \in Threads, OnlyMoves(t),
           pc'[t] # "response",
           HasMonitor(t)' => mutex'[Monitor(arg'[t].d)] = t,
           \A d \in Devices :
               \/ Kept(d) /\ (pc[t] = "response" => arg[t].d # d)
               \/ Emptied(d) /\ \A q \in Threads \ {t} : HasMonitor(q) => arg[q].d # d
    PROVE  MonitorHeld' /\ InStep'
<1>1. MonitorHeld'
  <2> SUFFICES ASSUME NEW q \in Threads \ {t}, HasMonitor(q)
               PROVE  mutex'[Monitor(arg[q].d)] = q
    BY DEF MonitorHeld, HasMonitor, OnlyMoves
  <2>1. arg[q].d \in Devices /\ mutex[Monitor(arg[q].d)] = q
    BY InCall DEF HasMonitor, MonitorHeld
  <2>. QED
    BY <2>1 DEF Kept
<1>2. InStep'
  <2> SUFFICES ASSUME NEW d \in Devices, ~Emptied(d)
               PROVE  Serves(d, mutex[Monitor(d)])'
    BY DEF InStep, Emptied
  <2>1. Kept(d) /\ (pc[t] = "response" => arg[t].d # d)
    OBVIOUS
  <2>. DEFINE q == mutex[Monitor(d)]
  <2>2. Serves(d, q)
    BY DEF InStep, Kept, Emptied
  <2>3. q \in Threads /\ q # t
    BY <2>2 DEF Serves
  <2>. HIDE DEF q
  <2>4. pc'[q] = pc[q] /\ arg'[q] = arg[q]
    BY <2>3 DEF OnlyMoves
  <2>5. requests'[d] = requests[d] /\ responses'[d] = responses[d] /\ mutex'[Monitor(d)] = q
    BY DEF Kept, q
  <2>. QED
    BY <2>2, <2>4, <2>5 DEF Serves, Request, Answers, Answer, Refuses, Outcome
<1>. QED
  BY <1>1, <1>2

\* The call that has the monitor is the only one of its device, and what is on the
\* monitor's streams is its own.
LEMMA ServedCall ==
    ASSUME TypeOK, CallsFit, MonitorHeld, InStep, NEW t \in Threads, HasMonitor(t)
    PROVE  /\ arg[t].d \in Devices /\ mutex[Monitor(arg[t].d)] = t
           /\ \A q \in Threads \ {t} : HasMonitor(q) => arg[q].d # arg[t].d
           /\ pc[t] # "response" => requests[arg[t].d] = <<>> /\ responses[arg[t].d] = <<>>
           /\ pc[t] = "response" /\ responses[arg[t].d] # <<>> =>
                 /\ requests[arg[t].d] = <<>>
                 /\ \E no \in Refuses(arg[t].op) : responses[arg[t].d] = Answers(t, no)
<1>1. arg[t].d \in Devices
  BY InCall DEF HasMonitor
<1>2. mutex[Monitor(arg[t].d)] = t /\ \A q \in Threads : HasMonitor(q) => mutex[Monitor(arg[q].d)] = q
  BY DEF MonitorHeld
<1>3. \/ requests[arg[t].d] = <<>> /\ responses[arg[t].d] = <<>>
      \/ Serves(arg[t].d, t)
  BY <1>1, <1>2 DEF InStep
<1>. QED
  BY <1>1, <1>2, <1>3 DEF Serves

\* A call that gets one response takes all there is,
LEMMA OneResponse ==
    ASSUME TypeOK, CallsFit, MonitorHeld, InStep, NEW t \in Threads, NEW op \in Ops, Response(t, op),
           op # "graphGetOption"
    PROVE  Emptied(arg[t].d) /\ \A d \in Devices \ {arg[t].d} : requests'[d] = requests[d] /\ responses'[d] = responses[d]
<1>1. HasMonitor(t) /\ pc[t] = "response" /\ arg[t].op = op /\ responses[arg[t].d] # <<>>
  BY DEF Response, At, HasMonitor
<1>2. arg[t].d \in Devices /\ requests[arg[t].d] = <<>>
  BY <1>1, ServedCall
<1>3. \E a : responses[arg[t].d] = <<a>>
  BY <1>1, ServedCall DEF Answers
<1>4. \A a : Tail(<<a>>) = <<>>
  OBVIOUS
<1>. QED
  BY <1>2, <1>3 DEF Response, Emptied, TypeOK

\* and GetGraphOption, which gets two, takes both, unless the value is of the wrong
\* size and it gives up after the first.
LEMMA TwoResponses ==
    ASSUME TypeOK, CallsFit, MonitorHeld, InStep, Faults \cap Leaves = {}, NEW t \in Threads, GraphOption(t)
    PROVE  Emptied(arg[t].d) /\ \A d \in Devices \ {arg[t].d} : requests'[d] = requests[d] /\ responses'[d] = responses[d]
<1>. DEFINE d == arg[t].d
<1>1. HasMonitor(t) /\ pc[t] = "response" /\ arg[t].op = "graphGetOption" /\ Len(responses[d]) >= 2
  BY DEF GraphOption, At, HasMonitor
<1>2. responses[d] # <<>>
  BY <1>1
<1>3. d \in Devices /\ requests[d] = <<>>
  BY <1>1, ServedCall
<1>4. \E a : responses[d] = <<a, a>>
  BY <1>1, <1>2, ServedCall DEF Answers
<1>5. \A a : Tail(Tail(<<a, a>>)) = <<>>
  OBVIOUS
<1>6. Outcome("length") = {FALSE}
  BY DEF Outcome, Leaves
<1>7. responses' = [responses EXCEPT ![d] = Tail(Tail(@))] /\ requests' = requests
  BY <1>6 DEF GraphOption
<1>. HIDE DEF d
<1>8. responses'[d] = <<>> /\ \A c \in Devices \ {d} : responses'[c] = responses[c]
  BY <1>3, <1>4, <1>7 DEF TypeOK
<1>9. Emptied(d) /\ \A c \in Devices \ {d} : requests'[c] = requests[c] /\ responses'[c] = responses[c]
  BY <1>3, <1>7, <1>8 DEF Emptied
<1>. QED
  BY <1>9 DEF d

\* A step that touches neither threads, mutexes nor the monitor's streams keeps
\* the monitor in step.
LEMMA NothingMoves ==
    ASSUME MonitorHeld, InStep, mutex' = mutex, pc' = pc, arg' = arg, requests' = requests, responses' = responses
    PROVE  MonitorHeld' /\ InStep'
  BY DEF MonitorHeld, InStep, HasMonitor, Serves, Request, Answers, Answer

\* sendGraphMonitorRequest puts the only request there is on the stream of the
\* monitor whose mutex it takes.
LEMMA Sent ==
    ASSUME TypeOK, CallsFit, MonitorHeld, InStep, NEW t \in Threads, sendGraphMonitorRequest(t)
    PROVE  MonitorHeld' /\ InStep'
<1>. DEFINE d == arg[t].d
<1>1. pc[t] = "send" /\ d \in Devices /\ mutex[Monitor(d)] = None /\ responses' = responses
  BY InCall DEF sendGraphMonitorRequest, IsFree
<1>2. requests[d] = <<>> /\ responses[d] = <<>>
  BY <1>1, NoneIsNothing DEF InStep, Serves
<1>3. \A q \in Threads : HasMonitor(q) => arg[q].d # d
  BY <1>1, NoneIsNothing DEF MonitorHeld
<1>4. CASE Lock(t, Monitor(d)) /\ Goto(t, "response") /\ requests' = [requests EXCEPT ![d] = Append(@, Request(t))]
  <2>1. /\ mutex'[Monitor(d)] = t /\ \A c \in Devices \ {d} : mutex'[Monitor(c)] = mutex[Monitor(c)]
    BY <1>1, <1>4, MutexNames, Mutexed
  <2>2. /\ OnlyMoves(t) /\ pc'[t] = "response" /\ arg'[t] = arg[t]
    BY <1>4, Moved
  <2>3. requests'[d] = <<Request(t)>> /\ \A c \in Devices \ {d} : requests'[c] = requests[c]
    BY <1>1, <1>2, <1>4 DEF TypeOK
  <2>4. MonitorHeld'
    <3> SUFFICES ASSUME NEW q \in Threads, HasMonitor(q)'
                 PROVE  mutex'[Monitor(arg'[q].d)] = q
      BY DEF MonitorHeld
    <3>1. CASE q = t
      BY <2>1, <2>2, <3>1
    <3>2. CASE q # t
      <4>1. HasMonitor(q) /\ arg'[q] = arg[q]
        BY <2>2, <3>2 DEF HasMonitor, OnlyMoves
      <4>2. arg[q].d \in Devices \ {d}
        BY <4>1, <1>3, InCall DEF HasMonitor
      <4>. QED
        BY <2>1, <4>1, <4>2 DEF MonitorHeld
    <3>. QED
      BY <3>1, <3>2
  <2>5. InStep'
    <3> SUFFICES ASSUME NEW c \in Devices
                 PROVE  (\/ requests[c] = <<>> /\ responses[c] = <<>>
                         \/ Serves(c, mutex[Monitor(c)]))'
      BY DEF InStep
    <3>1. CASE c = d
      <4>1. Request(t)' = Request(t)
        BY <2>2 DEF Request
      <4>. QED
        BY <1>1, <1>2, <2>1, <2>2, <2>3, <3>1, <4>1 DEF Serves
    <3>2. CASE c # d
      <4>. DEFINE q == mutex[Monitor(c)]
      <4>1. mutex'[Monitor(c)] = q /\ requests'[c] = requests[c] /\ responses'[c] = responses[c]
        BY <1>1, <2>1, <2>3, <3>2
      <4>2. \/ requests[c] = <<>> /\ responses[c] = <<>>
            \/ Serves(c, q)
        BY DEF InStep
      <4>. HIDE DEF q
      <4>3. Serves(c, q) => q \in Threads /\ q # t
        BY <1>1 DEF Serves
      <4>4. q \in Threads /\ q # t => pc'[q] = pc[q] /\ arg'[q] = arg[q]
        BY <2>2 DEF OnlyMoves
      <4>. QED
        BY <4>1, <4>2, <4>3, <4>4 DEF Serves, Request, Answers, Answer
    <3>. QED
      BY <3>1, <3>2
  <2>. QED
    BY <2>4, <2>5
<1>5. CASE Lock(t, Monitor(d)) /\ Goto(t, "stuck") /\ requests' = requests
  <2>1. OnlyMoves(t) /\ pc'[t] # "response" /\ ~HasMonitor(t)'
    BY <1>5, Moved DEF HasMonitor
  <2>3. \A c \in Devices \ {d} : mutex'[Monitor(c)] = mutex[Monitor(c)]
    BY <1>1, <1>5, MutexNames, Mutexed
  <2>2. \A c \in Devices : Kept(c) \/ (c = d /\ Emptied(c))
    <3>1. /\ requests'[d] = <<>> /\ responses'[d] = <<>>
          /\ \A c \in Devices \ {d} : requests'[c] = requests[c] /\ responses'[c] = responses[c]
      BY <1>1, <1>2, <1>5
    <3> SUFFICES ASSUME NEW c \in Devices
                 PROVE  Kept(c) \/ (c = d /\ Emptied(c))
      OBVIOUS
    <3>4. CASE c = d
      BY <3>1, <3>4 DEF Emptied
    <3>5. CASE c # d
      BY <2>3, <3>1, <3>5 DEF Kept
    <3>. QED
      BY <3>4, <3>5
  <2>. QED
    BY <1>1, <1>3, <2>1, <2>2, MonitorFrame
<1>6. CASE Return(t) /\ mutex' = mutex /\ requests' = requests
  <2>1. OnlyMoves(t) /\ pc'[t] # "response" /\ ~HasMonitor(t)'
    BY <1>6, Moved DEF HasMonitor
  <2>. QED
    BY <1>1, <1>6, <2>1, MonitorFrame DEF Kept
<1>. QED
  BY <1>4, <1>5, <1>6 DEF sendGraphMonitorRequest, Request

\* The device answers the call that has the monitor.
LEMMA Executed ==
    ASSUME TypeOK, CallsFit, MonitorHeld, InStep, NEW d \in Devices, MonitorExecutes(d)
    PROVE  MonitorHeld' /\ InStep'
<1>1. /\ requests[d] # <<>> /\ mutex' = mutex /\ pc' = pc /\ arg' = arg
      /\ requests' = [requests EXCEPT ![d] = Tail(@)]
  BY DEF MonitorExecutes, locks, threads
<1>0. PICK t : t = mutex[Monitor(d)]
  OBVIOUS
<1>2. Serves(d, t) /\ requests[d] = <<Request(t)>> /\ responses[d] = <<>>
  BY <1>0, <1>1 DEF InStep, Serves
<1>3. requests'[d] = <<>> /\ \A c \in Devices \ {d} : requests'[c] = requests[c]
  <2>1. Tail(<<Request(t)>>) = <<>>
    OBVIOUS
  <2>. QED
    BY <1>1, <1>2 DEF TypeOK
<1>4. /\ \E no \in Refuses(arg[t].op) : responses'[d] = Answers(t, no)
      /\ \A c \in Devices \ {d} : responses'[c] = responses[c]
  <2>1. Head(requests[d]) = Request(t) /\ Request(t).op = arg[t].op
    BY <1>2 DEF Request
  <2>5. PICK no \in Refuses(Head(requests[d]).op) :
           responses' = [responses EXCEPT ![d] =
               @ \o (IF Head(requests[d]).op = "graphGetOption"
                     THEN <<[msg |-> Head(requests[d]), ok |-> ~no], [msg |-> Head(requests[d]), ok |-> ~no]>>
                     ELSE <<[msg |-> Head(requests[d]), ok |-> ~no]>>)]
    BY DEF MonitorExecutes
  <2>2. no \in Refuses(arg[t].op) /\ responses' = [responses EXCEPT ![d] = @ \o Answers(t, no)]
    BY <2>1, <2>5 DEF Answers, Answer
  <2>3. <<>> \o Answers(t, no) = Answers(t, no)
    OBVIOUS
  <2>4. responses'[d] = responses[d] \o Answers(t, no) /\ \A c \in Devices \ {d} : responses'[c] = responses[c]
    BY <2>2 DEF TypeOK
  <2>. QED
    BY <1>2, <2>2, <2>4
<1>5. MonitorHeld'
  BY <1>1 DEF MonitorHeld, HasMonitor
<1>6. InStep'
  <2> SUFFICES ASSUME NEW c \in Devices
               PROVE  (\/ requests[c] = <<>> /\ responses[c] = <<>>
                       \/ Serves(c, mutex[Monitor(c)]))'
    BY DEF InStep
  <2>1. CASE c = d
    <3>1. \A no : Answers(t, no)' = Answers(t, no)
      BY <1>1 DEF Answers, Answer, Request
    <3>2. mutex'[Monitor(d)] = t
      BY <1>0, <1>1
    <3>. QED
      BY <1>1, <1>2, <1>3, <1>4, <2>1, <3>1, <3>2 DEF Serves
  <2>2. CASE c # d
    BY <1>1, <1>3, <1>4, <2>2 DEF InStep, Serves, Request, Answers, Answer
  <2>. QED
    BY <2>1, <2>2
<1>. QED
  BY <1>5, <1>6

\* Every step keeps the monitor in step when no call gives up on a response.
LEMMA MonitorStep ==
    ASSUME TypeOK, CallsFit, Exclusive, MonitorHeld, InStep, Faults \cap Leaves = {}, Next
    PROVE  MonitorHeld' /\ InStep'
<1>1. ASSUME NEW t \in Threads, NEW d \in Devices, ncDeviceCreate(t, d)
       PROVE  MonitorHeld' /\ InStep'
  <2>1. OnlyMoves(t) /\ pc[t] # "response" /\ pc'[t] # "response"
    BY <1>1, Moved DEF ncDeviceCreate, threads, Quiet
  <2>2. HasMonitor(t)' => HasMonitor(t) /\ arg'[t] = arg[t]
    BY <1>1 DEF ncDeviceCreate, HasMonitor, threads
  <2>3. \A c \in Devices : Kept(c)
    BY <1>1 DEF ncDeviceCreate, Kept, locks, monitor
  <2>4. HasMonitor(t)' => mutex'[Monitor(arg'[t].d)] = t
    BY <2>2, <2>3, ServedCall DEF Kept
  <2>. QED
    BY <2>1, <2>3, <2>4, MonitorFrame
<1>2. ASSUME NEW t \in Threads, NEW d \in Devices, ncDeviceOpen(t, d)
       PROVE  MonitorHeld' /\ InStep'
  <2>1. OnlyMoves(t) /\ pc[t] # "response" /\ pc'[t] # "response"
    BY <1>2 DEF ncDeviceOpen, Call, OnlyMoves, TypeOK, threads, Quiet
  <2>2. HasMonitor(t)' => HasMonitor(t) /\ arg'[t] = arg[t]
    BY <1>2 DEF ncDeviceOpen, HasMonitor, Call, TypeOK, threads
  <2>3. \A c \in Devices : Kept(c)
    BY <1>2, MutexNames, Mutexed DEF ncDeviceOpen, Kept, monitor
  <2>4. HasMonitor(t)' => mutex'[Monitor(arg'[t].d)] = t
    BY <2>2, <2>3, ServedCall DEF Kept
  <2>. QED
    BY <2>1, <2>3, <2>4, MonitorFrame
<1>3. ASSUME NEW t \in Threads, NEW d \in Devices, ncDeviceDestroy(t, d)
       PROVE  MonitorHeld' /\ InStep'
  <2>1. OnlyMoves(t) /\ pc[t] # "response" /\ pc'[t] # "response"
    BY <1>3, Moved DEF ncDeviceDestroy, Call, TypeOK, Quiet
  <2>2. HasMonitor(t)' => HasMonitor(t) /\ arg'[t] = arg[t]
    BY <1>3 DEF ncDeviceDestroy, HasMonitor, Call, Quiet
  <2>3. \A c \in Devices : Kept(c)
    BY <1>3 DEF ncDeviceDestroy, Kept, locks, monitor
  <2>4. HasMonitor(t)' => mutex'[Monitor(arg'[t].d)] = t
    BY <2>2, <2>3, ServedCall DEF Kept
  <2>. QED
    BY <2>1, <2>3, <2>4, MonitorFrame
<1>4. ASSUME NEW t \in Threads, NEW d \in Devices, NEW op \in {"deviceClose", "deviceDestroy"}, ncDeviceClose(t, d, op)
       PROVE  MonitorHeld' /\ InStep'
  <2>1. OnlyMoves(t) /\ pc[t] # "response" /\ pc'[t] # "response"
    BY <1>4, Moved DEF ncDeviceClose, Call, TypeOK, Quiet
  <2>2. HasMonitor(t)' => HasMonitor(t) /\ arg'[t] = arg[t]
    BY <1>4 DEF ncDeviceClose, HasMonitor, Call, Quiet
  <2>3. \A c \in Devices : Kept(c)
    BY <1>4, MutexNames, Mutexed DEF ncDeviceClose, Kept, monitor
  <2>4. HasMonitor(t)' => mutex'[Monitor(arg'[t].d)] = t
    BY <2>2, <2>3, ServedCall DEF Kept
  <2>. QED
    BY <2>1, <2>3, <2>4, MonitorFrame
<1>5. ASSUME NEW t \in Threads, NEW d \in Devices, ncDeviceGetOption(t, d)
       PROVE  MonitorHeld' /\ InStep'
  <2>1. OnlyMoves(t) /\ pc[t] # "response" /\ pc'[t] # "response"
    BY <1>5, Moved DEF ncDeviceGetOption, Call, TypeOK
  <2>2. HasMonitor(t)' => HasMonitor(t) /\ arg'[t] = arg[t]
    BY <1>5, Idle DEF ncDeviceGetOption, HasMonitor, Call
  <2>3. \A c \in Devices : Kept(c)
    BY <1>5 DEF ncDeviceGetOption, Kept, locks, monitor
  <2>4. HasMonitor(t)' => mutex'[Monitor(arg'[t].d)] = t
    BY <2>2, <2>3, ServedCall DEF Kept
  <2>. QED
    BY <2>1, <2>3, <2>4, MonitorFrame
<1>6. ASSUME NEW t \in Threads, NEW e \in Elements, Create(t, e)
       PROVE  MonitorHeld' /\ InStep'
  <2>1. OnlyMoves(t) /\ pc[t] # "response" /\ pc'[t] # "response"
    BY <1>6, Moved DEF Create, threads, Quiet
  <2>2. HasMonitor(t)' => HasMonitor(t) /\ arg'[t] = arg[t]
    BY <1>6 DEF Create, HasMonitor, threads
  <2>3. \A c \in Devices : Kept(c)
    BY <1>6 DEF Create, Kept, locks, monitor
  <2>4. HasMonitor(t)' => mutex'[Monitor(arg'[t].d)] = t
    BY <2>2, <2>3, ServedCall DEF Kept
  <2>. QED
    BY <2>1, <2>3, <2>4, MonitorFrame
<1>7. ASSUME NEW t \in Threads, NEW e \in Elements, DestroyCreated(t, e)
       PROVE  MonitorHeld' /\ InStep'
  <2>1. OnlyMoves(t) /\ pc[t] # "response" /\ pc'[t] # "response"
    BY <1>7, Moved DEF DestroyCreated, threads, Quiet
  <2>2. HasMonitor(t)' => HasMonitor(t) /\ arg'[t] = arg[t]
    BY <1>7 DEF DestroyCreated, HasMonitor, threads
  <2>3. \A c \in Devices : Kept(c)
    BY <1>7 DEF DestroyCreated, Kept, locks, monitor
  <2>4. HasMonitor(t)' => mutex'[Monitor(arg'[t].d)] = t
    BY <2>2, <2>3, ServedCall DEF Kept
  <2>. QED
    BY <2>1, <2>3, <2>4, MonitorFrame
<1>8. ASSUME NEW t \in Threads, NEW g \in Graphs, ncGraphDestroy(t, g)
       PROVE  MonitorHeld' /\ InStep'
  <2>1. OnlyMoves(t) /\ pc[t] # "response" /\ pc'[t] # "response"
    BY <1>8, Moved DEF ncGraphDestroy, Call, TypeOK, Quiet
  <2>2. HasMonitor(t)' => HasMonitor(t) /\ arg'[t] = arg[t]
    BY <1>8 DEF ncGraphDestroy, HasMonitor, Call, Quiet
  <2>3. \A c \in Devices : Kept(c)
    BY <1>8 DEF ncGraphDestroy, Kept, locks, monitor
  <2>4. HasMonitor(t)' => mutex'[Monitor(arg'[t].d)] = t
    BY <2>2, <2>3, ServedCall DEF Kept
  <2>. QED
    BY <2>1, <2>3, <2>4, MonitorFrame
<1>9. ASSUME NEW t \in Threads, NEW g \in Graphs, ncGraphGetOption(t, g)
       PROVE  MonitorHeld' /\ InStep'
  <2>1. OnlyMoves(t) /\ pc[t] # "response" /\ pc'[t] # "response"
    BY <1>9, Moved DEF ncGraphGetOption, Call, TypeOK, Quiet
  <2>2. HasMonitor(t)' => HasMonitor(t) /\ arg'[t] = arg[t]
    BY <1>9 DEF ncGraphGetOption, HasMonitor, Call, Quiet
  <2>3. \A c \in Devices : Kept(c)
    BY <1>9 DEF ncGraphGetOption, Kept, locks, monitor
  <2>4. HasMonitor(t)' => mutex'[Monitor(arg'[t].d)] = t
    BY <2>2, <2>3, ServedCall DEF Kept
  <2>. QED
    BY <2>1, <2>3, <2>4, MonitorFrame
<1>10. ASSUME NEW t \in Threads, NEW g \in Graphs, NEW d \in Devices, ncGraphAllocate(t, g, d)
       PROVE  MonitorHeld' /\ InStep'
  <2>1. OnlyMoves(t) /\ pc[t] # "response" /\ pc'[t] # "response"
    BY <1>10 DEF ncGraphAllocate, Call, OnlyMoves, TypeOK, threads, Quiet
  <2>2. HasMonitor(t)' => HasMonitor(t) /\ arg'[t] = arg[t]
    BY <1>10 DEF ncGraphAllocate, HasMonitor, Call, TypeOK, threads
  <2>3. \A c \in Devices : Kept(c)
    BY <1>10 DEF ncGraphAllocate, Kept, locks, monitor
  <2>4. HasMonitor(t)' => mutex'[Monitor(arg'[t].d)] = t
    BY <2>2, <2>3, ServedCall DEF Kept
  <2>. QED
    BY <2>1, <2>3, <2>4, MonitorFrame
<1>11. ASSUME NEW t \in Threads, NEW f \in Fifos, ncFifoDestroy(t, f)
       PROVE  MonitorHeld' /\ InStep'
  <2>1. OnlyMoves(t) /\ pc[t] # "response" /\ pc'[t] # "response"
    BY <1>11, Moved DEF ncFifoDestroy, Call, TypeOK, Quiet
  <2>2. HasMonitor(t)' => HasMonitor(t) /\ arg'[t] = arg[t]
    BY <1>11 DEF ncFifoDestroy, HasMonitor, Call, Quiet
  <2>3. \A c \in Devices : Kept(c)
    BY <1>11 DEF ncFifoDestroy, Kept, locks, monitor
  <2>4. HasMonitor(t)' => mutex'[Monitor(arg'[t].d)] = t
    BY <2>2, <2>3, ServedCall DEF Kept
  <2>. QED
    BY <2>1, <2>3, <2>4, MonitorFrame
<1>12. ASSUME NEW t \in Threads, NEW f \in Fifos, NEW d \in Devices, ncFifoAllocate(t, f, d)
       PROVE  MonitorHeld' /\ InStep'
  <2>1. OnlyMoves(t) /\ pc[t] # "response" /\ pc'[t] # "response"
    BY <1>12, Moved DEF ncFifoAllocate, Call, TypeOK, Quiet
  <2>2. HasMonitor(t)' => HasMonitor(t) /\ arg'[t] = arg[t]
    BY <1>12 DEF ncFifoAllocate, HasMonitor, Call, Quiet
  <2>3. \A c \in Devices : Kept(c)
    BY <1>12 DEF ncFifoAllocate, Kept, locks, monitor
  <2>4. HasMonitor(t)' => mutex'[Monitor(arg'[t].d)] = t
    BY <2>2, <2>3, ServedCall DEF Kept
  <2>. QED
    BY <2>1, <2>3, <2>4, MonitorFrame
<1>13. ASSUME NEW t \in Threads, XLinkConnect(t)
       PROVE  MonitorHeld' /\ InStep'
  <2>1. /\ arg[t].d \in Devices /\ arg[t].op \in DeviceOps /\ arg[t].op # "graphAllocate"
        /\ pc[t] # "response" /\ pc[t] # "idle"
    BY <1>13, InCall DEF XLinkConnect, CallsFit, Fits, DeviceOps
  <2>2. OnlyMoves(t) /\ pc'[t] # "response" /\ ~HasMonitor(t)'
    BY <1>13, Moved DEF XLinkConnect, HasMonitor
  <2>3. \A q \in Threads : HasMonitor(q) => arg[q].d # arg[t].d
    BY <2>1 DEF Exclusive, HasMonitor
  <2>4. \A c \in Devices : Kept(c) \/ (c = arg[t].d /\ Emptied(c))
    <3>1. requests[arg[t].d] = <<>> /\ responses[arg[t].d] = <<>>
      BY <2>1, <2>3 DEF InStep, Serves, HasMonitor
    <3>2. \A c \in Devices \ {arg[t].d} : mutex'[Monitor(c)] = mutex[Monitor(c)]
      <4>1. \A c \in Devices \ {arg[t].d} : Monitor(c) \in Mutexes /\ Monitor(c) \notin DeviceMutexes(arg[t].d) \cup {Global}
        BY MutexNames
      <4>. QED
        BY <1>13, <4>1 DEF XLinkConnect, Linked
    <3>3. \A c \in Devices :
                           \/ requests'[c] = requests[c] /\ responses'[c] = responses[c]
                           \/ c = arg[t].d /\ Emptied(c)
      BY <1>13 DEF XLinkConnect, monitor
    <3> SUFFICES ASSUME NEW c \in Devices
                 PROVE  Kept(c) \/ (c = arg[t].d /\ Emptied(c))
      OBVIOUS
    <3>4. CASE c = arg[t].d
      BY <3>1, <3>3, <3>4 DEF Emptied
    <3>5. CASE c # arg[t].d
      BY <3>2, <3>3, <3>5 DEF Kept
    <3>. QED
      BY <3>4, <3>5
  <2>. QED
    BY <2>1, <2>2, <2>3, <2>4, MonitorFrame
<1>14. ASSUME NEW t \in Threads, ScanBootDevices(t)
       PROVE  MonitorHeld' /\ InStep'
  <2>1. /\ arg[t].d \in Devices /\ arg[t].op \in DeviceOps /\ arg[t].op # "graphAllocate"
        /\ pc[t] # "response" /\ pc[t] # "idle"
    BY <1>14, InCall DEF ScanBootDevices, CallsFit, Fits, DeviceOps
  <2>2. OnlyMoves(t) /\ pc'[t] # "response" /\ ~HasMonitor(t)'
    BY <1>14, Moved DEF ScanBootDevices, HasMonitor
  <2>3. \A q \in Threads : HasMonitor(q) => arg[q].d # arg[t].d
    BY <2>1 DEF Exclusive, HasMonitor
  <2>4. \A c \in Devices : Kept(c) \/ (c = arg[t].d /\ Emptied(c))
    <3>1. requests[arg[t].d] = <<>> /\ responses[arg[t].d] = <<>>
      BY <2>1, <2>3 DEF InStep, Serves, HasMonitor
    <3>2. \A c \in Devices \ {arg[t].d} : mutex'[Monitor(c)] = mutex[Monitor(c)]
      <4>1. \A c \in Devices \ {arg[t].d} : Monitor(c) \in Mutexes /\ Monitor(c) \notin DeviceMutexes(arg[t].d) \cup {Global}
        BY MutexNames
      <4>. QED
        BY <1>14, <4>1 DEF ScanBootDevices, Linked
    <3>3. \A c \in Devices :
                           \/ requests'[c] = requests[c] /\ responses'[c] = responses[c]
                           \/ c = arg[t].d /\ Emptied(c)
      BY <1>14 DEF ScanBootDevices, monitor
    <3> SUFFICES ASSUME NEW c \in Devices
                 PROVE  Kept(c) \/ (c = arg[t].d /\ Emptied(c))
      OBVIOUS
    <3>4. CASE c = arg[t].d
      BY <3>1, <3>3, <3>4 DEF Emptied
    <3>5. CASE c # arg[t].d
      BY <3>2, <3>3, <3>5 DEF Kept
    <3>. QED
      BY <3>4, <3>5
  <2>. QED
    BY <2>1, <2>2, <2>3, <2>4, MonitorFrame
<1>15. ASSUME NEW t \in Threads, OpenDeviceMonitor(t)
       PROVE  MonitorHeld' /\ InStep'
  <2>1. OnlyMoves(t) /\ pc[t] # "response" /\ pc'[t] # "response"
    BY <1>15, Moved DEF OpenDeviceMonitor
  <2>2. HasMonitor(t)' => HasMonitor(t) /\ arg'[t] = arg[t]
    BY <1>15, Moved DEF OpenDeviceMonitor, HasMonitor, CallsFit, Fits
  <2>3. \A c \in Devices : Kept(c)
    BY <1>15 DEF OpenDeviceMonitor, Kept, locks, monitor
  <2>4. HasMonitor(t)' => mutex'[Monitor(arg'[t].d)] = t
    BY <2>2, <2>3, ServedCall DEF Kept
  <2>. QED
    BY <2>1, <2>3, <2>4, MonitorFrame
<1>16. ASSUME NEW t \in Threads, DeallocateAll(t)
       PROVE  MonitorHeld' /\ InStep'
  <2>1. /\ arg[t].d \in Devices /\ arg[t].op \in DeviceOps /\ arg[t].op # "graphAllocate"
        /\ pc[t] # "response" /\ pc[t] # "idle"
    BY <1>16, InCall DEF DeallocateAll, CallsFit, Fits, DeviceOps
  <2>2. OnlyMoves(t) /\ pc'[t] # "response" /\ ~HasMonitor(t)'
    BY <1>16, Moved DEF DeallocateAll, HasMonitor
  <2>3. \A q \in Threads : HasMonitor(q) => arg[q].d # arg[t].d
    BY <2>1 DEF Exclusive, HasMonitor
  <2>4. \A c \in Devices : Kept(c) \/ (c = arg[t].d /\ Emptied(c))
    <3>1. requests[arg[t].d] = <<>> /\ responses[arg[t].d] = <<>>
      BY <2>1, <2>3 DEF InStep, Serves, HasMonitor
    <3>2. \A c \in Devices \ {arg[t].d} : mutex'[Monitor(c)] = mutex[Monitor(c)]
      <4>1. \A c \in Devices \ {arg[t].d} : Monitor(c) \in Mutexes /\ Monitor(c) \notin DeviceMutexes(arg[t].d) \cup {Global}
        BY MutexNames
      <4>. QED
        BY <1>16, <4>1 DEF DeallocateAll
    <3>3. \A c \in Devices :
                           \/ requests'[c] = requests[c] /\ responses'[c] = responses[c]
                           \/ c = arg[t].d /\ Emptied(c)
      BY <1>16 DEF DeallocateAll, Emptied, TypeOK
    <3> SUFFICES ASSUME NEW c \in Devices
                 PROVE  Kept(c) \/ (c = arg[t].d /\ Emptied(c))
      OBVIOUS
    <3>4. CASE c = arg[t].d
      BY <3>1, <3>3, <3>4 DEF Emptied
    <3>5. CASE c # arg[t].d
      BY <3>2, <3>3, <3>5 DEF Kept
    <3>. QED
      BY <3>4, <3>5
  <2>. QED
    BY <2>1, <2>2, <2>3, <2>4, MonitorFrame
<1>17. ASSUME NEW t \in Threads, FreeDevice(t)
       PROVE  MonitorHeld' /\ InStep'
  <2>1. OnlyMoves(t) /\ pc[t] # "response" /\ pc'[t] # "response"
    BY <1>17, Moved DEF FreeDevice
  <2>2. HasMonitor(t)' => HasMonitor(t) /\ arg'[t] = arg[t]
    BY <1>17, Moved DEF FreeDevice, HasMonitor
  <2>3. \A c \in Devices : Kept(c)
    BY <1>17 DEF FreeDevice, Kept, locks, monitor
  <2>4. HasMonitor(t)' => mutex'[Monitor(arg'[t].d)] = t
    BY <2>2, <2>3, ServedCall DEF Kept
  <2>. QED
    BY <2>1, <2>3, <2>4, MonitorFrame
<1>18. ASSUME NEW t \in Threads, CheckDevice(t)
       PROVE  MonitorHeld' /\ InStep'
  <2>1. OnlyMoves(t) /\ pc[t] # "response" /\ pc'[t] # "response"
    BY <1>18, Moved DEF CheckDevice
  <2>2. HasMonitor(t)' => HasMonitor(t) /\ arg'[t] = arg[t]
    BY <1>18, Moved DEF CheckDevice, HasMonitor
  <2>3. \A c \in Devices : Kept(c)
    BY <1>18 DEF CheckDevice, Kept, locks, monitor
  <2>4. HasMonitor(t)' => mutex'[Monitor(arg'[t].d)] = t
    BY <2>2, <2>3, ServedCall DEF Kept
  <2>. QED
    BY <2>1, <2>3, <2>4, MonitorFrame
<1>19. ASSUME NEW t \in Threads, AskDevice(t)
       PROVE  MonitorHeld' /\ InStep'
  <2>1. OnlyMoves(t) /\ pc[t] # "response" /\ pc'[t] # "response"
    BY <1>19, Moved DEF AskDevice
  <2>2. HasMonitor(t)' => HasMonitor(t) /\ arg'[t] = arg[t]
    BY <1>19, Moved DEF AskDevice, HasMonitor
  <2>3. \A c \in Devices : Kept(c)
    <3>1. arg[t].d \in Devices /\ requests' = requests /\ responses' = responses
      BY <1>19, InCall DEF AskDevice, monitor
    <3>2. \A k \in Mutexes \ {Stream(arg[t].d)} : mutex'[k] = mutex[k]
      BY <1>19, <3>1, MutexNames, Mutexed DEF AskDevice
    <3>. QED
      BY <3>1, <3>2, MutexNames DEF Kept
  <2>4. HasMonitor(t)' => mutex'[Monitor(arg'[t].d)] = t
    BY <2>2, <2>3, ServedCall DEF Kept
  <2>. QED
    BY <2>1, <2>3, <2>4, MonitorFrame
<1>20. ASSUME NEW t \in Threads, ReadAnswer(t)
       PROVE  MonitorHeld' /\ InStep'
  <2>1. OnlyMoves(t) /\ pc[t] # "response" /\ pc'[t] # "response"
    BY <1>20, Moved DEF ReadAnswer
  <2>2. HasMonitor(t)' => HasMonitor(t) /\ arg'[t] = arg[t]
    BY <1>20, Moved DEF ReadAnswer, HasMonitor
  <2>3. \A c \in Devices : Kept(c)
    <3>1. arg[t].d \in Devices /\ requests' = requests /\ responses' = responses
      BY <1>20, InCall DEF ReadAnswer, monitor
    <3>2. \A k \in Mutexes \ {Stream(arg[t].d)} : mutex'[k] = mutex[k]
      BY <1>20, <3>1, MutexNames, Mutexed DEF ReadAnswer
    <3>. QED
      BY <3>1, <3>2, MutexNames DEF Kept
  <2>4. HasMonitor(t)' => mutex'[Monitor(arg'[t].d)] = t
    BY <2>2, <2>3, ServedCall DEF Kept
  <2>. QED
    BY <2>1, <2>3, <2>4, MonitorFrame
<1>21. ASSUME NEW t \in Threads, CopyAnswer(t)
       PROVE  MonitorHeld' /\ InStep'
  <2>1. pc[t] = "copy" /\ arg[t].d \in Devices
    BY <1>21, InCall DEF CopyAnswer
  <2>2. OnlyMoves(t) /\ pc'[t] # "response" /\ (HasMonitor(t)' => arg'[t].d = arg[t].d)
    BY <1>21, Moved DEF CopyAnswer, HasMonitor
  <2>3. HasMonitor(t) => requests[arg[t].d] = <<>> /\ responses[arg[t].d] = <<>>
    BY <2>1, ServedCall
  <2>4. requests' = requests /\ responses' = responses
    BY <1>21 DEF CopyAnswer, monitor
  <2>5. \A c \in Devices : Kept(c) \/ (HasMonitor(t) /\ c = arg[t].d /\ Emptied(c))
    BY <1>21, <2>1, <2>3, <2>4, MutexNames, Mutexed
       DEF CopyAnswer, Kept, Emptied, HasMonitor
  <2>6. HasMonitor(t)' => mutex'[Monitor(arg'[t].d)] = t
    BY <1>21, Moved DEF CopyAnswer, HasMonitor
  <2>. QED
    BY <2>1, <2>2, <2>5, <2>6, ServedCall, MonitorFrame
<1>22. ASSUME NEW t \in Threads, sendGraphMonitorRequest(t)
       PROVE  MonitorHeld' /\ InStep'
  BY <1>22, Sent
<1>23. ASSUME NEW t \in Threads, GraphAllocated(t)
       PROVE  MonitorHeld' /\ InStep'
  <2>1. pc[t] = "response" /\ arg[t].d \in Devices
    BY <1>23, InCall DEF GraphAllocated, At, Response
  <2>2. OnlyMoves(t) /\ pc'[t] # "response" /\ (HasMonitor(t)' => arg'[t].d = arg[t].d)
    BY <1>23, Moved DEF GraphAllocated, HasMonitor
  <2>3. Emptied(arg[t].d) /\ \A c \in Devices \ {arg[t].d} : requests'[c] = requests[c] /\ responses'[c] = responses[c]
    BY <1>23, OneResponse DEF GraphAllocated, Ops
  <2>4. HasMonitor(t)
    BY <2>1 DEF HasMonitor
  <2>7. \A c \in Devices \ {arg[t].d} : mutex'[Monitor(c)] = mutex[Monitor(c)]
    BY <1>23, <2>1, MutexNames, Mutexed DEF GraphAllocated
  <2>5. \A c \in Devices :
                         \/ Kept(c) /\ c # arg[t].d
                         \/ HasMonitor(t) /\ c = arg[t].d /\ Emptied(c)
    BY <2>3, <2>4, <2>7 DEF Kept
  <2>6. HasMonitor(t)' => mutex'[Monitor(arg'[t].d)] = t
    BY <1>23, <2>1, Moved, ServedCall DEF GraphAllocated, HasMonitor
  <2>. QED
    BY <2>2, <2>5, <2>6, ServedCall, MonitorFrame
<1>24. ASSUME NEW t \in Threads, GraphUnsupported(t)
       PROVE  MonitorHeld' /\ InStep'
  <2>1. pc[t] = "response" /\ arg[t].d \in Devices
    BY <1>24, InCall DEF GraphUnsupported, At, Response
  <2>2. OnlyMoves(t) /\ pc'[t] # "response" /\ (HasMonitor(t)' => arg'[t].d = arg[t].d)
    BY <1>24, Moved DEF GraphUnsupported, HasMonitor
  <2>3. Emptied(arg[t].d) /\ \A c \in Devices \ {arg[t].d} : requests'[c] = requests[c] /\ responses'[c] = responses[c]
    BY <1>24, OneResponse DEF GraphUnsupported, Ops
  <2>4. HasMonitor(t)
    BY <2>1 DEF HasMonitor
  <2>7. \A c \in Devices \ {arg[t].d} : mutex'[Monitor(c)] = mutex[Monitor(c)]
    BY <1>24, <2>1, MutexNames, Mutexed DEF GraphUnsupported
  <2>5. \A c \in Devices :
                         \/ Kept(c) /\ c # arg[t].d
                         \/ HasMonitor(t) /\ c = arg[t].d /\ Emptied(c)
    BY <2>3, <2>4, <2>7 DEF Kept
  <2>6. HasMonitor(t)' => mutex'[Monitor(arg'[t].d)] = t
    BY <1>24, Moved DEF GraphUnsupported, HasMonitor
  <2>. QED
    BY <2>2, <2>5, <2>6, ServedCall, MonitorFrame
<1>25. ASSUME NEW t \in Threads, LinkGraph(t)
       PROVE  MonitorHeld' /\ InStep'
  <2>1. OnlyMoves(t) /\ pc[t] # "response" /\ pc'[t] # "response"
    BY <1>25, Moved DEF LinkGraph
  <2>2. HasMonitor(t)' => HasMonitor(t) /\ arg'[t] = arg[t]
    BY <1>25, Moved DEF LinkGraph, HasMonitor
  <2>3. \A c \in Devices : Kept(c)
    BY <1>25, MutexNames, Mutexed DEF LinkGraph, Kept, monitor
  <2>4. HasMonitor(t)' => mutex'[Monitor(arg'[t].d)] = t
    BY <2>2, <2>3, ServedCall DEF Kept
  <2>. QED
    BY <2>1, <2>3, <2>4, MonitorFrame
<1>26. ASSUME NEW t \in Threads, WriteHead(t)
       PROVE  MonitorHeld' /\ InStep'
  <2>1. OnlyMoves(t) /\ pc[t] # "response" /\ pc'[t] # "response"
    BY <1>26, Moved DEF WriteHead
  <2>2. HasMonitor(t)' => HasMonitor(t) /\ arg'[t] = arg[t]
    BY <1>26, Moved DEF WriteHead, HasMonitor
  <2>3. \A c \in Devices : Kept(c)
    BY <1>26, MutexNames, Mutexed DEF WriteHead, Kept, monitor
  <2>4. HasMonitor(t)' => mutex'[Monitor(arg'[t].d)] = t
    BY <2>2, <2>3, ServedCall DEF Kept
  <2>. QED
    BY <2>1, <2>3, <2>4, MonitorFrame
<1>27. ASSUME NEW t \in Threads, OpenFifoStream(t)
       PROVE  MonitorHeld' /\ InStep'
  <2>1. OnlyMoves(t) /\ pc[t] # "response" /\ pc'[t] # "response"
    BY <1>27, Moved DEF OpenFifoStream
  <2>2. HasMonitor(t)' => HasMonitor(t) /\ arg'[t] = arg[t]
    BY <1>27, Moved DEF OpenFifoStream, HasMonitor
  <2>3. \A c \in Devices : Kept(c)
    BY <1>27 DEF OpenFifoStream, Kept, locks, monitor
  <2>4. HasMonitor(t)' => mutex'[Monitor(arg'[t].d)] = t
    BY <2>2, <2>3, ServedCall DEF Kept
  <2>. QED
    BY <2>1, <2>3, <2>4, MonitorFrame
<1>28. ASSUME NEW t \in Threads, FifoAllocated(t)
       PROVE  MonitorHeld' /\ InStep'
  <2>1. pc[t] = "response" /\ arg[t].d \in Devices
    BY <1>28, InCall DEF FifoAllocated, At, Response
  <2>2. OnlyMoves(t) /\ pc'[t] # "response" /\ (HasMonitor(t)' => arg'[t].d = arg[t].d)
    BY <1>28, Moved DEF FifoAllocated, HasMonitor
  <2>3. Emptied(arg[t].d) /\ \A c \in Devices \ {arg[t].d} : requests'[c] = requests[c] /\ responses'[c] = responses[c]
    BY <1>28, OneResponse DEF FifoAllocated, Ops
  <2>4. HasMonitor(t)
    BY <2>1 DEF HasMonitor
  <2>7. \A c \in Devices \ {arg[t].d} : mutex'[Monitor(c)] = mutex[Monitor(c)]
    BY <1>28, <2>1, MutexNames, Mutexed DEF FifoAllocated
  <2>5. \A c \in Devices :
                         \/ Kept(c) /\ c # arg[t].d
                         \/ HasMonitor(t) /\ c = arg[t].d /\ Emptied(c)
    BY <2>3, <2>4, <2>7 DEF Kept
  <2>6. HasMonitor(t)' => mutex'[Monitor(arg'[t].d)] = t
    BY <1>28, Moved DEF FifoAllocated, HasMonitor
  <2>. QED
    BY <2>2, <2>5, <2>6, ServedCall, MonitorFrame
<1>29. ASSUME NEW t \in Threads, GraphDeallocated(t)
       PROVE  MonitorHeld' /\ InStep'
  <2>1. pc[t] = "response" /\ arg[t].d \in Devices
    BY <1>29, InCall DEF GraphDeallocated, At, Response
  <2>2. OnlyMoves(t) /\ pc'[t] # "response" /\ (HasMonitor(t)' => arg'[t].d = arg[t].d)
    BY <1>29, Moved DEF GraphDeallocated, HasMonitor
  <2>3. Emptied(arg[t].d) /\ \A c \in Devices \ {arg[t].d} : requests'[c] = requests[c] /\ responses'[c] = responses[c]
    BY <1>29, OneResponse DEF GraphDeallocated, Ops
  <2>4. HasMonitor(t)
    BY <2>1 DEF HasMonitor
  <2>7. \A c \in Devices \ {arg[t].d} : mutex'[Monitor(c)] = mutex[Monitor(c)]
    BY <1>29, <2>1, MutexNames, Mutexed DEF GraphDeallocated
  <2>5. \A c \in Devices :
                         \/ Kept(c) /\ c # arg[t].d
                         \/ HasMonitor(t) /\ c = arg[t].d /\ Emptied(c)
    BY <2>3, <2>4, <2>7 DEF Kept
  <2>6. HasMonitor(t)' => mutex'[Monitor(arg'[t].d)] = t
    BY <1>29, Moved DEF GraphDeallocated, HasMonitor
  <2>. QED
    BY <2>2, <2>5, <2>6, ServedCall, MonitorFrame
<1>30. ASSUME NEW t \in Threads, FifoDeallocated(t)
       PROVE  MonitorHeld' /\ InStep'
  <2>1. pc[t] = "response" /\ arg[t].d \in Devices
    BY <1>30, InCall DEF FifoDeallocated, At, Response
  <2>2. OnlyMoves(t) /\ pc'[t] # "response" /\ (HasMonitor(t)' => arg'[t].d = arg[t].d)
    BY <1>30, Moved DEF FifoDeallocated, HasMonitor
  <2>3. Emptied(arg[t].d) /\ \A c \in Devices \ {arg[t].d} : requests'[c] = requests[c] /\ responses'[c] = responses[c]
    BY <1>30, OneResponse DEF FifoDeallocated, Ops
  <2>4. HasMonitor(t)
    BY <2>1 DEF HasMonitor
  <2>7. \A c \in Devices \ {arg[t].d} : mutex'[Monitor(c)] = mutex[Monitor(c)]
    BY <1>30, <2>1, MutexNames, Mutexed DEF FifoDeallocated
  <2>5. \A c \in Devices :
                         \/ Kept(c) /\ c # arg[t].d
                         \/ HasMonitor(t) /\ c = arg[t].d /\ Emptied(c)
    BY <2>3, <2>4, <2>7 DEF Kept
  <2>6. HasMonitor(t)' => mutex'[Monitor(arg'[t].d)] = t
    BY <1>30, Moved DEF FifoDeallocated, HasMonitor
  <2>. QED
    BY <2>2, <2>5, <2>6, ServedCall, MonitorFrame
<1>31. ASSUME NEW t \in Threads, GraphOption(t)
       PROVE  MonitorHeld' /\ InStep'
  <2>1. pc[t] = "response" /\ arg[t].d \in Devices
    BY <1>31, InCall DEF GraphOption, At
  <2>2. OnlyMoves(t) /\ pc'[t] # "response" /\ (HasMonitor(t)' => arg'[t].d = arg[t].d)
    BY <1>31, Moved DEF GraphOption, HasMonitor
  <2>3. Emptied(arg[t].d) /\ \A c \in Devices \ {arg[t].d} : requests'[c] = requests[c] /\ responses'[c] = responses[c]
    BY <1>31, TwoResponses
  <2>4. HasMonitor(t)
    BY <2>1 DEF HasMonitor
  <2>7. \A c \in Devices \ {arg[t].d} : mutex'[Monitor(c)] = mutex[Monitor(c)]
    BY <1>31, <2>1, MutexNames, Mutexed DEF GraphOption
  <2>5. \A c \in Devices :
                         \/ Kept(c) /\ c # arg[t].d
                         \/ HasMonitor(t) /\ c = arg[t].d /\ Emptied(c)
    BY <2>3, <2>4, <2>7 DEF Kept
  <2>6. HasMonitor(t)' => mutex'[Monitor(arg'[t].d)] = t
    BY <1>31, Moved DEF GraphOption, HasMonitor
  <2>. QED
    BY <2>2, <2>5, <2>6, ServedCall, MonitorFrame
<1>32. ASSUME NEW t \in Threads, Deallocate(t)
       PROVE  MonitorHeld' /\ InStep'
  <2>1. OnlyMoves(t) /\ pc[t] # "response" /\ pc'[t] # "response"
    BY <1>32, Moved DEF Deallocate
  <2>2. HasMonitor(t)' => HasMonitor(t) /\ arg'[t] = arg[t]
    BY <1>32, Moved DEF Deallocate, HasMonitor
  <2>3. \A c \in Devices : Kept(c)
    BY <1>32 DEF Deallocate, Kept, locks, monitor
  <2>4. HasMonitor(t)' => mutex'[Monitor(arg'[t].d)] = t
    BY <2>2, <2>3, ServedCall DEF Kept
  <2>. QED
    BY <2>1, <2>3, <2>4, MonitorFrame
<1>33. ASSUME NEW d \in Devices, Boots(d)
       PROVE  MonitorHeld' /\ InStep'
  BY <1>33, NothingMoves DEF Boots, locks, threads, monitor
<1>34. ASSUME NEW d \in Devices, ReEnumerates(d)
       PROVE  MonitorHeld' /\ InStep'
  BY <1>34, NothingMoves DEF ReEnumerates, locks, threads, monitor
<1>35. ASSUME NEW d \in Devices, MonitorExecutes(d)
       PROVE  MonitorHeld' /\ InStep'
  BY <1>35, Executed
<1>36. ASSUME NEW d \in Devices, MonitorAnswers(d)
       PROVE  MonitorHeld' /\ InStep'
  BY <1>36, NothingMoves DEF MonitorAnswers, locks, threads, monitor
<1>. QED
  BY <1>1, <1>2, <1>3, <1>4, <1>5, <1>6, <1>7, <1>8, <1>9, <1>10, <1>11, <1>12,
     <1>13, <1>14, <1>15, <1>16, <1>17, <1>18, <1>19, <1>20, <1>21, <1>22, <1>23,
     <1>24, <1>25, <1>26, <1>27, <1>28, <1>29, <1>30, <1>31, <1>32, <1>33, <1>34,
     <1>35, <1>36
     DEF Next, Begin, Step, Device

-----------------------------------------------------------------------------
(* The mutexes *)
\* A mutex is free or a thread has it.
LEMMA MutexesTyped ==
    ASSUME TypeOK
    PROVE  mutex \in [Mutexes -> Threads \cup {None}]
  BY DEF TypeOK

\* No call has more than it should when only one thread moves, and it has what it
\* should.
LEMMA LockFrame ==
    ASSUME HeldInCalls, NEW t \in Threads, OnlyMoves(t),
           \A m \in Mutexes : mutex'[m] \in {mutex[m], None, t},
           \A m \in Mutexes : mutex'[m] = t => Holds(t, m)'
    PROVE  HeldInCalls'
<1> SUFFICES ASSUME NEW m \in Mutexes, NEW q \in Threads \ {t}, mutex'[m] = q
             PROVE  Holds(q, m)'
  BY DEF HeldInCalls
<1>1. mutex[m] = q
  BY NoneIsNothing
<1>2. Holds(q, m) /\ pc'[q] = pc[q] /\ arg'[q] = arg[q]
  BY <1>1 DEF HeldInCalls, OnlyMoves
<1>. QED
  BY <1>2 DEF Holds, HasMonitor

\* A thread has the mutexes its place allows.
LEMMA NothingHeld ==
    ASSUME HeldInCalls, NEW t \in Threads
    PROVE  \A m \in Mutexes : mutex[m] = t => Holds(t, m)
  BY DEF HeldInCalls

\* Without the fault, the answer to the destruction of a graph is an acknowledgement.
LEMMA DestroyAccepted ==
    ASSUME TypeOK, CallsFit, MonitorHeld, InStep, Faults \cap Leaks = {},
           NEW t \in Threads, Response(t, "graphDestroy")
    PROVE  Accepted(t)
<1>1. HasMonitor(t) /\ pc[t] = "response" /\ arg[t].op = "graphDestroy" /\ responses[arg[t].d] # <<>>
  BY DEF Response, At, HasMonitor
<1>2. PICK no \in Refuses("graphDestroy") : responses[arg[t].d] = Answers(t, no)
  BY <1>1, ServedCall
<1>3. no = FALSE
  BY DEF Refuses, Outcome, Leaks
<1>4. responses[arg[t].d] = <<[msg |-> Request(t), ok |-> TRUE]>>
  BY <1>1, <1>2, <1>3 DEF Answers, Answer
<1>. QED
  BY <1>4 DEF Accepted

\* Every step leaves each call with the mutexes its place allows, when no call gives
\* up with one.
LEMMA LockStep ==
    ASSUME TypeOK, CallsFit, MonitorHeld, InStep, HeldInCalls,
           Faults \cap (Leaves \cup Leaks) = {}, Next
    PROVE  HeldInCalls'
<1>1. ASSUME NEW t \in Threads, NEW d \in Devices, ncDeviceCreate(t, d)
       PROVE  HeldInCalls'
  BY <1>1 DEF ncDeviceCreate, HeldInCalls, Holds, HasMonitor, locks, threads
<1>2. ASSUME NEW t \in Threads, NEW d \in Devices, ncDeviceOpen(t, d)
       PROVE  HeldInCalls'
  <2>1. OnlyMoves(t)
    BY <1>2, Moved DEF ncDeviceOpen, threads
  <2>2. \A m \in Mutexes : mutex'[m] \in {mutex[m], None, t}
    BY <1>2, MutexesTyped DEF ncDeviceOpen, Lock
  <2>3. ASSUME NEW m \in Mutexes, mutex'[m] = t
        PROVE  Holds(t, m)'
    <3>0. pc[t] # "idle" => arg[t].d \in Devices /\ Monitor(arg[t].d) \in Mutexes /\ Stream(arg[t].d) \in Mutexes
      BY InCall, MutexNames

    <3>4. Global \in Mutexes /\ mutex \in [Mutexes -> Threads \cup {None}]
      BY MutexNames DEF TypeOK
    <3>1. /\ pc[t] = "idle"
          /\ mutex'[m] = mutex[m] \/ (pc'[t] = "connect" /\ (m # Global => mutex'[m] = mutex[m]))
      BY <1>2 DEF ncDeviceOpen, Lock, Call, TypeOK, Quiet
    <3>2. mutex[m] = t => Holds(t, m)
      BY NothingHeld
    <3>. QED
      BY <2>3, <3>1, <3>2 DEF Holds, HasMonitor
  <2>. QED
    BY <2>1, <2>2, <2>3, LockFrame
<1>3. ASSUME NEW t \in Threads, NEW d \in Devices, ncDeviceDestroy(t, d)
       PROVE  HeldInCalls'
  <2>1. OnlyMoves(t)
    BY <1>3, Moved DEF ncDeviceDestroy
  <2>2. \A m \in Mutexes : mutex'[m] \in {mutex[m], None, t}
    BY <1>3 DEF ncDeviceDestroy, locks
  <2>3. ASSUME NEW m \in Mutexes, mutex'[m] = t
        PROVE  Holds(t, m)'
    <3>0. pc[t] # "idle" => arg[t].d \in Devices /\ Monitor(arg[t].d) \in Mutexes /\ Stream(arg[t].d) \in Mutexes
      BY InCall, MutexNames

    <3>4. Global \in Mutexes /\ mutex \in [Mutexes -> Threads \cup {None}]
      BY MutexNames DEF TypeOK
    <3>1. /\ pc[t] = "idle"
          /\ mutex'[m] = mutex[m]
      BY <1>3 DEF ncDeviceDestroy, locks, Quiet
    <3>2. mutex[m] = t => Holds(t, m)
      BY NothingHeld
    <3>. QED
      BY <2>3, <3>1, <3>2 DEF Holds, HasMonitor
  <2>. QED
    BY <2>1, <2>2, <2>3, LockFrame
<1>4. ASSUME NEW t \in Threads, NEW d \in Devices, NEW op \in {"deviceClose", "deviceDestroy"}, ncDeviceClose(t, d, op)
       PROVE  HeldInCalls'
  <2>1. OnlyMoves(t)
    BY <1>4, Moved DEF ncDeviceClose
  <2>2. \A m \in Mutexes : mutex'[m] \in {mutex[m], None, t}
    BY <1>4 DEF ncDeviceClose, Lock
  <2>3. ASSUME NEW m \in Mutexes, mutex'[m] = t
        PROVE  Holds(t, m)'
    <3>0. pc[t] # "idle" => arg[t].d \in Devices /\ Monitor(arg[t].d) \in Mutexes /\ Stream(arg[t].d) \in Mutexes
      BY InCall, MutexNames

    <3>4. Global \in Mutexes /\ mutex \in [Mutexes -> Threads \cup {None}]
      BY MutexNames DEF TypeOK
    <3>1. /\ pc[t] = "idle"
          /\ pc'[t] = "close"
          /\ (m # Global => mutex'[m] = mutex[m])
      BY <1>4 DEF ncDeviceClose, Lock, Call, TypeOK, Quiet
    <3>2. mutex[m] = t => Holds(t, m)
      BY NothingHeld
    <3>. QED
      BY <2>3, <3>1, <3>2 DEF Holds, HasMonitor
  <2>. QED
    BY <2>1, <2>2, <2>3, LockFrame
<1>5. ASSUME NEW t \in Threads, NEW d \in Devices, ncDeviceGetOption(t, d)
       PROVE  HeldInCalls'
  <2>1. OnlyMoves(t)
    BY <1>5, Moved DEF ncDeviceGetOption
  <2>2. \A m \in Mutexes : mutex'[m] \in {mutex[m], None, t}
    BY <1>5 DEF ncDeviceGetOption, locks
  <2>3. ASSUME NEW m \in Mutexes, mutex'[m] = t
        PROVE  Holds(t, m)'
    <3>0. pc[t] # "idle" => arg[t].d \in Devices /\ Monitor(arg[t].d) \in Mutexes /\ Stream(arg[t].d) \in Mutexes
      BY InCall, MutexNames

    <3>4. Global \in Mutexes /\ mutex \in [Mutexes -> Threads \cup {None}]
      BY MutexNames DEF TypeOK
    <3>1. /\ pc[t] = "idle"
          /\ mutex'[m] = mutex[m]
      BY <1>5 DEF ncDeviceGetOption, locks
    <3>2. mutex[m] = t => Holds(t, m)
      BY NothingHeld
    <3>. QED
      BY <2>3, <3>1, <3>2 DEF Holds, HasMonitor
  <2>. QED
    BY <2>1, <2>2, <2>3, LockFrame
<1>6. ASSUME NEW t \in Threads, NEW e \in Elements, Create(t, e)
       PROVE  HeldInCalls'
  BY <1>6 DEF Create, HeldInCalls, Holds, HasMonitor, locks, threads
<1>7. ASSUME NEW t \in Threads, NEW e \in Elements, DestroyCreated(t, e)
       PROVE  HeldInCalls'
  BY <1>7 DEF DestroyCreated, HeldInCalls, Holds, HasMonitor, locks, threads
<1>8. ASSUME NEW t \in Threads, NEW g \in Graphs, ncGraphDestroy(t, g)
       PROVE  HeldInCalls'
  <2>1. OnlyMoves(t)
    BY <1>8, Moved DEF ncGraphDestroy
  <2>2. \A m \in Mutexes : mutex'[m] \in {mutex[m], None, t}
    BY <1>8 DEF ncGraphDestroy, locks
  <2>3. ASSUME NEW m \in Mutexes, mutex'[m] = t
        PROVE  Holds(t, m)'
    <3>0. pc[t] # "idle" => arg[t].d \in Devices /\ Monitor(arg[t].d) \in Mutexes /\ Stream(arg[t].d) \in Mutexes
      BY InCall, MutexNames

    <3>4. Global \in Mutexes /\ mutex \in [Mutexes -> Threads \cup {None}]
      BY MutexNames DEF TypeOK
    <3>1. /\ pc[t] = "idle"
          /\ mutex'[m] = mutex[m]
      BY <1>8 DEF ncGraphDestroy, locks, Quiet
    <3>2. mutex[m] = t => Holds(t, m)
      BY NothingHeld
    <3>. QED
      BY <2>3, <3>1, <3>2 DEF Holds, HasMonitor
  <2>. QED
    BY <2>1, <2>2, <2>3, LockFrame
<1>9. ASSUME NEW t \in Threads, NEW g \in Graphs, ncGraphGetOption(t, g)
       PROVE  HeldInCalls'
  <2>1. OnlyMoves(t)
    BY <1>9, Moved DEF ncGraphGetOption
  <2>2. \A m \in Mutexes : mutex'[m] \in {mutex[m], None, t}
    BY <1>9 DEF ncGraphGetOption, locks
  <2>3. ASSUME NEW m \in Mutexes, mutex'[m] = t
        PROVE  Holds(t, m)'
    <3>0. pc[t] # "idle" => arg[t].d \in Devices /\ Monitor(arg[t].d) \in Mutexes /\ Stream(arg[t].d) \in Mutexes
      BY InCall, MutexNames

    <3>4. Global \in Mutexes /\ mutex \in [Mutexes -> Threads \cup {None}]
      BY MutexNames DEF TypeOK
    <3>1. /\ pc[t] = "idle"
          /\ mutex'[m] = mutex[m]
      BY <1>9 DEF ncGraphGetOption, locks, Quiet
    <3>2. mutex[m] = t => Holds(t, m)
      BY NothingHeld
    <3>. QED
      BY <2>3, <3>1, <3>2 DEF Holds, HasMonitor
  <2>. QED
    BY <2>1, <2>2, <2>3, LockFrame
<1>10. ASSUME NEW t \in Threads, NEW g \in Graphs, NEW d \in Devices, ncGraphAllocate(t, g, d)
       PROVE  HeldInCalls'
  <2>1. OnlyMoves(t)
    BY <1>10, Moved DEF ncGraphAllocate, threads
  <2>2. \A m \in Mutexes : mutex'[m] \in {mutex[m], None, t}
    BY <1>10 DEF ncGraphAllocate, locks
  <2>3. ASSUME NEW m \in Mutexes, mutex'[m] = t
        PROVE  Holds(t, m)'
    <3>0. pc[t] # "idle" => arg[t].d \in Devices /\ Monitor(arg[t].d) \in Mutexes /\ Stream(arg[t].d) \in Mutexes
      BY InCall, MutexNames

    <3>4. Global \in Mutexes /\ mutex \in [Mutexes -> Threads \cup {None}]
      BY MutexNames DEF TypeOK
    <3>1. /\ pc[t] = "idle"
          /\ mutex'[m] = mutex[m]
      BY <1>10 DEF ncGraphAllocate, locks, Quiet
    <3>2. mutex[m] = t => Holds(t, m)
      BY NothingHeld
    <3>. QED
      BY <2>3, <3>1, <3>2 DEF Holds, HasMonitor
  <2>. QED
    BY <2>1, <2>2, <2>3, LockFrame
<1>11. ASSUME NEW t \in Threads, NEW f \in Fifos, ncFifoDestroy(t, f)
       PROVE  HeldInCalls'
  <2>1. OnlyMoves(t)
    BY <1>11, Moved DEF ncFifoDestroy
  <2>2. \A m \in Mutexes : mutex'[m] \in {mutex[m], None, t}
    BY <1>11 DEF ncFifoDestroy, locks
  <2>3. ASSUME NEW m \in Mutexes, mutex'[m] = t
        PROVE  Holds(t, m)'
    <3>0. pc[t] # "idle" => arg[t].d \in Devices /\ Monitor(arg[t].d) \in Mutexes /\ Stream(arg[t].d) \in Mutexes
      BY InCall, MutexNames

    <3>4. Global \in Mutexes /\ mutex \in [Mutexes -> Threads \cup {None}]
      BY MutexNames DEF TypeOK
    <3>1. /\ pc[t] = "idle"
          /\ mutex'[m] = mutex[m]
      BY <1>11 DEF ncFifoDestroy, locks, Quiet
    <3>2. mutex[m] = t => Holds(t, m)
      BY NothingHeld
    <3>. QED
      BY <2>3, <3>1, <3>2 DEF Holds, HasMonitor
  <2>. QED
    BY <2>1, <2>2, <2>3, LockFrame
<1>12. ASSUME NEW t \in Threads, NEW f \in Fifos, NEW d \in Devices, ncFifoAllocate(t, f, d)
       PROVE  HeldInCalls'
  <2>1. OnlyMoves(t)
    BY <1>12, Moved DEF ncFifoAllocate
  <2>2. \A m \in Mutexes : mutex'[m] \in {mutex[m], None, t}
    BY <1>12 DEF ncFifoAllocate, locks
  <2>3. ASSUME NEW m \in Mutexes, mutex'[m] = t
        PROVE  Holds(t, m)'
    <3>0. pc[t] # "idle" => arg[t].d \in Devices /\ Monitor(arg[t].d) \in Mutexes /\ Stream(arg[t].d) \in Mutexes
      BY InCall, MutexNames

    <3>4. Global \in Mutexes /\ mutex \in [Mutexes -> Threads \cup {None}]
      BY MutexNames DEF TypeOK
    <3>1. /\ pc[t] = "idle"
          /\ mutex'[m] = mutex[m]
      BY <1>12 DEF ncFifoAllocate, locks, Quiet
    <3>2. mutex[m] = t => Holds(t, m)
      BY NothingHeld
    <3>. QED
      BY <2>3, <3>1, <3>2 DEF Holds, HasMonitor
  <2>. QED
    BY <2>1, <2>2, <2>3, LockFrame
<1>13. ASSUME NEW t \in Threads, XLinkConnect(t)
       PROVE  HeldInCalls'
  <2>1. OnlyMoves(t)
    BY <1>13, Moved DEF XLinkConnect
  <2>2. \A m \in Mutexes : mutex'[m] \in {mutex[m], None, t}
    BY <1>13 DEF XLinkConnect, Linked
  <2>3. ASSUME NEW m \in Mutexes, mutex'[m] = t
        PROVE  Holds(t, m)'
    <3>0. pc[t] # "idle" => arg[t].d \in Devices /\ Monitor(arg[t].d) \in Mutexes /\ Stream(arg[t].d) \in Mutexes
      BY InCall, MutexNames

    <3>4. Global \in Mutexes /\ mutex \in [Mutexes -> Threads \cup {None}]
      BY MutexNames DEF TypeOK
    <3>1. /\ pc[t] = "connect"
          /\ (mutex'[m] = mutex[m] /\ pc'[t] = "scan") \/ (mutex'[m] \in {None, mutex[m]} /\ (m = Global => mutex'[m] = None))
      BY <1>13, Moved DEF XLinkConnect, Linked
    <3>2. mutex[m] = t => Holds(t, m)
      BY NothingHeld
    <3>. QED
      BY <2>3, <3>1, <3>2, NoneIsNothing DEF Holds, HasMonitor
  <2>. QED
    BY <2>1, <2>2, <2>3, LockFrame
<1>14. ASSUME NEW t \in Threads, ScanBootDevices(t)
       PROVE  HeldInCalls'
  <2>0. Outcome("late") = {FALSE}
    BY DEF Outcome, Leaks
  <2>4. Linked(arg[t].d)
    BY <1>14, <2>0 DEF ScanBootDevices
  <2>1. OnlyMoves(t)
    BY <1>14, Moved DEF ScanBootDevices
  <2>2. \A m \in Mutexes : mutex'[m] \in {mutex[m], None, t}
    BY <1>14 DEF ScanBootDevices, Linked
  <2>3. ASSUME NEW m \in Mutexes, mutex'[m] = t
        PROVE  Holds(t, m)'
    <3>0. pc[t] # "idle" => arg[t].d \in Devices /\ Monitor(arg[t].d) \in Mutexes /\ Stream(arg[t].d) \in Mutexes
      BY InCall, MutexNames

    <3>4. Global \in Mutexes /\ mutex \in [Mutexes -> Threads \cup {None}]
      BY MutexNames DEF TypeOK
    <3>5. pc[t] = "scan" /\ arg[t].op = "deviceOpen"
      BY <1>14 DEF ScanBootDevices, CallsFit, Fits
    <3>1. /\ pc[t] = "scan" /\ arg[t].op = "deviceOpen"
          /\ mutex'[m] \in {None, mutex[m]} /\ (m = Global => mutex'[m] = None)
      BY <2>4, <3>5 DEF Linked
    <3>2. mutex[m] = t => Holds(t, m)
      BY NothingHeld
    <3>. QED
      BY <2>3, <3>1, <3>2, NoneIsNothing DEF Holds, HasMonitor
  <2>. QED
    BY <2>1, <2>2, <2>3, LockFrame
<1>15. ASSUME NEW t \in Threads, OpenDeviceMonitor(t)
       PROVE  HeldInCalls'
  <2>1. OnlyMoves(t)
    BY <1>15, Moved DEF OpenDeviceMonitor
  <2>2. \A m \in Mutexes : mutex'[m] \in {mutex[m], None, t}
    BY <1>15 DEF OpenDeviceMonitor, locks
  <2>3. ASSUME NEW m \in Mutexes, mutex'[m] = t
        PROVE  Holds(t, m)'
    <3>0. pc[t] # "idle" => arg[t].d \in Devices /\ Monitor(arg[t].d) \in Mutexes /\ Stream(arg[t].d) \in Mutexes
      BY InCall, MutexNames

    <3>4. Global \in Mutexes /\ mutex \in [Mutexes -> Threads \cup {None}]
      BY MutexNames DEF TypeOK
    <3>1. /\ pc[t] = "streams"
          /\ mutex'[m] = mutex[m]
      BY <1>15 DEF OpenDeviceMonitor, locks
    <3>2. mutex[m] = t => Holds(t, m)
      BY NothingHeld
    <3>. QED
      BY <2>3, <3>1, <3>2 DEF Holds, HasMonitor
  <2>. QED
    BY <2>1, <2>2, <2>3, LockFrame
<1>16. ASSUME NEW t \in Threads, DeallocateAll(t)
       PROVE  HeldInCalls'
  <2>1. OnlyMoves(t)
    BY <1>16, Moved DEF DeallocateAll
  <2>2. \A m \in Mutexes : mutex'[m] \in {mutex[m], None, t}
    BY <1>16 DEF DeallocateAll
  <2>3. ASSUME NEW m \in Mutexes, mutex'[m] = t
        PROVE  Holds(t, m)'
    <3>0. pc[t] # "idle" => arg[t].d \in Devices /\ Monitor(arg[t].d) \in Mutexes /\ Stream(arg[t].d) \in Mutexes
      BY InCall, MutexNames

    <3>4. Global \in Mutexes /\ mutex \in [Mutexes -> Threads \cup {None}]
      BY MutexNames DEF TypeOK
    <3>1. /\ pc[t] = "close"
          /\ mutex'[m] \in {None, mutex[m]} /\ (m = Global => mutex'[m] = None)
      BY <1>16 DEF DeallocateAll
    <3>2. mutex[m] = t => Holds(t, m)
      BY NothingHeld
    <3>. QED
      BY <2>3, <3>1, <3>2, NoneIsNothing DEF Holds, HasMonitor
  <2>. QED
    BY <2>1, <2>2, <2>3, LockFrame
<1>17. ASSUME NEW t \in Threads, FreeDevice(t)
       PROVE  HeldInCalls'
  <2>1. OnlyMoves(t)
    BY <1>17, Moved DEF FreeDevice
  <2>2. \A m \in Mutexes : mutex'[m] \in {mutex[m], None, t}
    BY <1>17 DEF FreeDevice, locks
  <2>3. ASSUME NEW m \in Mutexes, mutex'[m] = t
        PROVE  Holds(t, m)'
    <3>0. pc[t] # "idle" => arg[t].d \in Devices /\ Monitor(arg[t].d) \in Mutexes /\ Stream(arg[t].d) \in Mutexes
      BY InCall, MutexNames

    <3>4. Global \in Mutexes /\ mutex \in [Mutexes -> Threads \cup {None}]
      BY MutexNames DEF TypeOK
    <3>1. /\ pc[t] = "free"
          /\ mutex'[m] = mutex[m]
      BY <1>17 DEF FreeDevice, locks
    <3>2. mutex[m] = t => Holds(t, m)
      BY NothingHeld
    <3>. QED
      BY <2>3, <3>1, <3>2 DEF Holds, HasMonitor
  <2>. QED
    BY <2>1, <2>2, <2>3, LockFrame
<1>18. ASSUME NEW t \in Threads, CheckDevice(t)
       PROVE  HeldInCalls'
  <2>1. OnlyMoves(t)
    BY <1>18, Moved DEF CheckDevice
  <2>2. \A m \in Mutexes : mutex'[m] \in {mutex[m], None, t}
    BY <1>18 DEF CheckDevice, locks
  <2>3. ASSUME NEW m \in Mutexes, mutex'[m] = t
        PROVE  Holds(t, m)'
    <3>0. pc[t] # "idle" => arg[t].d \in Devices /\ Monitor(arg[t].d) \in Mutexes /\ Stream(arg[t].d) \in Mutexes
      BY InCall, MutexNames

    <3>4. Global \in Mutexes /\ mutex \in [Mutexes -> Threads \cup {None}]
      BY MutexNames DEF TypeOK
    <3>1. /\ pc[t] = "check"
          /\ pc'[t] = "ask" /\ arg'[t] = arg[t]
          /\ mutex'[m] = mutex[m]
      BY <1>18, Moved DEF CheckDevice, locks
    <3>2. mutex[m] = t => Holds(t, m)
      BY NothingHeld
    <3>. QED
      BY <2>3, <3>1, <3>2 DEF Holds, HasMonitor
  <2>. QED
    BY <2>1, <2>2, <2>3, LockFrame
<1>19. ASSUME NEW t \in Threads, AskDevice(t)
       PROVE  HeldInCalls'
  <2>1. OnlyMoves(t)
    BY <1>19, Moved DEF AskDevice
  <2>2. \A m \in Mutexes : mutex'[m] \in {mutex[m], None, t}
    BY <1>19 DEF AskDevice, Lock
  <2>3. ASSUME NEW m \in Mutexes, mutex'[m] = t
        PROVE  Holds(t, m)'
    <3>0. pc[t] # "idle" => arg[t].d \in Devices /\ Monitor(arg[t].d) \in Mutexes /\ Stream(arg[t].d) \in Mutexes
      BY InCall, MutexNames

    <3>4. Global \in Mutexes /\ mutex \in [Mutexes -> Threads \cup {None}]
      BY MutexNames DEF TypeOK
    <3>1. /\ pc[t] = "ask"
          /\ pc'[t] = "answer" /\ arg'[t] = arg[t]
          /\ (m # Stream(arg[t].d) => mutex'[m] = mutex[m])
      BY <1>19, Moved DEF AskDevice, Lock
    <3>2. mutex[m] = t => Holds(t, m)
      BY NothingHeld
    <3>. QED
      BY <2>3, <3>1, <3>2 DEF Holds, HasMonitor
  <2>. QED
    BY <2>1, <2>2, <2>3, LockFrame
<1>20. ASSUME NEW t \in Threads, ReadAnswer(t)
       PROVE  HeldInCalls'
  <2>1. OnlyMoves(t)
    BY <1>20, Moved DEF ReadAnswer
  <2>2. \A m \in Mutexes : mutex'[m] \in {mutex[m], None, t}
    BY <1>20 DEF ReadAnswer, Unlock
  <2>3. ASSUME NEW m \in Mutexes, mutex'[m] = t
        PROVE  Holds(t, m)'
    <3>0. pc[t] # "idle" => arg[t].d \in Devices /\ Monitor(arg[t].d) \in Mutexes /\ Stream(arg[t].d) \in Mutexes
      BY InCall, MutexNames

    <3>4. Global \in Mutexes /\ mutex \in [Mutexes -> Threads \cup {None}]
      BY MutexNames DEF TypeOK
    <3>1. /\ pc[t] = "answer"
          /\ pc'[t] = "copy" /\ arg'[t] = arg[t]
          /\ mutex'[m] \in {None, mutex[m]} /\ (m = Stream(arg[t].d) => mutex'[m] = None)
      BY <1>20, <3>4, Moved DEF ReadAnswer, Unlock
    <3>2. mutex[m] = t => Holds(t, m)
      BY NothingHeld
    <3>. QED
      BY <2>3, <3>1, <3>2, NoneIsNothing DEF Holds, HasMonitor
  <2>. QED
    BY <2>1, <2>2, <2>3, LockFrame
<1>21. ASSUME NEW t \in Threads, CopyAnswer(t)
       PROVE  HeldInCalls'
  <2>1. OnlyMoves(t)
    BY <1>21, Moved DEF CopyAnswer
  <2>2. \A m \in Mutexes : mutex'[m] \in {mutex[m], None, t}
    BY <1>21, MutexesTyped DEF CopyAnswer, Unlock
  <2>3. ASSUME NEW m \in Mutexes, mutex'[m] = t
        PROVE  Holds(t, m)'
    <3>0. pc[t] # "idle" => arg[t].d \in Devices /\ Monitor(arg[t].d) \in Mutexes /\ Stream(arg[t].d) \in Mutexes
      BY InCall, MutexNames

    <3>4. Global \in Mutexes /\ mutex \in [Mutexes -> Threads \cup {None}]
      BY MutexNames DEF TypeOK
    <3>1. /\ pc[t] = "copy"
          /\ IF arg[t].op = "graphAllocate" THEN mutex'[m] \in {None, mutex[m]} /\ (m = Monitor(arg[t].d) => mutex'[m] = None) ELSE mutex'[m] = mutex[m]
      BY <1>21, <3>4 DEF CopyAnswer, Unlock
    <3>2. mutex[m] = t => Holds(t, m)
      BY NothingHeld
    <3>. QED
      BY <2>3, <3>1, <3>2, NoneIsNothing DEF Holds, HasMonitor
  <2>. QED
    BY <2>1, <2>2, <2>3, LockFrame
<1>22. ASSUME NEW t \in Threads, sendGraphMonitorRequest(t)
       PROVE  HeldInCalls'
  <2>1. OnlyMoves(t)
    BY <1>22, Moved DEF sendGraphMonitorRequest
  <2>2. \A m \in Mutexes : mutex'[m] \in {mutex[m], None, t}
    BY <1>22, MutexesTyped DEF sendGraphMonitorRequest, Lock
  <2>3. ASSUME NEW m \in Mutexes, mutex'[m] = t
        PROVE  Holds(t, m)'
    <3>0. pc[t] # "idle" => arg[t].d \in Devices /\ Monitor(arg[t].d) \in Mutexes /\ Stream(arg[t].d) \in Mutexes
      BY InCall, MutexNames

    <3>4. Global \in Mutexes /\ mutex \in [Mutexes -> Threads \cup {None}]
      BY MutexNames DEF TypeOK
    <3>1. /\ pc[t] = "send"
          /\ mutex'[m] = mutex[m] \/ (pc'[t] \in {"response", "stuck"} /\ arg'[t] = arg[t] /\ (m # Monitor(arg[t].d) => mutex'[m] = mutex[m]))
      BY <1>22, <3>4, Moved DEF sendGraphMonitorRequest, Lock
    <3>2. mutex[m] = t => Holds(t, m)
      BY NothingHeld
    <3>. QED
      BY <2>3, <3>1, <3>2 DEF Holds, HasMonitor
  <2>. QED
    BY <2>1, <2>2, <2>3, LockFrame
<1>23. ASSUME NEW t \in Threads, GraphAllocated(t)
       PROVE  HeldInCalls'
  <2>0. Outcome("graphInvalid") = {FALSE}
    BY DEF Outcome, Leaks
  <2>4. (Goto(t, "check") /\ UNCHANGED mutex) \/ Unlock(Monitor(arg[t].d))
    BY <1>23, <2>0 DEF GraphAllocated
  <2>1. OnlyMoves(t)
    BY <1>23, Moved DEF GraphAllocated
  <2>2. \A m \in Mutexes : mutex'[m] \in {mutex[m], None, t}
    BY <1>23, MutexesTyped DEF GraphAllocated, Unlock
  <2>3. ASSUME NEW m \in Mutexes, mutex'[m] = t
        PROVE  Holds(t, m)'
    <3>0. pc[t] # "idle" => arg[t].d \in Devices /\ Monitor(arg[t].d) \in Mutexes /\ Stream(arg[t].d) \in Mutexes
      BY InCall, MutexNames

    <3>4. Global \in Mutexes /\ mutex \in [Mutexes -> Threads \cup {None}]
      BY MutexNames DEF TypeOK
    <3>5. pc[t] = "response" /\ arg[t].op = "graphAllocate"
      BY <1>23 DEF GraphAllocated, Response, At
    <3>1. /\ pc[t] = "response"
          /\ (mutex'[m] = mutex[m] /\ pc'[t] = "check" /\ arg'[t] = arg[t] /\ arg[t].op = "graphAllocate") \/ (mutex'[m] \in {None, mutex[m]} /\ (m = Monitor(arg[t].d) => mutex'[m] = None))
      BY <2>4, <3>4, <3>5, Moved DEF Unlock
    <3>2. mutex[m] = t => Holds(t, m)
      BY NothingHeld
    <3>. QED
      BY <2>3, <3>1, <3>2, NoneIsNothing DEF Holds, HasMonitor
  <2>. QED
    BY <2>1, <2>2, <2>3, LockFrame
<1>24. ASSUME NEW t \in Threads, GraphUnsupported(t)
       PROVE  HeldInCalls'
  <2>1. OnlyMoves(t)
    BY <1>24, Moved DEF GraphUnsupported
  <2>2. \A m \in Mutexes : mutex'[m] \in {mutex[m], None, t}
    BY <1>24 DEF GraphUnsupported, Unlock
  <2>3. ASSUME NEW m \in Mutexes, mutex'[m] = t
        PROVE  Holds(t, m)'
    <3>0. pc[t] # "idle" => arg[t].d \in Devices /\ Monitor(arg[t].d) \in Mutexes /\ Stream(arg[t].d) \in Mutexes
      BY InCall, MutexNames

    <3>4. Global \in Mutexes /\ mutex \in [Mutexes -> Threads \cup {None}]
      BY MutexNames DEF TypeOK
    <3>1. /\ pc[t] = "response"
          /\ mutex'[m] \in {None, mutex[m]} /\ (m = Monitor(arg[t].d) => mutex'[m] = None)
      BY <1>24, <3>4 DEF GraphUnsupported, Unlock, At, Response
    <3>2. mutex[m] = t => Holds(t, m)
      BY NothingHeld
    <3>. QED
      BY <2>3, <3>1, <3>2, NoneIsNothing DEF Holds
  <2>. QED
    BY <2>1, <2>2, <2>3, LockFrame
<1>25. ASSUME NEW t \in Threads, LinkGraph(t)
       PROVE  HeldInCalls'
  <2>1. OnlyMoves(t)
    BY <1>25, Moved DEF LinkGraph
  <2>2. \A m \in Mutexes : mutex'[m] \in {mutex[m], None, t}
    BY <1>25 DEF LinkGraph, Lock
  <2>3. ASSUME NEW m \in Mutexes, mutex'[m] = t
        PROVE  Holds(t, m)'
    <3>0. pc[t] # "idle" => arg[t].d \in Devices /\ Monitor(arg[t].d) \in Mutexes /\ Stream(arg[t].d) \in Mutexes
      BY InCall, MutexNames

    <3>4. Global \in Mutexes /\ mutex \in [Mutexes -> Threads \cup {None}]
      BY MutexNames DEF TypeOK
    <3>1. /\ pc[t] = "link"
          /\ pc'[t] = "write" /\ arg'[t] = arg[t] /\ arg[t].e \in Graphs
          /\ (m # Global => mutex'[m] = mutex[m])
      BY <1>25, Moved DEF LinkGraph, Lock, CallsFit, Fits
    <3>2. mutex[m] = t => Holds(t, m)
      BY NothingHeld
    <3>. QED
      BY <2>3, <3>1, <3>2 DEF Holds, HasMonitor
  <2>. QED
    BY <2>1, <2>2, <2>3, LockFrame
<1>26. ASSUME NEW t \in Threads, WriteHead(t)
       PROVE  HeldInCalls'
  <2>1. OnlyMoves(t)
    BY <1>26, Moved DEF WriteHead
  <2>2. \A m \in Mutexes : mutex'[m] \in {mutex[m], None, t}
    BY <1>26, MutexesTyped DEF WriteHead, Unlock
  <2>3. ASSUME NEW m \in Mutexes, mutex'[m] = t
        PROVE  Holds(t, m)'
    <3>0. pc[t] # "idle" => arg[t].d \in Devices /\ Monitor(arg[t].d) \in Mutexes /\ Stream(arg[t].d) \in Mutexes
      BY InCall, MutexNames

    <3>4. Global \in Mutexes /\ mutex \in [Mutexes -> Threads \cup {None}]
      BY MutexNames DEF TypeOK
    <3>1. /\ pc[t] = "write"
          /\ IF arg[t].e \in Graphs THEN mutex'[m] \in {None, mutex[m]} /\ (m = Global => mutex'[m] = None) ELSE mutex'[m] = mutex[m]
      BY <1>26, <3>4 DEF WriteHead, Unlock
    <3>2. mutex[m] = t => Holds(t, m)
      BY NothingHeld
    <3>. QED
      BY <2>3, <3>1, <3>2, NoneIsNothing DEF Holds, HasMonitor
  <2>. QED
    BY <2>1, <2>2, <2>3, LockFrame
<1>27. ASSUME NEW t \in Threads, OpenFifoStream(t)
       PROVE  HeldInCalls'
  <2>1. OnlyMoves(t)
    BY <1>27, Moved DEF OpenFifoStream
  <2>2. \A m \in Mutexes : mutex'[m] \in {mutex[m], None, t}
    BY <1>27 DEF OpenFifoStream, locks
  <2>3. ASSUME NEW m \in Mutexes, mutex'[m] = t
        PROVE  Holds(t, m)'
    <3>0. pc[t] # "idle" => arg[t].d \in Devices /\ Monitor(arg[t].d) \in Mutexes /\ Stream(arg[t].d) \in Mutexes
      BY InCall, MutexNames

    <3>4. Global \in Mutexes /\ mutex \in [Mutexes -> Threads \cup {None}]
      BY MutexNames DEF TypeOK
    <3>1. /\ pc[t] = "stream"
          /\ mutex'[m] = mutex[m]
      BY <1>27 DEF OpenFifoStream, locks
    <3>2. mutex[m] = t => Holds(t, m)
      BY NothingHeld
    <3>. QED
      BY <2>3, <3>1, <3>2 DEF Holds, HasMonitor
  <2>. QED
    BY <2>1, <2>2, <2>3, LockFrame
<1>28. ASSUME NEW t \in Threads, FifoAllocated(t)
       PROVE  HeldInCalls'
  <2>1. OnlyMoves(t)
    BY <1>28, Moved DEF FifoAllocated
  <2>2. \A m \in Mutexes : mutex'[m] \in {mutex[m], None, t}
    BY <1>28 DEF FifoAllocated, Unlock
  <2>3. ASSUME NEW m \in Mutexes, mutex'[m] = t
        PROVE  Holds(t, m)'
    <3>0. pc[t] # "idle" => arg[t].d \in Devices /\ Monitor(arg[t].d) \in Mutexes /\ Stream(arg[t].d) \in Mutexes
      BY InCall, MutexNames

    <3>4. Global \in Mutexes /\ mutex \in [Mutexes -> Threads \cup {None}]
      BY MutexNames DEF TypeOK
    <3>1. /\ pc[t] = "response"
          /\ mutex'[m] \in {None, mutex[m]} /\ (m = Monitor(arg[t].d) => mutex'[m] = None)
      BY <1>28, <3>4 DEF FifoAllocated, Unlock, At, Response
    <3>2. mutex[m] = t => Holds(t, m)
      BY NothingHeld
    <3>. QED
      BY <2>3, <3>1, <3>2, NoneIsNothing DEF Holds
  <2>. QED
    BY <2>1, <2>2, <2>3, LockFrame
<1>29. ASSUME NEW t \in Threads, GraphDeallocated(t)
       PROVE  HeldInCalls'
  <2>0. Accepted(t)
    <3>1. Response(t, "graphDestroy") /\ Faults \cap Leaks = {}
      BY <1>29 DEF GraphDeallocated
    <3>. QED
      BY <3>1, DestroyAccepted
  <2>1. OnlyMoves(t)
    BY <1>29, Moved DEF GraphDeallocated
  <2>2. \A m \in Mutexes : mutex'[m] \in {mutex[m], None, t}
    BY <1>29, MutexesTyped DEF GraphDeallocated, Unlock
  <2>3. ASSUME NEW m \in Mutexes, mutex'[m] = t
        PROVE  Holds(t, m)'
    <3>0. pc[t] # "idle" => arg[t].d \in Devices /\ Monitor(arg[t].d) \in Mutexes /\ Stream(arg[t].d) \in Mutexes
      BY InCall, MutexNames

    <3>4. Global \in Mutexes /\ mutex \in [Mutexes -> Threads \cup {None}]
      BY MutexNames DEF TypeOK
    <3>1. /\ pc[t] = "response"
          /\ mutex'[m] \in {None, mutex[m]} /\ (m = Monitor(arg[t].d) => mutex'[m] = None)
      BY <1>29, <3>4, <2>0 DEF GraphDeallocated, Unlock, At, Response
    <3>2. mutex[m] = t => Holds(t, m)
      BY NothingHeld
    <3>. QED
      BY <2>3, <3>1, <3>2, NoneIsNothing DEF Holds
  <2>. QED
    BY <2>1, <2>2, <2>3, LockFrame
<1>30. ASSUME NEW t \in Threads, FifoDeallocated(t)
       PROVE  HeldInCalls'
  <2>1. OnlyMoves(t)
    BY <1>30, Moved DEF FifoDeallocated
  <2>2. \A m \in Mutexes : mutex'[m] \in {mutex[m], None, t}
    BY <1>30 DEF FifoDeallocated, Unlock
  <2>3. ASSUME NEW m \in Mutexes, mutex'[m] = t
        PROVE  Holds(t, m)'
    <3>0. pc[t] # "idle" => arg[t].d \in Devices /\ Monitor(arg[t].d) \in Mutexes /\ Stream(arg[t].d) \in Mutexes
      BY InCall, MutexNames

    <3>4. Global \in Mutexes /\ mutex \in [Mutexes -> Threads \cup {None}]
      BY MutexNames DEF TypeOK
    <3>1. /\ pc[t] = "response"
          /\ mutex'[m] \in {None, mutex[m]} /\ (m = Monitor(arg[t].d) => mutex'[m] = None)
      BY <1>30, <3>4 DEF FifoDeallocated, Unlock, At, Response
    <3>2. mutex[m] = t => Holds(t, m)
      BY NothingHeld
    <3>. QED
      BY <2>3, <3>1, <3>2, NoneIsNothing DEF Holds
  <2>. QED
    BY <2>1, <2>2, <2>3, LockFrame
<1>31. ASSUME NEW t \in Threads, GraphOption(t)
       PROVE  HeldInCalls'
  <2>1. OnlyMoves(t)
    BY <1>31, Moved DEF GraphOption
  <2>2. \A m \in Mutexes : mutex'[m] \in {mutex[m], None, t}
    BY <1>31 DEF GraphOption, Unlock
  <2>3. ASSUME NEW m \in Mutexes, mutex'[m] = t
        PROVE  Holds(t, m)'
    <3>0. pc[t] # "idle" => arg[t].d \in Devices /\ Monitor(arg[t].d) \in Mutexes /\ Stream(arg[t].d) \in Mutexes
      BY InCall, MutexNames

    <3>4. Global \in Mutexes /\ mutex \in [Mutexes -> Threads \cup {None}]
      BY MutexNames DEF TypeOK
    <3>1. /\ pc[t] = "response"
          /\ mutex'[m] \in {None, mutex[m]} /\ (m = Monitor(arg[t].d) => mutex'[m] = None)
      BY <1>31, <3>4 DEF GraphOption, Unlock, At
    <3>2. mutex[m] = t => Holds(t, m)
      BY NothingHeld
    <3>. QED
      BY <2>3, <3>1, <3>2, NoneIsNothing DEF Holds
  <2>. QED
    BY <2>1, <2>2, <2>3, LockFrame
<1>32. ASSUME NEW t \in Threads, Deallocate(t)
       PROVE  HeldInCalls'
  <2>1. OnlyMoves(t)
    BY <1>32, Moved DEF Deallocate
  <2>2. \A m \in Mutexes : mutex'[m] \in {mutex[m], None, t}
    BY <1>32 DEF Deallocate, locks
  <2>3. ASSUME NEW m \in Mutexes, mutex'[m] = t
        PROVE  Holds(t, m)'
    <3>0. pc[t] # "idle" => arg[t].d \in Devices /\ Monitor(arg[t].d) \in Mutexes /\ Stream(arg[t].d) \in Mutexes
      BY InCall, MutexNames

    <3>4. Global \in Mutexes /\ mutex \in [Mutexes -> Threads \cup {None}]
      BY MutexNames DEF TypeOK
    <3>1. /\ pc[t] = "unlink"
          /\ mutex'[m] = mutex[m]
      BY <1>32 DEF Deallocate, locks
    <3>2. mutex[m] = t => Holds(t, m)
      BY NothingHeld
    <3>. QED
      BY <2>3, <3>1, <3>2 DEF Holds, HasMonitor
  <2>. QED
    BY <2>1, <2>2, <2>3, LockFrame
<1>33. ASSUME NEW d \in Devices, Boots(d)
       PROVE  HeldInCalls'
  BY <1>33 DEF Boots, HeldInCalls, Holds, HasMonitor, locks, threads
<1>34. ASSUME NEW d \in Devices, ReEnumerates(d)
       PROVE  HeldInCalls'
  BY <1>34 DEF ReEnumerates, HeldInCalls, Holds, HasMonitor, locks, threads
<1>35. ASSUME NEW d \in Devices, MonitorExecutes(d)
       PROVE  HeldInCalls'
  BY <1>35 DEF MonitorExecutes, HeldInCalls, Holds, HasMonitor, locks, threads
<1>36. ASSUME NEW d \in Devices, MonitorAnswers(d)
       PROVE  HeldInCalls'
  BY <1>36 DEF MonitorAnswers, HeldInCalls, Holds, HasMonitor, locks, threads
<1>. QED
  BY <1>1, <1>2, <1>3, <1>4, <1>5, <1>6, <1>7, <1>8, <1>9, <1>10, <1>11, <1>12,
     <1>13, <1>14, <1>15, <1>16, <1>17, <1>18, <1>19, <1>20, <1>21, <1>22, <1>23,
     <1>24, <1>25, <1>26, <1>27, <1>28, <1>29, <1>30, <1>31, <1>32, <1>33, <1>34,
     <1>35, <1>36
     DEF Next, Begin, Step, Device

-----------------------------------------------------------------------------
(* The invariant *)
\* The invariant holds initially.
LEMMA Initially == Init => IInv
<1> SUFFICES ASSUME Init PROVE IInv
  OBVIOUS
<1>1. TypeOK
  <2>1. LocksTyped /\ HandlesTyped /\ ListsTyped /\ OptionsTyped
    BY DEF Init, LocksTyped, HandlesTyped, ListsTyped, OptionsTyped
  <2>2. ThreadsTyped
    BY DEF Init, ThreadsTyped, Labels, Calls
  <2>3. MonitorTyped
    BY DEF Init, MonitorTyped
  <2>. QED
    BY <2>1, <2>2, <2>3, TypeParts
<1>2. CallsFit /\ Exclusive
  BY DEF Init, CallsFit, Fits, Exclusive, NoCall, DeviceOps
<1>3. MonitorHeld /\ InStep
  BY DEF Init, MonitorHeld, HasMonitor, InStep
<1>4. HeldInCalls
  BY NoneIsNothing DEF Init, HeldInCalls
<1>. QED
  BY <1>1, <1>2, <1>3, <1>4 DEF IInv, Monitored, Locked

\* Every step keeps the invariant.
LEMMA Inductive == IInv /\ [Next]_vars => IInv'
<1> SUFFICES ASSUME IInv, [Next]_vars PROVE IInv'
  OBVIOUS
<1>1. CASE Next
  <2>1. TypeOK' /\ CallsFit' /\ Exclusive'
    BY <1>1, TypeStep, FitStep DEF IInv
  <2>2. Monitored'
    BY <1>1, MonitorStep DEF IInv, Monitored
  <2>3. Locked'
    <3> SUFFICES ASSUME Faults \cap (Leaves \cup Leaks) = {}
                 PROVE  HeldInCalls'
      BY DEF Locked
    <3>1. MonitorHeld /\ InStep /\ HeldInCalls
      BY DEF IInv, Monitored, Locked
    <3>. QED
      BY <1>1, <3>1, LockStep DEF IInv
  <2>. QED
    BY <2>1, <2>2, <2>3 DEF IInv
<1>2. CASE UNCHANGED vars
  <2>1. /\ mutex' = mutex /\ devices' = devices /\ devState' = devState /\ usb' = usb /\ state' = state
        /\ dev' = dev /\ head' = head /\ next' = next /\ pc' = pc /\ arg' = arg /\ requests' = requests
        /\ responses' = responses /\ asked' = asked /\ unread' = unread /\ held' = held /\ onDevice' = onDevice
    BY <1>2 DEF vars, locks, handles, lists, elems, threads, monitor, options
  <2>2. TypeOK'
    BY <2>1, PartsStay, PartsType DEF IInv
  <2>3. CallsFit' /\ Exclusive'
    BY <2>1, NobodyMoves DEF IInv
  <2>4. Monitored'
    BY <2>1, NothingMoves DEF IInv, Monitored
  <2>5. Locked'
    BY <2>1 DEF IInv, Locked, HeldInCalls, Holds, HasMonitor
  <2>. QED
    BY <2>2, <2>3, <2>4, <2>5 DEF IInv
<1>. QED
  BY <1>1, <1>2

\* What is on a monitor's streams belongs to the thread that has its mutex.
LEMMA InStepThen ==
    ASSUME MonitorHeld, InStep
    PROVE  MonitorInStep
<1> SUFFICES ASSUME NEW d \in Devices
             PROVE  /\ \A i \in DOMAIN requests[d] : requests[d][i].to = mutex[Monitor(d)]
                    /\ \A i \in DOMAIN responses[d] : responses[d][i].msg.to = mutex[Monitor(d)]
  BY DEF MonitorInStep
<1>1. PICK t : t = mutex[Monitor(d)]
  OBVIOUS
<1>2. CASE requests[d] = <<>> /\ responses[d] = <<>>
  BY <1>2
<1>3. CASE Serves(d, t)
  <2>1. Request(t).to = t /\ \A no : Answer(t, no).msg.to = t
    BY DEF Request, Answer
  <2>2. CASE requests[d] = <<Request(t)>> /\ responses[d] = <<>>
    BY <1>1, <2>1, <2>2
  <2>3. CASE requests[d] = <<>> /\ \E no : responses[d] = Answers(t, no)
    BY <1>1, <2>1, <2>3 DEF Answers
  <2>. QED
    BY <1>3, <2>2, <2>3 DEF Serves
<1>. QED
  BY <1>1, <1>3 DEF InStep

-----------------------------------------------------------------------------
(* What a list leads to *)
\* A list that leads to each of its elements once, and never back to its head.
Straight(first, succ) ==
    /\ \A p \in Reached(first, succ) : first # None => succ[p] # first
    /\ \A p, q \in Reached(first, succ) : succ[p] # None /\ succ[p] = succ[q] => p = q

\* What can be reached has the head of the list, and no next leads out of it.
LEMMA ReachedClosed ==
    ASSUME NEW first \in Elements \cup {None}, NEW succ \in [Elements -> Elements \cup {None}]
    PROVE  /\ Reached(first, succ) \in SUBSET Elements
           /\ first \in Reached(first, succ) \cup {None}
           /\ ClosedUnder(succ, Reached(first, succ))
<1>1. Reached(first, succ) \in SUBSET Elements
  BY DEF Reached
<1>2. first \in Reached(first, succ) \cup {None}
  BY DEF Reached
<1>3. ASSUME NEW p \in Reached(first, succ), succ[p] # None
      PROVE  succ[p] \in Reached(first, succ)
  <2>1. succ[p] \in Elements
    BY <1>1, <1>3
  <2>2. ASSUME NEW S \in SUBSET Elements, first \in S \cup {None}, ClosedUnder(succ, S)
        PROVE  succ[p] \in S
    <3>1. p \in S
      BY <2>2 DEF Reached
    <3>. QED
      BY <1>3, <2>2, <3>1 DEF ClosedUnder
  <2>. QED
    BY <2>1, <2>2 DEF Reached
<1>4. ClosedUnder(succ, Reached(first, succ))
  BY <1>3 DEF ClosedUnder
<1>. QED
  BY <1>1, <1>2, <1>4

\* Nothing else can be reached than a set like that has.
LEMMA ReachedLeast ==
    ASSUME NEW first, NEW succ, NEW S \in SUBSET Elements,
           first \in S \cup {None}, ClosedUnder(succ, S)
    PROVE  Reached(first, succ) \subseteq S
  BY DEF Reached

\* Nothing is reached from an empty list.
LEMMA ReachedFromNone ==
    ASSUME NEW succ
    PROVE  Reached(None, succ) = {}
<1>1. None \in {} \cup {None} /\ {} \in SUBSET Elements /\ ClosedUnder(succ, {})
  BY DEF ClosedUnder
<1>. QED
  BY <1>1, ReachedLeast

\* A change of what is not reached changes nothing.
LEMMA ReachedFrame ==
    ASSUME NEW first \in Elements \cup {None}, NEW succ \in [Elements -> Elements \cup {None}],
           NEW succ2 \in [Elements -> Elements \cup {None}],
           \A p \in Reached(first, succ) : succ2[p] = succ[p]
    PROVE  /\ Reached(first, succ2) = Reached(first, succ)
           /\ Straight(first, succ) => Straight(first, succ2)
<1>1. Reached(first, succ2) \subseteq Reached(first, succ)
  <2>1. ClosedUnder(succ2, Reached(first, succ))
    BY ReachedClosed DEF ClosedUnder
  <2>. QED
    BY <2>1, ReachedClosed, ReachedLeast
<1>2. Reached(first, succ) \subseteq Reached(first, succ2)
  <2>1. ClosedUnder(succ, Reached(first, succ2))
    BY <1>1, ReachedClosed DEF ClosedUnder
  <2>2. first \in Reached(first, succ2) \cup {None} /\ Reached(first, succ2) \in SUBSET Elements
    BY ReachedClosed
  <2>. QED
    BY <2>1, <2>2, ReachedLeast
<1>3. Reached(first, succ2) = Reached(first, succ)
  BY <1>1, <1>2
<1>4. Straight(first, succ) => Straight(first, succ2)
  BY <1>3 DEF Straight
<1>. QED
  BY <1>3, <1>4

\* An element put in front of a list is reached with all that was.
LEMMA ReachedInFront ==
    ASSUME NEW succ \in [Elements -> Elements \cup {None}], NEW e \in Elements,
           succ[e] \in Elements \cup {None}, Straight(succ[e], succ), e \notin Reached(succ[e], succ)
    PROVE  /\ Reached(e, succ) = Reached(succ[e], succ) \cup {e}
           /\ Straight(e, succ)
<1>. DEFINE R == Reached(succ[e], succ)
<1>1. R \in SUBSET Elements /\ succ[e] \in R \cup {None} /\ ClosedUnder(succ, R)
  BY ReachedClosed
<1>2. Reached(e, succ) \subseteq R \cup {e}
  <2>1. ClosedUnder(succ, R \cup {e})
    BY <1>1 DEF ClosedUnder
  <2>. QED
    BY <1>1, <2>1, ReachedLeast
<1>3. R \cup {e} \subseteq Reached(e, succ)
  <2>1. Reached(e, succ) \in SUBSET Elements /\ e \in Reached(e, succ) \cup {None}
        /\ ClosedUnder(succ, Reached(e, succ))
    BY ReachedClosed
  <2>2. e \in Reached(e, succ)
    BY <2>1, NoneIsNothing
  <2>3. succ[e] \in Reached(e, succ) \cup {None}
    BY <2>1, <2>2 DEF ClosedUnder
  <2>4. R \subseteq Reached(e, succ)
    BY <2>1, <2>3, ReachedLeast
  <2>. QED
    BY <2>2, <2>4
<1>4. Reached(e, succ) = R \cup {e}
  BY <1>2, <1>3
<1>5. e # None
  BY NoneIsNothing
<1>6. \A p \in R \cup {e} : succ[p] # e
  BY <1>1, <1>5 DEF ClosedUnder
<1>7. \A p \in R : succ[p] # None => succ[p] # succ[e]
  BY DEF Straight
<1>8. \A p, q \in R \cup {e} : succ[p] # None /\ succ[p] = succ[q] => p = q
  BY <1>7 DEF Straight
<1>9. Straight(e, succ)
  BY <1>4, <1>6, <1>8 DEF Straight
<1>. QED
  BY <1>4, <1>9

\* The head taken off a list is the only one that is not reached any more.
LEMMA ReachedWithoutHead ==
    ASSUME NEW succ \in [Elements -> Elements \cup {None}], NEW e \in Elements, Straight(e, succ)
    PROVE  /\ Reached(succ[e], succ) = Reached(e, succ) \ {e}
           /\ Straight(succ[e], succ)
<1>. DEFINE R == Reached(e, succ)
<1>1. R \in SUBSET Elements /\ e \in R /\ ClosedUnder(succ, R) /\ e # None
  BY ReachedClosed, NoneIsNothing
<1>2. succ[e] \in Elements \cup {None} /\ \A p \in R : succ[p] # e
  BY <1>1 DEF Straight
<1>3. Reached(succ[e], succ) \subseteq R \ {e}
  <2>1. ClosedUnder(succ, R \ {e}) /\ succ[e] \in (R \ {e}) \cup {None}
    BY <1>1, <1>2 DEF ClosedUnder
  <2>. QED
    BY <1>1, <2>1, ReachedLeast
<1>4. R \subseteq Reached(succ[e], succ) \cup {e}
  <2>1. Reached(succ[e], succ) \in SUBSET Elements /\ succ[e] \in Reached(succ[e], succ) \cup {None}
        /\ ClosedUnder(succ, Reached(succ[e], succ))
    BY <1>2, ReachedClosed
  <2>2. ClosedUnder(succ, Reached(succ[e], succ) \cup {e})
    BY <2>1 DEF ClosedUnder
  <2>. QED
    BY <2>1, <2>2, ReachedLeast
<1>5. Reached(succ[e], succ) = R \ {e}
  BY <1>3, <1>4
<1>6. \A p \in R \ {e} : succ[e] # None => succ[p] # succ[e]
  BY <1>1 DEF Straight
<1>7. Straight(succ[e], succ)
  BY <1>5, <1>6 DEF Straight
<1>. QED
  BY <1>5, <1>7

\* So is an element that its predecessor leaves out.
LEMMA ReachedWithout ==
    ASSUME NEW first \in Elements \cup {None}, NEW succ \in [Elements -> Elements \cup {None}],
           NEW e \in Elements, Straight(first, succ), first # e,
           NEW succ2 \in [Elements -> Elements \cup {None}],
           \A p \in Reached(first, succ) : succ2[p] = IF succ[p] = e THEN succ[e] ELSE succ[p]
    PROVE  /\ Reached(first, succ2) = Reached(first, succ) \ {e}
           /\ Straight(first, succ2)
<1>. DEFINE R == Reached(first, succ)
<1>1. R \in SUBSET Elements /\ first \in R \cup {None} /\ ClosedUnder(succ, R) /\ e # None
  BY ReachedClosed, NoneIsNothing
<1>2. e \in R => succ[e] # e
  <2> SUFFICES ASSUME e \in R, succ[e] = e PROVE FALSE
    OBVIOUS
  <2>1. \A p \in R \ {e} : succ[p] # e
    BY <1>1 DEF Straight
  <2>2. ClosedUnder(succ, R \ {e}) /\ first \in (R \ {e}) \cup {None}
    BY <1>1, <2>1 DEF ClosedUnder
  <2>. QED
    BY <1>1, <2>2, ReachedLeast
<1>3. Reached(first, succ2) \subseteq R \ {e}
  <2>1. ClosedUnder(succ2, R \ {e}) /\ first \in (R \ {e}) \cup {None}
    BY <1>1, <1>2 DEF ClosedUnder
  <2>. QED
    BY <1>1, <2>1, ReachedLeast
<1>4. R \subseteq Reached(first, succ2) \cup {e}
  <2>. DEFINE Q == Reached(first, succ2)
  <2>1. Q \in SUBSET Elements /\ first \in Q \cup {None} /\ ClosedUnder(succ2, Q)
    BY ReachedClosed
  <2>2. CASE \E p \in Q : succ[p] = e
    <3>1. succ[e] \in Q \cup {None}
      BY <1>3, <2>1, <2>2 DEF ClosedUnder
    <3>2. ClosedUnder(succ, Q \cup {e}) /\ first \in (Q \cup {e}) \cup {None}
      BY <1>3, <2>1, <3>1 DEF ClosedUnder
    <3>. QED
      BY <2>1, <3>2, ReachedLeast
  <2>3. CASE \A p \in Q : succ[p] # e
    <3>1. ClosedUnder(succ, Q)
      BY <1>3, <2>1, <2>3 DEF ClosedUnder
    <3>. QED
      BY <2>1, <3>1, ReachedLeast
  <2>. QED
    BY <2>2, <2>3
<1>5. Reached(first, succ2) = R \ {e}
  BY <1>3, <1>4
<1>6. \A p \in R \ {e} : first # None => succ2[p] # first
  BY <1>1, <1>2 DEF Straight, ClosedUnder
<1>7. \A p, q \in R \ {e} : succ2[p] # None /\ succ2[p] = succ2[q] => p = q
  BY <1>1, <1>2 DEF Straight, ClosedUnder
<1>8. Straight(first, succ2)
  BY <1>5, <1>6, <1>7 DEF Straight
<1>. QED
  BY <1>5, <1>8

-----------------------------------------------------------------------------
(* The lists *)
\* The lists of a device are written without a mutex: this is about an application
\* whose graphs are used by one thread, and its fifos by one.
OneThreadEach ==
    \A t, q \in Threads :
        \/ Uses[t] \cap Graphs # {} /\ Uses[q] \cap Graphs # {}
        \/ Uses[t] \cap Fifos # {} /\ Uses[q] \cap Fifos # {}
        => t = q

\* Returns that lose what the device has: a response left behind, a graph that is
\* allocated and then given up, and a device that is left in the list without its
\* stream (GraphOption, GraphAllocated, OpenDeviceMonitor).
Loses == Leaves \cup {"graphInvalid", "monitorStream"}

Careful == OneThreadEach /\ ~DestroyRefused /\ Faults \cap Loses = {}

\* An element is used by one call.
Owned ==
    /\ \A t \in Threads : arg[t].e \in Uses[t] \cup {None}
    /\ \A t, q \in Threads : arg[t].e = arg[q].e /\ arg[t].e # None => t = q

\* A call on graphs, fifos or options has its device open, and one that closes or
\* frees a device has it out of the list; who is in the list is open, or is opened.
OnOpenDevice(t) ==
    /\ arg[t].op \in MonitorOps \cup {"deviceGetOption"} =>
          arg[t].d \in devices /\ devState[arg[t].d] = "OPENED"
    /\ pc[t] = "close" => arg[t].d \notin devices /\ devState[arg[t].d] = "OPENED"
    /\ pc[t] = "free"  => arg[t].d \notin devices /\ devState[arg[t].d] # "OPENED"
Opening(t, d) ==
    arg[t].op = "deviceOpen" /\ arg[t].d = d /\ pc[t] \in {"streams", "ask", "answer", "copy"}
DevicesOpen ==
    /\ \A t \in Threads : OnOpenDevice(t)
    /\ \A d \in devices : devState[d] = "OPENED" \/ \E t \in Threads : Opening(t, d)

\* A list leads to each of its elements once; they are of its kind, allocated on its
\* device, or fifos that were refused; and it leads to all that are allocated.
ListsStraight == \A l \in Lists : Straight(head[l], next)
InPlace(l, e) ==
    /\ dev[e] = l[1] /\ l = List(l[1], e) /\ devState[l[1]] = "OPENED"
    /\ state[e] = "ALLOCATED" \/ (e \in Fifos /\ state[e] = "CREATED")
ListsHold == \A l \in Lists : \A e \in InList(l) : InPlace(l, e)
AllocatedListed ==
    \A e \in Elements : state[e] = "ALLOCATED" => dev[e] \in Devices /\ e \in InList(List(dev[e], e))

\* A graph that is not in a list has no successor, until it is linked.
GraphsFresh ==
    \A g \in Graphs : state[g] = "CREATED" =>
        next[g] = None \/ \E t \in Threads : pc[t] = "write" /\ arg[t].e = g

\* What a call has found, or made, of its element.
OnElement(t) ==
    /\ arg[t].op \in MonitorOps => arg[t].e \in Elements
    /\ arg[t].op \in {"graphDestroy", "graphGetOption", "fifoDestroy"} =>
          state[arg[t].e] = "ALLOCATED" /\ dev[arg[t].e] = arg[t].d
    /\ arg[t].op = "graphAllocate" => state[arg[t].e] = "CREATED"
    /\ arg[t].op = "fifoAllocate" =>
          /\ arg[t].e \in Fifos /\ state[arg[t].e] = "CREATED" /\ dev[arg[t].e] = arg[t].d
          /\ pc[t] # "write" => arg[t].e \in InList(List(arg[t].d, arg[t].e))
    /\ pc[t] = "write" =>
          /\ arg[t].op \in {"graphAllocate", "fifoAllocate"} /\ ~Listed(arg[t].e)
          /\ dev[arg[t].e] = arg[t].d /\ next[arg[t].e] = head[List(arg[t].d, arg[t].e)]
    /\ pc[t] = "stream" => arg[t].op = "fifoAllocate"
    /\ pc[t] = "unlink" => arg[t].op \in {"graphDestroy", "fifoDestroy"}
CallsOnElements == \A t \in Threads : OnElement(t)

\* The device has what is allocated, what it has just accepted and not what it has
\* just given up.
Answered(t) == pc[t] = "response" /\ responses[arg[t].d] # <<>> /\ Accepted(t)
Gained(t) == \/ arg[t].op = "graphAllocate" /\ (pc[t] \in {"link", "write"} \/ Answered(t))
             \/ arg[t].op = "fifoAllocate" /\ Answered(t)
Lost(t) == arg[t].op \in {"graphDestroy", "fifoDestroy"} /\ (pc[t] = "unlink" \/ Answered(t))
Has(e) ==
    \A d \in Devices :
        e \in onDevice[d] <=>
            \/ \E t \in Threads : arg[t].e = e /\ arg[t].d = d /\ Gained(t)
            \/ state[e] = "ALLOCATED" /\ dev[e] = d /\ ~\E t \in Threads : arg[t].e = e /\ Lost(t)
DeviceHas == \A e \in Elements : Has(e)

LInv == /\ Owned /\ DevicesOpen /\ ListsStraight /\ ListsHold /\ AllocatedListed /\ GraphsFresh
        /\ CallsOnElements /\ DeviceHas
\* The calls, and the monitor's streams, as the lemmas above have them.
CallsServed == TypeOK /\ CallsFit /\ Exclusive /\ MonitorHeld /\ InStep

\* A thread that begins a call is in it, and no other moves.
LEMMA CallMoves ==
    ASSUME TypeOK, NEW t \in Threads, NEW op, NEW d, NEW e, NEW label, Call(t, op, d, e, label)
    PROVE  /\ OnlyMoves(t) /\ pc'[t] = label
           /\ arg'[t].op = op /\ arg'[t].d = d /\ arg'[t].e = e
  BY DEF TypeOK, Call, OnlyMoves

\* An element stays with one call when no call moves, when one returns, and when one
\* begins with an element that nobody uses.
LEMMA OwnedMoves ==
    ASSUME TypeOK, Owned, NEW t \in Threads
    PROVE  /\ arg' = arg => Owned'
           /\ Return(t) => Owned'
           /\ \A op, d, e, label : Call(t, op, d, e, label) /\ (e = None \/ (e \in Uses[t] /\ Unused(e))) => Owned'
<1>1. arg' = arg => Owned'
  BY DEF Owned
<1>2. ASSUME Return(t)
      PROVE  Owned'
  <2>1. NoCall.e = None /\ arg'[t] = NoCall /\ \A q \in Threads \ {t} : arg'[q] = arg[q]
    BY <1>2, Moved DEF OnlyMoves, NoCall
  <2>. QED
    BY <2>1 DEF Owned
<1>3. ASSUME NEW op, NEW d, NEW e, NEW label, Call(t, op, d, e, label), e = None \/ (e \in Uses[t] /\ Unused(e))
      PROVE  Owned'
  <2>1. arg'[t].e = e /\ \A q \in Threads \ {t} : arg'[q] = arg[q]
    BY <1>3, CallMoves DEF OnlyMoves
  <2>2. e # None => \A q \in Threads : arg[q].e # e
    BY <1>3 DEF Unused
  <2>. QED
    BY <1>3, <2>1, <2>2 DEF Owned
<1>. QED
  BY <1>1, <1>2, <1>3

\* Every step keeps an element with one call.
LEMMA OwnedStep ==
    ASSUME TypeOK, Owned, Next
    PROVE  Owned'
<1>1. ASSUME NEW t \in Threads, NEW d \in Devices, ncDeviceCreate(t, d)
       PROVE  Owned'
  BY <1>1 DEF ncDeviceCreate, threads, Owned
<1>2. ASSUME NEW t \in Threads, NEW d \in Devices, ncDeviceOpen(t, d)
       PROVE  Owned'
  BY <1>2, OwnedMoves DEF ncDeviceOpen, threads, Quiet
<1>3. ASSUME NEW t \in Threads, NEW d \in Devices, ncDeviceDestroy(t, d)
       PROVE  Owned'
  BY <1>3, OwnedMoves DEF ncDeviceDestroy, Quiet
<1>4. ASSUME NEW t \in Threads, NEW d \in Devices, NEW op \in {"deviceClose", "deviceDestroy"}, ncDeviceClose(t, d, op)
       PROVE  Owned'
  BY <1>4, OwnedMoves DEF ncDeviceClose, Quiet
<1>5. ASSUME NEW t \in Threads, NEW d \in Devices, ncDeviceGetOption(t, d)
       PROVE  Owned'
  BY <1>5, OwnedMoves DEF ncDeviceGetOption, Quiet
<1>6. ASSUME NEW t \in Threads, NEW e \in Elements, Create(t, e)
       PROVE  Owned'
  BY <1>6 DEF Create, threads, Owned
<1>7. ASSUME NEW t \in Threads, NEW e \in Elements, DestroyCreated(t, e)
       PROVE  Owned'
  BY <1>7 DEF DestroyCreated, threads, Owned
<1>8. ASSUME NEW t \in Threads, NEW g \in Graphs, ncGraphDestroy(t, g)
       PROVE  Owned'
  BY <1>8, OwnedMoves DEF ncGraphDestroy, Quiet
<1>9. ASSUME NEW t \in Threads, NEW g \in Graphs, ncGraphGetOption(t, g)
       PROVE  Owned'
  BY <1>9, OwnedMoves DEF ncGraphGetOption, Quiet
<1>10. ASSUME NEW t \in Threads, NEW g \in Graphs, NEW d \in Devices, ncGraphAllocate(t, g, d)
       PROVE  Owned'
  BY <1>10, OwnedMoves DEF ncGraphAllocate, threads, Quiet
<1>11. ASSUME NEW t \in Threads, NEW f \in Fifos, ncFifoDestroy(t, f)
       PROVE  Owned'
  BY <1>11, OwnedMoves DEF ncFifoDestroy, Quiet
<1>12. ASSUME NEW t \in Threads, NEW f \in Fifos, NEW d \in Devices, ncFifoAllocate(t, f, d)
       PROVE  Owned'
  BY <1>12, OwnedMoves DEF ncFifoAllocate, Quiet
<1>13. ASSUME NEW t \in Threads, XLinkConnect(t)
       PROVE  Owned'
  BY <1>13, OwnedMoves DEF XLinkConnect, Goto
<1>14. ASSUME NEW t \in Threads, ScanBootDevices(t)
       PROVE  Owned'
  BY <1>14, OwnedMoves DEF ScanBootDevices, Goto
<1>15. ASSUME NEW t \in Threads, OpenDeviceMonitor(t)
       PROVE  Owned'
  BY <1>15, OwnedMoves DEF OpenDeviceMonitor, Goto
<1>16. ASSUME NEW t \in Threads, DeallocateAll(t)
       PROVE  Owned'
  BY <1>16, OwnedMoves DEF DeallocateAll, Goto
<1>17. ASSUME NEW t \in Threads, FreeDevice(t)
       PROVE  Owned'
  BY <1>17, OwnedMoves DEF FreeDevice, Goto
<1>18. ASSUME NEW t \in Threads, CheckDevice(t)
       PROVE  Owned'
  BY <1>18, OwnedMoves DEF CheckDevice, Goto
<1>19. ASSUME NEW t \in Threads, AskDevice(t)
       PROVE  Owned'
  BY <1>19, OwnedMoves DEF AskDevice, Goto
<1>20. ASSUME NEW t \in Threads, ReadAnswer(t)
       PROVE  Owned'
  BY <1>20, OwnedMoves DEF ReadAnswer, Goto
<1>21. ASSUME NEW t \in Threads, CopyAnswer(t)
       PROVE  Owned'
  BY <1>21, OwnedMoves DEF CopyAnswer, Goto
<1>22. ASSUME NEW t \in Threads, sendGraphMonitorRequest(t)
       PROVE  Owned'
  BY <1>22, OwnedMoves DEF sendGraphMonitorRequest, Goto
<1>23. ASSUME NEW t \in Threads, GraphAllocated(t)
       PROVE  Owned'
  BY <1>23, OwnedMoves DEF GraphAllocated, Goto
<1>24. ASSUME NEW t \in Threads, GraphUnsupported(t)
       PROVE  Owned'
  BY <1>24, OwnedMoves DEF GraphUnsupported, Goto
<1>25. ASSUME NEW t \in Threads, LinkGraph(t)
       PROVE  Owned'
  BY <1>25, OwnedMoves DEF LinkGraph, Goto
<1>26. ASSUME NEW t \in Threads, WriteHead(t)
       PROVE  Owned'
  BY <1>26, OwnedMoves DEF WriteHead, Goto
<1>27. ASSUME NEW t \in Threads, OpenFifoStream(t)
       PROVE  Owned'
  BY <1>27, OwnedMoves DEF OpenFifoStream, Goto
<1>28. ASSUME NEW t \in Threads, FifoAllocated(t)
       PROVE  Owned'
  BY <1>28, OwnedMoves DEF FifoAllocated, Goto
<1>29. ASSUME NEW t \in Threads, GraphDeallocated(t)
       PROVE  Owned'
  BY <1>29, OwnedMoves DEF GraphDeallocated, Goto
<1>30. ASSUME NEW t \in Threads, FifoDeallocated(t)
       PROVE  Owned'
  BY <1>30, OwnedMoves DEF FifoDeallocated, Goto
<1>31. ASSUME NEW t \in Threads, GraphOption(t)
       PROVE  Owned'
  BY <1>31, OwnedMoves DEF GraphOption, Goto
<1>32. ASSUME NEW t \in Threads, Deallocate(t)
       PROVE  Owned'
  BY <1>32, OwnedMoves DEF Deallocate, Goto
<1>33. ASSUME NEW d \in Devices, Boots(d)
       PROVE  Owned'
  BY <1>33 DEF Boots, threads, Owned
<1>34. ASSUME NEW d \in Devices, ReEnumerates(d)
       PROVE  Owned'
  BY <1>34 DEF ReEnumerates, threads, Owned
<1>35. ASSUME NEW d \in Devices, MonitorExecutes(d)
       PROVE  Owned'
  BY <1>35 DEF MonitorExecutes, threads, Owned
<1>36. ASSUME NEW d \in Devices, MonitorAnswers(d)
       PROVE  Owned'
  BY <1>36 DEF MonitorAnswers, threads, Owned
<1>. QED
  BY <1>1, <1>2, <1>3, <1>4, <1>5, <1>6, <1>7, <1>8, <1>9, <1>10, <1>11, <1>12, <1>13,
     <1>14, <1>15, <1>16, <1>17, <1>18, <1>19, <1>20, <1>21, <1>22, <1>23, <1>24, <1>25,
     <1>26, <1>27, <1>28, <1>29, <1>30, <1>31, <1>32, <1>33, <1>34, <1>35, <1>36
     DEF Next, Begin, Step, Device


\* The devices stay as they are for the other threads when a step changes only a
\* device that no other call is on,
LEMMA OtherDevices ==
    ASSUME NEW t \in Threads, OnlyMoves(t), NEW d, NEW q \in Threads \ {t}, OnOpenDevice(q), arg[q].d # d \/ UNCHANGED <<devices, devState>>,
           \A c \in Devices \ {d} : devState'[c] = devState[c] /\ (c \in devices' <=> c \in devices),
           TypeOK, CallsFit
    PROVE  OnOpenDevice(q)'
<1>1. pc'[q] = pc[q] /\ arg'[q] = arg[q]
  BY DEF OnlyMoves
<1>2. CASE pc[q] = "idle"
  <2>1. arg[q].op = "none"
    BY <1>2, Idle
  <2>. QED
    BY <1>1, <1>2, <2>1 DEF OnOpenDevice, MonitorOps
<1>3. CASE pc[q] # "idle"
  <2>1. arg[q].d \in Devices
    BY <1>3, InCall
  <2>. QED
    BY <1>1, <2>1 DEF OnOpenDevice
<1>. QED
  BY <1>2, <1>3

\* and so do they all when a step changes none and a call that opens one goes on.
LEMMA DevicesStay ==
    ASSUME TypeOK, CallsFit, DevicesOpen, NEW t \in Threads, OnlyMoves(t), devices' = devices, devState' = devState,
           OnOpenDevice(t)', \A d \in Devices : Opening(t, d) => Opening(t, d)'
    PROVE  DevicesOpen'
<1>1. \A q \in Threads : OnOpenDevice(q)'
  BY OtherDevices DEF DevicesOpen
<1>2. ASSUME NEW q \in Threads, NEW d \in Devices, Opening(q, d)
      PROVE  Opening(q, d)'
  BY <1>2 DEF Opening, OnlyMoves
<1>3. devices \subseteq Devices
  BY DEF TypeOK
<1>. QED
  BY <1>1, <1>2, <1>3 DEF DevicesOpen

\* Every step keeps the devices of calls open, and open devices in the list.
LEMMA DevicesStep ==
    ASSUME TypeOK, CallsFit, Exclusive, DevicesOpen, Careful, Next
    PROVE  DevicesOpen'
<1>1. ASSUME NEW t \in Threads, NEW d \in Devices, ncDeviceCreate(t, d)
       PROVE  DevicesOpen'
  <2>1. d \notin devices
    BY <1>1 DEF ncDeviceCreate, Quiet, Unused, DevicesOpen, Opening
  <2>2. OnlyMoves(t) /\ pc' = pc /\ arg' = arg /\ devices' = devices
    BY <1>1, Moved DEF ncDeviceCreate, threads
  <2>3. \A c \in Devices \ {d} : devState'[c] = devState[c]
    BY <1>1 DEF ncDeviceCreate, TypeOK
  <2>4. \A q \in Threads : arg[q].d # d
    BY <1>1 DEF ncDeviceCreate, Quiet, Unused
  <2>5. \A q \in Threads : OnOpenDevice(q)'
    <3>1. \A q \in Threads \ {t} : OnOpenDevice(q)'
      BY <2>2, <2>3, <2>4, OtherDevices DEF DevicesOpen
    <3>2. arg'[t].op = "none" /\ pc'[t] = "idle"
      BY <1>1, <2>2, Idle DEF ncDeviceCreate, Quiet
    <3>. QED
      BY <3>1, <3>2 DEF OnOpenDevice, MonitorOps
  <2>6. \A c \in devices : c \in Devices \ {d}
    BY <2>1 DEF TypeOK
  <2>. QED
    BY <2>2, <2>3, <2>5, <2>6 DEF DevicesOpen, Opening
<1>2. ASSUME NEW t \in Threads, NEW d \in Devices, ncDeviceOpen(t, d)
       PROVE  DevicesOpen'
  <2>1. OnlyMoves(t) /\ devices' = devices /\ devState' = devState /\ pc[t] = "idle"
    BY <1>2, Moved DEF ncDeviceOpen, threads, Quiet
  <2>2. \/ pc' = pc /\ arg' = arg
        \/ pc'[t] = "connect" /\ arg'[t].op = "deviceOpen"
    BY <1>2, CallMoves DEF ncDeviceOpen, threads
  <2>3. OnOpenDevice(t)'
    BY <2>1, <2>2 DEF DevicesOpen, OnOpenDevice, MonitorOps
  <2>4. \A c \in Devices : ~Opening(t, c)
    BY <2>1 DEF Opening
  <2>. QED
    BY <2>1, <2>3, <2>4, DevicesStay
<1>3. ASSUME NEW t \in Threads, NEW d \in Devices, ncDeviceDestroy(t, d)
       PROVE  DevicesOpen'
  <2>1. /\ OnlyMoves(t) /\ devices' = devices /\ devState' = devState
        /\ pc[t] = "idle" /\ pc'[t] = "free" /\ arg'[t].op = "deviceDestroy" /\ arg'[t].d = d
    BY <1>3, CallMoves DEF ncDeviceDestroy, handles, Quiet
  <2>2. d \notin devices /\ devState[d] # "OPENED"
    BY <1>3 DEF ncDeviceDestroy, Quiet, Unused, DevicesOpen, Opening
  <2>3. OnOpenDevice(t)'
    BY <2>1, <2>2 DEF OnOpenDevice, MonitorOps
  <2>4. \A c \in Devices : ~Opening(t, c)
    BY <2>1 DEF Opening
  <2>. QED
    BY <2>1, <2>3, <2>4, DevicesStay
<1>4. ASSUME NEW t \in Threads, NEW d \in Devices, NEW op \in {"deviceClose", "deviceDestroy"}, ncDeviceClose(t, d, op)
       PROVE  DevicesOpen'
  <2>1. /\ OnlyMoves(t) /\ devices' = devices \ {d} /\ devState' = devState
        /\ pc[t] = "idle" /\ pc'[t] = "close" /\ arg'[t].op = op /\ arg'[t].d = d
    BY <1>4, CallMoves DEF ncDeviceClose, Quiet
  <2>2. devState[d] = "OPENED" /\ \A q \in Threads : arg[q].d # d
    BY <1>4 DEF ncDeviceClose, Quiet, Unused
  <2>3. OnOpenDevice(t)'
    BY <2>1, <2>2 DEF OnOpenDevice, MonitorOps
  <2>4. \A q \in Threads \ {t} : OnOpenDevice(q)'
    BY <2>1, <2>2, OtherDevices DEF DevicesOpen
  <2>5. \A c \in devices', q \in Threads : Opening(q, c) => Opening(q, c)'
    BY <2>1 DEF Opening, OnlyMoves
  <2>. QED
    BY <2>1, <2>3, <2>4, <2>5 DEF DevicesOpen
<1>5. ASSUME NEW t \in Threads, NEW d \in Devices, ncDeviceGetOption(t, d)
       PROVE  DevicesOpen'
  <2>1. /\ OnlyMoves(t) /\ devices' = devices /\ devState' = devState
        /\ pc[t] = "idle" /\ pc'[t] = "check" /\ arg'[t].op = "deviceGetOption" /\ arg'[t].d = d
    BY <1>5, CallMoves DEF ncDeviceGetOption, handles
  <2>2. d \in devices /\ devState[d] = "OPENED"
    BY <1>5 DEF ncDeviceGetOption, Usable
  <2>3. OnOpenDevice(t)' /\ \A c \in Devices : ~Opening(t, c)
    BY <2>1, <2>2 DEF OnOpenDevice, Opening
  <2>. QED
    BY <2>1, <2>3, DevicesStay
<1>6. ASSUME NEW t \in Threads, NEW e \in Elements, Create(t, e)
       PROVE  DevicesOpen'
  BY <1>6 DEF Create, threads, handles, DevicesOpen, OnOpenDevice, Opening
<1>7. ASSUME NEW t \in Threads, NEW e \in Elements, DestroyCreated(t, e)
       PROVE  DevicesOpen'
  BY <1>7 DEF DestroyCreated, threads, handles, DevicesOpen, OnOpenDevice, Opening
<1>8. ASSUME NEW t \in Threads, NEW g \in Graphs, ncGraphDestroy(t, g)
       PROVE  DevicesOpen'
  <2>1. /\ OnlyMoves(t) /\ devices' = devices /\ devState' = devState
        /\ pc[t] = "idle" /\ pc'[t] = "send" /\ arg'[t].op = "graphDestroy" /\ arg'[t].d = dev[g]
    BY <1>8, CallMoves DEF ncGraphDestroy, handles, Quiet
  <2>2. dev[g] \in devices /\ devState[dev[g]] = "OPENED"
    BY <1>8 DEF ncGraphDestroy, Usable
  <2>3. OnOpenDevice(t)' /\ \A c \in Devices : ~Opening(t, c)
    BY <2>1, <2>2 DEF OnOpenDevice, Opening
  <2>. QED
    BY <2>1, <2>3, DevicesStay
<1>9. ASSUME NEW t \in Threads, NEW g \in Graphs, ncGraphGetOption(t, g)
       PROVE  DevicesOpen'
  <2>1. /\ OnlyMoves(t) /\ devices' = devices /\ devState' = devState
        /\ pc[t] = "idle" /\ pc'[t] = "send" /\ arg'[t].op = "graphGetOption" /\ arg'[t].d = dev[g]
    BY <1>9, CallMoves DEF ncGraphGetOption, handles, Quiet
  <2>2. dev[g] \in devices /\ devState[dev[g]] = "OPENED"
    BY <1>9 DEF ncGraphGetOption, Usable
  <2>3. OnOpenDevice(t)' /\ \A c \in Devices : ~Opening(t, c)
    BY <2>1, <2>2 DEF OnOpenDevice, Opening
  <2>. QED
    BY <2>1, <2>3, DevicesStay
<1>10. ASSUME NEW t \in Threads, NEW g \in Graphs, NEW d \in Devices, ncGraphAllocate(t, g, d)
       PROVE  DevicesOpen'
  <2>1. OnlyMoves(t) /\ devices' = devices /\ devState' = devState /\ pc[t] = "idle"
    BY <1>10, Moved DEF ncGraphAllocate, threads, handles, Quiet
  <2>2. \/ pc' = pc /\ arg' = arg
        \/ pc'[t] = "send" /\ arg'[t].op = "graphAllocate" /\ arg'[t].d = d
    BY <1>10, CallMoves DEF ncGraphAllocate, threads
  <2>3. d \in devices /\ devState[d] = "OPENED"
    BY <1>10 DEF ncGraphAllocate, Usable
  <2>4. OnOpenDevice(t)' /\ \A c \in Devices : ~Opening(t, c)
    BY <2>1, <2>2, <2>3 DEF DevicesOpen, OnOpenDevice, Opening
  <2>. QED
    BY <2>1, <2>4, DevicesStay
<1>11. ASSUME NEW t \in Threads, NEW f \in Fifos, ncFifoDestroy(t, f)
       PROVE  DevicesOpen'
  <2>1. /\ OnlyMoves(t) /\ devices' = devices /\ devState' = devState
        /\ pc[t] = "idle" /\ pc'[t] = "send" /\ arg'[t].op = "fifoDestroy" /\ arg'[t].d = dev[f]
    BY <1>11, CallMoves DEF ncFifoDestroy, handles, Quiet
  <2>2. dev[f] \in devices /\ devState[dev[f]] = "OPENED"
    BY <1>11 DEF ncFifoDestroy, Usable
  <2>3. OnOpenDevice(t)' /\ \A c \in Devices : ~Opening(t, c)
    BY <2>1, <2>2 DEF OnOpenDevice, Opening
  <2>. QED
    BY <2>1, <2>3, DevicesStay
<1>12. ASSUME NEW t \in Threads, NEW f \in Fifos, NEW d \in Devices, ncFifoAllocate(t, f, d)
       PROVE  DevicesOpen'
  <2>1. /\ OnlyMoves(t) /\ devices' = devices /\ devState' = devState
        /\ pc[t] = "idle" /\ pc'[t] = "write" /\ arg'[t].op = "fifoAllocate" /\ arg'[t].d = d
    BY <1>12, CallMoves DEF ncFifoAllocate, handles, Quiet
  <2>2. d \in devices /\ devState[d] = "OPENED"
    BY <1>12 DEF ncFifoAllocate, Usable
  <2>3. OnOpenDevice(t)' /\ \A c \in Devices : ~Opening(t, c)
    BY <2>1, <2>2 DEF OnOpenDevice, Opening
  <2>. QED
    BY <2>1, <2>3, DevicesStay
<1>13. ASSUME NEW t \in Threads, XLinkConnect(t)
       PROVE  DevicesOpen'
  <2>. DEFINE d == arg[t].d
  <2>1. pc[t] = "connect" /\ arg[t].op = "deviceOpen" /\ d \in Devices /\ devState' = devState
    BY <1>13, InCall DEF XLinkConnect, CallsFit, Fits
  <2>2. OnlyMoves(t)
    BY <1>13, Moved DEF XLinkConnect
  <2>3. \/ devices' = devices /\ pc'[t] = "scan" /\ arg'[t] = arg[t]
        \/ devices' = devices \cup {d} /\ pc'[t] = "streams" /\ arg'[t] = arg[t]
    BY <1>13, Moved DEF XLinkConnect, Linked
  <2>4. \A q \in Threads \ {t} : arg[q].d # d
    BY <2>1 DEF Exclusive, DeviceOps
  <2>5. \A q \in Threads \ {t} : OnOpenDevice(q)'
    BY <2>1, <2>2, <2>3, <2>4, OtherDevices DEF DevicesOpen
  <2>6. OnOpenDevice(t)'
    BY <2>1, <2>3 DEF OnOpenDevice, MonitorOps, NoCall
  <2>7. \A q \in Threads, c \in devices : Opening(q, c) => Opening(q, c)'
    BY <2>1, <2>2 DEF Opening, OnlyMoves
  <2>8. pc'[t] = "streams" /\ arg'[t] = arg[t] => Opening(t, d)'
    BY <2>1 DEF Opening
  <2>. QED
    BY <2>1, <2>3, <2>5, <2>6, <2>7, <2>8 DEF DevicesOpen
<1>14. ASSUME NEW t \in Threads, ScanBootDevices(t)
       PROVE  DevicesOpen'
  <2>. DEFINE d == arg[t].d
  <2>1. pc[t] = "scan" /\ arg[t].op = "deviceOpen" /\ d \in Devices /\ devState' = devState
    BY <1>14, InCall DEF ScanBootDevices, CallsFit, Fits
  <2>2. OnlyMoves(t)
    BY <1>14, Moved DEF ScanBootDevices
  <2>3. \/ devices' = devices /\ pc'[t] = "idle" /\ arg'[t] = NoCall
        \/ devices' = devices \cup {d} /\ pc'[t] = "streams" /\ arg'[t] = arg[t]
    BY <1>14, Moved DEF ScanBootDevices, Linked
  <2>4. \A q \in Threads \ {t} : arg[q].d # d
    BY <2>1 DEF Exclusive, DeviceOps
  <2>5. \A q \in Threads \ {t} : OnOpenDevice(q)'
    BY <2>1, <2>2, <2>3, <2>4, OtherDevices DEF DevicesOpen
  <2>6. OnOpenDevice(t)'
    BY <2>1, <2>3 DEF OnOpenDevice, MonitorOps, NoCall
  <2>7. \A q \in Threads, c \in devices : Opening(q, c) => Opening(q, c)'
    BY <2>1, <2>2 DEF Opening, OnlyMoves
  <2>8. pc'[t] = "streams" /\ arg'[t] = arg[t] => Opening(t, d)'
    BY <2>1 DEF Opening
  <2>. QED
    BY <2>1, <2>3, <2>5, <2>6, <2>7, <2>8 DEF DevicesOpen
<1>15. ASSUME NEW t \in Threads, OpenDeviceMonitor(t)
       PROVE  DevicesOpen'
  <2>1. pc[t] = "streams" /\ arg[t].op = "deviceOpen" /\ devices' = devices /\ devState' = devState
    BY <1>15 DEF OpenDeviceMonitor, CallsFit, Fits, handles
  <2>2. Goto(t, "ask")
    BY <1>15 DEF OpenDeviceMonitor, Outcome, Careful, Loses
  <2>3. OnlyMoves(t) /\ pc'[t] = "ask" /\ arg'[t] = arg[t]
    BY <2>2, Moved
  <2>4. OnOpenDevice(t)' /\ \A c \in Devices : Opening(t, c) => Opening(t, c)'
    BY <2>1, <2>3 DEF OnOpenDevice, MonitorOps, Opening
  <2>. QED
    BY <2>1, <2>3, <2>4, DevicesStay
<1>16. ASSUME NEW t \in Threads, DeallocateAll(t)
       PROVE  DevicesOpen'
  <2>. DEFINE d == arg[t].d
  <2>1. /\ pc[t] = "close" /\ arg[t].op \in {"deviceClose", "deviceDestroy"} /\ d \in Devices
        /\ devices' = devices /\ devState' = [devState EXCEPT ![d] = "CLOSED"]
    BY <1>16, InCall DEF DeallocateAll, CallsFit, Fits
  <2>2. OnlyMoves(t) /\ ((pc'[t] = "free" /\ arg'[t] = arg[t]) \/ (pc'[t] = "idle" /\ arg'[t] = NoCall))
    BY <1>16, Moved DEF DeallocateAll
  <2>3. d \notin devices /\ devState'[d] = "CLOSED" /\ \A c \in Devices \ {d} : devState'[c] = devState[c]
    BY <2>1 DEF DevicesOpen, OnOpenDevice, TypeOK
  <2>4. \A q \in Threads \ {t} : arg[q].d # d
    BY <2>1 DEF Exclusive, DeviceOps
  <2>5. \A q \in Threads \ {t} : OnOpenDevice(q)'
    <3>1. OnlyMoves(t) /\ \A c \in Devices \ {d} : devState'[c] = devState[c] /\ (c \in devices' <=> c \in devices)
      BY <2>1, <2>2, <2>3
    <3>. HIDE DEF d
    <3>. QED
      BY <2>4, <3>1, OtherDevices DEF DevicesOpen
  <2>6. OnOpenDevice(t)'
    BY <2>1, <2>2, <2>3 DEF OnOpenDevice, MonitorOps, NoCall
  <2>7. \A q \in Threads, c \in devices : Opening(q, c) => Opening(q, c)'
    BY <2>1, <2>2 DEF Opening, OnlyMoves
  <2>8. devices \subseteq Devices \ {d}
    BY <2>3 DEF TypeOK
  <2>. QED
    BY <2>1, <2>3, <2>5, <2>6, <2>7, <2>8 DEF DevicesOpen
<1>17. ASSUME NEW t \in Threads, FreeDevice(t)
       PROVE  DevicesOpen'
  <2>. DEFINE d == arg[t].d
  <2>1. /\ pc[t] = "free" /\ arg[t].op \in {"deviceClose", "deviceDestroy"} /\ d \in Devices
        /\ devices' = devices /\ devState' = [devState EXCEPT ![d] = "none"]
    BY <1>17, InCall DEF FreeDevice, CallsFit, Fits
  <2>2. OnlyMoves(t) /\ (pc'[t] = "idle" /\ arg'[t] = NoCall)
    BY <1>17, Moved DEF FreeDevice
  <2>3. d \notin devices /\ devState'[d] = "none" /\ \A c \in Devices \ {d} : devState'[c] = devState[c]
    BY <2>1 DEF DevicesOpen, OnOpenDevice, TypeOK
  <2>4. \A q \in Threads \ {t} : arg[q].d # d
    BY <2>1 DEF Exclusive, DeviceOps
  <2>5. \A q \in Threads \ {t} : OnOpenDevice(q)'
    <3>1. OnlyMoves(t) /\ \A c \in Devices \ {d} : devState'[c] = devState[c] /\ (c \in devices' <=> c \in devices)
      BY <2>1, <2>2, <2>3
    <3>. HIDE DEF d
    <3>. QED
      BY <2>4, <3>1, OtherDevices DEF DevicesOpen
  <2>6. OnOpenDevice(t)'
    BY <2>1, <2>2, <2>3 DEF OnOpenDevice, MonitorOps, NoCall
  <2>7. \A q \in Threads, c \in devices : Opening(q, c) => Opening(q, c)'
    BY <2>1, <2>2 DEF Opening, OnlyMoves
  <2>8. devices \subseteq Devices \ {d}
    BY <2>3 DEF TypeOK
  <2>. QED
    BY <2>1, <2>3, <2>5, <2>6, <2>7, <2>8 DEF DevicesOpen
<1>18. ASSUME NEW t \in Threads, CheckDevice(t)
       PROVE  DevicesOpen'
  <2>1. /\ devices' = devices /\ devState' = devState
        /\ OnlyMoves(t) /\ pc[t] = "check" /\ pc'[t] = "ask" /\ arg'[t] = arg[t]
    BY <1>18, Moved DEF CheckDevice, handles
  <2>2. OnOpenDevice(t)' /\ \A c \in Devices : Opening(t, c) => Opening(t, c)'
    BY <2>1 DEF DevicesOpen, OnOpenDevice, Opening
  <2>. QED
    BY <2>1, <2>2, DevicesStay
<1>19. ASSUME NEW t \in Threads, AskDevice(t)
       PROVE  DevicesOpen'
  <2>1. /\ devices' = devices /\ devState' = devState
        /\ OnlyMoves(t) /\ pc[t] = "ask" /\ pc'[t] = "answer" /\ arg'[t] = arg[t]
    BY <1>19, Moved DEF AskDevice, handles
  <2>2. OnOpenDevice(t)' /\ \A c \in Devices : Opening(t, c) => Opening(t, c)'
    BY <2>1 DEF DevicesOpen, OnOpenDevice, Opening
  <2>. QED
    BY <2>1, <2>2, DevicesStay
<1>20. ASSUME NEW t \in Threads, ReadAnswer(t)
       PROVE  DevicesOpen'
  <2>1. /\ devices' = devices /\ devState' = devState
        /\ OnlyMoves(t) /\ pc[t] = "answer" /\ pc'[t] = "copy" /\ arg'[t] = arg[t]
    BY <1>20, Moved DEF ReadAnswer, handles
  <2>2. OnOpenDevice(t)' /\ \A c \in Devices : Opening(t, c) => Opening(t, c)'
    BY <2>1 DEF DevicesOpen, OnOpenDevice, Opening
  <2>. QED
    BY <2>1, <2>2, DevicesStay
<1>21. ASSUME NEW t \in Threads, CopyAnswer(t)
       PROVE  DevicesOpen'
  <2>. DEFINE d == arg[t].d
  <2>1. pc[t] = "copy" /\ d \in Devices /\ devices' = devices /\ OnlyMoves(t) /\ arg'[t] = NoCall /\ pc'[t] = "idle"
    BY <1>21, InCall, Moved DEF CopyAnswer
  <2>2. OnOpenDevice(t)'
    BY <2>1 DEF OnOpenDevice, MonitorOps, NoCall
  <2>3. CASE arg[t].op # "deviceOpen"
    <3>1. devState' = devState /\ \A c \in Devices : ~Opening(t, c)
      BY <1>21, <2>3 DEF CopyAnswer, Opening
    <3>. QED
      BY <2>1, <2>2, <3>1, DevicesStay
  <2>4. CASE arg[t].op = "deviceOpen"
    <3>1. devState'[d] = "OPENED" /\ \A c \in Devices \ {d} : devState'[c] = devState[c]
      BY <1>21, <2>1, <2>4 DEF CopyAnswer, TypeOK
    <3>2. \A q \in Threads \ {t} : arg[q].d # d
      BY <2>4 DEF Exclusive, DeviceOps
    <3>3. \A q \in Threads \ {t} : OnOpenDevice(q)'
      BY <2>1, <3>1, <3>2, OtherDevices DEF DevicesOpen
    <3>4. \A q \in Threads, c \in Devices \ {d} : Opening(q, c) => Opening(q, c)'
      BY <2>1 DEF Opening, OnlyMoves
    <3>5. devices \subseteq Devices
      BY DEF TypeOK
    <3>. QED
      BY <2>1, <2>2, <3>1, <3>3, <3>4, <3>5 DEF DevicesOpen
  <2>. QED
    BY <2>3, <2>4
<1>22. ASSUME NEW t \in Threads, sendGraphMonitorRequest(t)
       PROVE  DevicesOpen'
  <2>1. devices' = devices /\ devState' = devState /\ pc[t] = "send"
    BY <1>22 DEF sendGraphMonitorRequest, handles
  <2>2. /\ OnlyMoves(t) /\ pc'[t] \notin {"close", "free"}
        /\ arg'[t] = arg[t] \/ arg'[t] = NoCall
    BY <1>22, Moved DEF sendGraphMonitorRequest
  <2>3. OnOpenDevice(t)' /\ \A c \in Devices : ~Opening(t, c)
    BY <2>1, <2>2 DEF DevicesOpen, OnOpenDevice, Opening, MonitorOps, NoCall
  <2>. QED
    BY <2>1, <2>2, <2>3, DevicesStay
<1>23. ASSUME NEW t \in Threads, GraphAllocated(t)
       PROVE  DevicesOpen'
  <2>1. devices' = devices /\ devState' = devState /\ pc[t] = "response"
    BY <1>23 DEF GraphAllocated, handles, Response, At
  <2>2. /\ OnlyMoves(t) /\ pc'[t] \notin {"close", "free"}
        /\ arg'[t] = arg[t] \/ arg'[t] = NoCall
    BY <1>23, Moved DEF GraphAllocated
  <2>3. OnOpenDevice(t)' /\ \A c \in Devices : ~Opening(t, c)
    BY <2>1, <2>2 DEF DevicesOpen, OnOpenDevice, Opening, MonitorOps, NoCall
  <2>. QED
    BY <2>1, <2>2, <2>3, DevicesStay
<1>24. ASSUME NEW t \in Threads, GraphUnsupported(t)
       PROVE  DevicesOpen'
  <2>1. devices' = devices /\ devState' = devState /\ pc[t] = "response"
    BY <1>24 DEF GraphUnsupported, handles, Response, At
  <2>2. /\ OnlyMoves(t) /\ pc'[t] \notin {"close", "free"}
        /\ arg'[t] = arg[t] \/ arg'[t] = NoCall
    BY <1>24, Moved DEF GraphUnsupported
  <2>3. OnOpenDevice(t)' /\ \A c \in Devices : ~Opening(t, c)
    BY <2>1, <2>2 DEF DevicesOpen, OnOpenDevice, Opening, MonitorOps, NoCall
  <2>. QED
    BY <2>1, <2>2, <2>3, DevicesStay
<1>25. ASSUME NEW t \in Threads, LinkGraph(t)
       PROVE  DevicesOpen'
  <2>1. devices' = devices /\ devState' = devState /\ pc[t] = "link"
    BY <1>25 DEF LinkGraph, handles
  <2>2. /\ OnlyMoves(t) /\ pc'[t] \notin {"close", "free"}
        /\ arg'[t] = arg[t] \/ arg'[t] = NoCall
    BY <1>25, Moved DEF LinkGraph
  <2>3. OnOpenDevice(t)' /\ \A c \in Devices : ~Opening(t, c)
    BY <2>1, <2>2 DEF DevicesOpen, OnOpenDevice, Opening, MonitorOps, NoCall
  <2>. QED
    BY <2>1, <2>2, <2>3, DevicesStay
<1>26. ASSUME NEW t \in Threads, WriteHead(t)
       PROVE  DevicesOpen'
  <2>1. devices' = devices /\ devState' = devState /\ pc[t] = "write"
    BY <1>26 DEF WriteHead, handles
  <2>2. /\ OnlyMoves(t) /\ pc'[t] \notin {"close", "free"}
        /\ arg'[t] = arg[t] \/ arg'[t] = NoCall
    BY <1>26, Moved DEF WriteHead
  <2>3. OnOpenDevice(t)' /\ \A c \in Devices : ~Opening(t, c)
    BY <2>1, <2>2 DEF DevicesOpen, OnOpenDevice, Opening, MonitorOps, NoCall
  <2>. QED
    BY <2>1, <2>2, <2>3, DevicesStay
<1>27. ASSUME NEW t \in Threads, OpenFifoStream(t)
       PROVE  DevicesOpen'
  <2>1. devices' = devices /\ devState' = devState /\ pc[t] = "stream"
    BY <1>27 DEF OpenFifoStream, handles
  <2>2. /\ OnlyMoves(t) /\ pc'[t] \notin {"close", "free"}
        /\ arg'[t] = arg[t] \/ arg'[t] = NoCall
    BY <1>27, Moved DEF OpenFifoStream
  <2>3. OnOpenDevice(t)' /\ \A c \in Devices : ~Opening(t, c)
    BY <2>1, <2>2 DEF DevicesOpen, OnOpenDevice, Opening, MonitorOps, NoCall
  <2>. QED
    BY <2>1, <2>2, <2>3, DevicesStay
<1>28. ASSUME NEW t \in Threads, FifoAllocated(t)
       PROVE  DevicesOpen'
  <2>1. devices' = devices /\ devState' = devState /\ pc[t] = "response"
    BY <1>28 DEF FifoAllocated, handles, Response, At
  <2>2. /\ OnlyMoves(t) /\ pc'[t] \notin {"close", "free"}
        /\ arg'[t] = arg[t] \/ arg'[t] = NoCall
    BY <1>28, Moved DEF FifoAllocated
  <2>3. OnOpenDevice(t)' /\ \A c \in Devices : ~Opening(t, c)
    BY <2>1, <2>2 DEF DevicesOpen, OnOpenDevice, Opening, MonitorOps, NoCall
  <2>. QED
    BY <2>1, <2>2, <2>3, DevicesStay
<1>29. ASSUME NEW t \in Threads, GraphDeallocated(t)
       PROVE  DevicesOpen'
  <2>1. devices' = devices /\ devState' = devState /\ pc[t] = "response"
    BY <1>29 DEF GraphDeallocated, handles, Response, At
  <2>2. /\ OnlyMoves(t) /\ pc'[t] \notin {"close", "free"}
        /\ arg'[t] = arg[t] \/ arg'[t] = NoCall
    BY <1>29, Moved DEF GraphDeallocated
  <2>3. OnOpenDevice(t)' /\ \A c \in Devices : ~Opening(t, c)
    BY <2>1, <2>2 DEF DevicesOpen, OnOpenDevice, Opening, MonitorOps, NoCall
  <2>. QED
    BY <2>1, <2>2, <2>3, DevicesStay
<1>30. ASSUME NEW t \in Threads, FifoDeallocated(t)
       PROVE  DevicesOpen'
  <2>1. devices' = devices /\ devState' = devState /\ pc[t] = "response"
    BY <1>30 DEF FifoDeallocated, handles, Response, At
  <2>2. /\ OnlyMoves(t) /\ pc'[t] \notin {"close", "free"}
        /\ arg'[t] = arg[t] \/ arg'[t] = NoCall
    BY <1>30, Moved DEF FifoDeallocated
  <2>3. OnOpenDevice(t)' /\ \A c \in Devices : ~Opening(t, c)
    BY <2>1, <2>2 DEF DevicesOpen, OnOpenDevice, Opening, MonitorOps, NoCall
  <2>. QED
    BY <2>1, <2>2, <2>3, DevicesStay
<1>31. ASSUME NEW t \in Threads, GraphOption(t)
       PROVE  DevicesOpen'
  <2>1. devices' = devices /\ devState' = devState /\ pc[t] = "response"
    BY <1>31 DEF GraphOption, handles, At
  <2>2. /\ OnlyMoves(t) /\ pc'[t] \notin {"close", "free"}
        /\ arg'[t] = arg[t] \/ arg'[t] = NoCall
    BY <1>31, Moved DEF GraphOption
  <2>3. OnOpenDevice(t)' /\ \A c \in Devices : ~Opening(t, c)
    BY <2>1, <2>2 DEF DevicesOpen, OnOpenDevice, Opening, MonitorOps, NoCall
  <2>. QED
    BY <2>1, <2>2, <2>3, DevicesStay
<1>32. ASSUME NEW t \in Threads, Deallocate(t)
       PROVE  DevicesOpen'
  <2>1. devices' = devices /\ devState' = devState /\ pc[t] = "unlink"
    BY <1>32 DEF Deallocate, handles
  <2>2. /\ OnlyMoves(t) /\ pc'[t] \notin {"close", "free"}
        /\ arg'[t] = arg[t] \/ arg'[t] = NoCall
    BY <1>32, Moved DEF Deallocate
  <2>3. OnOpenDevice(t)' /\ \A c \in Devices : ~Opening(t, c)
    BY <2>1, <2>2 DEF DevicesOpen, OnOpenDevice, Opening, MonitorOps, NoCall
  <2>. QED
    BY <2>1, <2>2, <2>3, DevicesStay
<1>33. ASSUME NEW d \in Devices, Boots(d)
       PROVE  DevicesOpen'
  BY <1>33 DEF Boots, threads, DevicesOpen, OnOpenDevice, Opening
<1>34. ASSUME NEW d \in Devices, ReEnumerates(d)
       PROVE  DevicesOpen'
  BY <1>34 DEF ReEnumerates, threads, DevicesOpen, OnOpenDevice, Opening
<1>35. ASSUME NEW d \in Devices, MonitorExecutes(d)
       PROVE  DevicesOpen'
  BY <1>35 DEF MonitorExecutes, threads, handles, DevicesOpen, OnOpenDevice, Opening
<1>36. ASSUME NEW d \in Devices, MonitorAnswers(d)
       PROVE  DevicesOpen'
  BY <1>36 DEF MonitorAnswers, threads, handles, DevicesOpen, OnOpenDevice, Opening
<1>. QED
  BY <1>1, <1>2, <1>3, <1>4, <1>5, <1>6, <1>7, <1>8, <1>9, <1>10, <1>11, <1>12, <1>13,
     <1>14, <1>15, <1>16, <1>17, <1>18, <1>19, <1>20, <1>21, <1>22, <1>23, <1>24, <1>25,
     <1>26, <1>27, <1>28, <1>29, <1>30, <1>31, <1>32, <1>33, <1>34, <1>35, <1>36
     DEF Next, Begin, Step, Device

ListsSound == ListsStraight /\ ListsHold /\ AllocatedListed

\* A list has elements and begins with one of them; its name has a device.
LEMMA ListTypes ==
    ASSUME TypeOK, NEW l \in Lists
    PROVE  /\ head[l] \in Elements \cup {None} /\ next \in [Elements -> Elements \cup {None}]
           /\ l[1] \in Devices /\ InList(l) \in SUBSET Elements
  BY DEF TypeOK, Lists, InList, Reached

\* An element is in one list, which belongs to its device and its kind.
LEMMA OneList ==
    ASSUME ListsHold, NEW l \in Lists, NEW e \in InList(l)
    PROVE  /\ l = List(dev[e], e) /\ dev[e] = l[1]
           /\ \A k \in Lists : e \in InList(k) => k = l
  BY DEF ListsHold, InPlace

\* Lists stay true when they, their elements and their devices are left alone.
LEMMA ListsStay ==
    ASSUME ListsSound, head' = head, next' = next, state' = state, dev' = dev,
           \A l \in Lists : devState[l[1]] = "OPENED" => devState'[l[1]] = "OPENED"
    PROVE  ListsSound'
  BY DEF ListsSound, ListsStraight, ListsHold, AllocatedListed, InPlace, InList

\* A graph stays without a successor, or with a call that links it, when a step of
\* a call changes only the successor of its own graph.
LEMMA FreshStep ==
    ASSUME NEW t \in Threads, OnlyMoves(t), GraphsFresh,
           \A g \in Graphs : state'[g] = "CREATED" =>
               \/ next'[g] = None
               \/ pc'[t] = "write" /\ arg'[t].e = g
               \/ state[g] = "CREATED" /\ next'[g] = next[g] /\ ~(pc[t] = "write" /\ arg[t].e = g)
    PROVE  GraphsFresh'
<1> SUFFICES ASSUME NEW g \in Graphs, state'[g] = "CREATED", next'[g] # None,
                    ~(pc'[t] = "write" /\ arg'[t].e = g)
             PROVE  \E q \in Threads : pc'[q] = "write" /\ arg'[q].e = g
  BY DEF GraphsFresh
<1>1. state[g] = "CREATED" /\ next'[g] = next[g] /\ ~(pc[t] = "write" /\ arg[t].e = g)
  OBVIOUS
<1>2. PICK q \in Threads : pc[q] = "write" /\ arg[q].e = g
  BY <1>1 DEF GraphsFresh
<1>. QED
  BY <1>1, <1>2 DEF OnlyMoves

\* No list changes when the successor of an element outside them does.
LEMMA NextOutside ==
    ASSUME TypeOK, ListsStraight, NEW e \in Elements, ~Listed(e), NEW x \in Elements \cup {None},
           next' = [next EXCEPT ![e] = x], head' = head
    PROVE  ListsStraight' /\ \A l \in Lists : InList(l)' = InList(l)
<1> SUFFICES ASSUME NEW l \in Lists
             PROVE  Straight(head'[l], next') /\ InList(l)' = InList(l)
  BY DEF ListsStraight
<1>1. /\ head[l] \in Elements \cup {None} /\ next \in [Elements -> Elements \cup {None}]
      /\ next' \in [Elements -> Elements \cup {None}]
  BY ListTypes
<1>2. \A p \in Reached(head[l], next) : next'[p] = next[p]
  <2>1. e \notin Reached(head[l], next) /\ Reached(head[l], next) \in SUBSET Elements
    BY <1>1, ReachedClosed DEF Listed, InList
  <2>. QED
    BY <1>1, <2>1
<1>. QED
  BY <1>1, <1>2, ReachedFrame DEF InList, ListsStraight

\* Lists that do not change stay true when an element outside them does.
LEMMA OutsideChanges ==
    ASSUME ListsSound, TypeOK, NEW e \in Elements, ~Listed(e), ListsStraight',
           \A l \in Lists : InList(l)' = InList(l),
           \A x \in Elements \ {e} : state'[x] = state[x] /\ dev'[x] = dev[x],
           state'[e] # "ALLOCATED", devState' = devState
    PROVE  ListsSound'
<1>1. ListsHold'
  <2> SUFFICES ASSUME NEW l \in Lists, NEW x \in InList(l)'
               PROVE  InPlace(l, x)'
    BY DEF ListsHold
  <2>1. x \in InList(l) /\ x # e /\ x \in Elements
    BY ListTypes DEF Listed
  <2>. QED
    BY <2>1 DEF ListsSound, ListsHold, InPlace
<1>2. AllocatedListed'
  <2> SUFFICES ASSUME NEW x \in Elements, state'[x] = "ALLOCATED"
               PROVE  dev'[x] \in Devices /\ x \in Reached(head'[List(dev'[x], x)], next')
    BY DEF AllocatedListed, InList
  <2>1. dev'[x] = dev[x] /\ dev[x] \in Devices /\ x \in InList(List(dev[x], x))
    BY DEF ListsSound, AllocatedListed
  <2>2. PICK l \in Lists : l = List(dev[x], x)
    BY <2>1, ListNames
  <2>. QED
    BY <2>1, <2>2 DEF InList
<1>. QED
  BY <1>1, <1>2 DEF ListsSound

\* WriteHead puts the element of the call in front of its list.
LEMMA HeadWritten ==
    ASSUME TypeOK, CallsFit, ListsStraight, NEW t \in Threads, OnElement(t), WriteHead(t),
           NEW e \in Elements, NEW L \in Lists, e = arg[t].e, L = List(arg[t].d, e)
    PROVE  /\ ListsStraight' /\ InList(L)' = InList(L) \cup {e} /\ next' = next
           /\ \A l \in Lists \ {L} : InList(l)' = InList(l) /\ head'[l] = head[l]
<1>1. pc[t] = "write"
  BY DEF WriteHead
<1>2. ~Listed(e) /\ next[e] = head[L]
  BY <1>1 DEF OnElement
<1>3. head' = [head EXCEPT ![L] = e] /\ next' = next
  BY DEF WriteHead
<1>4. /\ head[L] \in Elements \cup {None} /\ next \in [Elements -> Elements \cup {None}]
      /\ Straight(head[L], next) /\ e \notin Reached(head[L], next)
  BY <1>2, ListTypes DEF Listed, InList, ListsStraight
<1>5. Reached(e, next) = Reached(head[L], next) \cup {e} /\ Straight(e, next)
  BY <1>1, <1>2, <1>4, ReachedInFront
<1>6. head'[L] = e /\ \A l \in Lists \ {L} : head'[l] = head[l]
  BY <1>3 DEF TypeOK
<1>7. InList(L)' = InList(L) \cup {e} /\ \A l \in Lists \ {L} : InList(l)' = InList(l)
  BY <1>3, <1>5, <1>6 DEF InList
<1>8. ListsStraight'
  BY <1>3, <1>5, <1>6 DEF ListsStraight
<1>. QED
  BY <1>3, <1>6, <1>7, <1>8

\* Deallocate takes the element of the call out of its list.
LEMMA Unlinked ==
    ASSUME TypeOK, CallsFit, ListsSound, NEW t \in Threads, OnElement(t), Deallocate(t),
           NEW e \in Elements, NEW L \in Lists, e = arg[t].e, L = List(arg[t].d, e)
    PROVE  /\ ListsStraight' /\ \A l \in Lists : InList(l)' = InList(l) \ {e}
           /\ \A l \in Lists \ {L} : head'[l] = head[l]
           /\ \A p \in Elements : next'[p] # next[p] => p \in InList(L)
<1>1. pc[t] = "unlink"
  BY DEF Deallocate
<1>2. e \in InList(L)
  BY <1>1 DEF OnElement, ListsSound, AllocatedListed
<1>3. /\ head' = IF head[L] = e THEN [head EXCEPT ![L] = next[e]] ELSE head
      /\ next' = [p \in Elements |-> IF head[L] # e /\ p \in InList(L) /\ next[p] = e THEN next[e] ELSE next[p]]
  BY DEF Deallocate, Unlink
<1>4. /\ next \in [Elements -> Elements \cup {None}] /\ next' \in [Elements -> Elements \cup {None}]
      /\ Straight(head[L], next) /\ head[L] \in Elements \cup {None}
      /\ \A l \in Lists \ {L} : head'[l] = head[l]
  BY <1>1, <1>2, <1>3, ListTypes DEF ListsSound, ListsStraight
<1>5. InList(L)' = InList(L) \ {e} /\ Straight(head'[L], next')
  <2>1. CASE head[L] = e
    <3>1. next' = next /\ head'[L] = next[e]
      BY <1>2, <1>3, <1>4, <2>1 DEF TypeOK
    <3>. QED
      BY <1>1, <1>4, <2>1, <3>1, ReachedWithoutHead DEF InList
  <2>2. CASE head[L] # e
    <3>1. head'[L] = head[L] /\ InList(L) \in SUBSET Elements
      BY <1>2, <1>3, <2>2, ListTypes
    <3>2. \A p \in Reached(head[L], next) : next'[p] = IF next[p] = e THEN next[e] ELSE next[p]
      BY <1>3, <2>2, <3>1 DEF InList
    <3>. QED
      BY <1>1, <1>4, <2>2, <3>1, <3>2, ReachedWithout DEF InList
  <2>. QED
    BY <2>1, <2>2
<1>6. ASSUME NEW l \in Lists \ {L}
      PROVE  InList(l)' = InList(l) /\ e \notin InList(l) /\ Straight(head'[l], next')
  <2>1. \A p \in InList(l) : p \in Elements /\ p \notin InList(L)
    BY <1>2, <1>6, OneList, ListTypes DEF ListsSound
  <2>2. \A p \in Reached(head[l], next) : next'[p] = next[p]
    BY <1>3, <2>1 DEF InList
  <2>3. head'[l] = head[l] /\ head[l] \in Elements \cup {None} /\ Straight(head[l], next)
    BY <1>4, <1>6, ListTypes DEF ListsSound, ListsStraight
  <2>. QED
    BY <1>2, <1>4, <2>1, <2>2, <2>3, ReachedFrame DEF InList
<1>7. ListsStraight' /\ \A l \in Lists : InList(l)' = InList(l) \ {e}
  BY <1>5, <1>6 DEF ListsStraight
<1>8. \A p \in Elements : next'[p] # next[p] => p \in InList(L)
  BY <1>3
<1>. QED
  BY <1>4, <1>7, <1>8

\* DeallocateAll empties the lists of its device and frees what was in them.
LEMMA AllDeallocated ==
    ASSUME TypeOK, CallsFit, ListsSound, NEW t \in Threads, DeallocateAll(t)
    PROVE  /\ arg[t].d \in Devices /\ ListsStraight' /\ next' = next
           /\ \A l \in Lists : InList(l)' = IF l[1] = arg[t].d THEN {} ELSE InList(l)
           /\ \A l \in Lists : l[1] # arg[t].d => head'[l] = head[l]
           /\ \A x \in Elements :
                 \/ state'[x] = state[x] /\ dev'[x] = dev[x] /\ \A l \in Lists : l[1] = arg[t].d => x \notin InList(l)
                 \/ /\ state'[x] # "ALLOCATED" /\ (x \in Graphs => state'[x] # "CREATED")
                    /\ dev[x] = arg[t].d /\ dev'[x] = None /\ state'[x] \in {"none", state[x]}
                    /\ \E l \in Lists : x \in InList(l)
<1>. DEFINE d == arg[t].d
            left == UNION {InList(<<d, k>>) : k \in {"graphs", "fifos"}}
<1>1. d \in Devices /\ next' = next /\ head' = [l \in Lists |-> IF l[1] = d THEN None ELSE head[l]]
  BY InCall DEF DeallocateAll
<1>2. \A l \in Lists : head'[l] = IF l[1] = d THEN None ELSE head[l]
  BY <1>1
<1>3. \A l \in Lists : InList(l)' = IF l[1] = d THEN {} ELSE InList(l)
  BY <1>1, <1>2, ReachedFromNone DEF InList
<1>4. ListsStraight'
  <2>1. Straight(None, next)
    BY ReachedFromNone DEF Straight
  <2>. QED
    BY <1>1, <1>2, <2>1 DEF ListsStraight, ListsSound
<1>5. \A x : x \in left <=> \E l \in Lists : l[1] = d /\ x \in InList(l)
  <2>1. \A k \in {"graphs", "fifos"} : <<d, k>> \in Lists /\ <<d, k>>[1] = d
    BY <1>1 DEF Lists
  <2>2. \A l \in Lists : l[1] = d => \E k \in {"graphs", "fifos"} : l = <<d, k>>
    BY DEF Lists
  <2>. QED
    BY <2>1, <2>2
<1>6. ASSUME NEW x \in Elements
      PROVE  /\ state'[x] = IF x \in left /\ (x \in Graphs \/ state[x] = "ALLOCATED") THEN "none" ELSE state[x]
             /\ dev'[x] = IF x \in left THEN None ELSE dev[x]
  BY DEF DeallocateAll
<1>. HIDE DEF left, d
<1>7. ASSUME NEW x \in Elements, x \in left
      PROVE  /\ state'[x] # "ALLOCATED" /\ (x \in Graphs => state'[x] # "CREATED")
             /\ dev[x] = d /\ dev'[x] = None /\ state'[x] \in {"none", state[x]}
             /\ \E l \in Lists : x \in InList(l)
  <2>1. PICK l \in Lists : l[1] = d /\ x \in InList(l)
    BY <1>5, <1>7
  <2>2. dev[x] = d
    BY <2>1, OneList DEF ListsSound
  <2>. QED
    BY <1>6, <1>7, <2>1, <2>2
<1>8. ASSUME NEW x \in Elements, x \notin left
      PROVE  state'[x] = state[x] /\ dev'[x] = dev[x] /\ \A l \in Lists : l[1] = d => x \notin InList(l)
  BY <1>5, <1>6, <1>8
<1>9. \A x \in Elements :
         \/ state'[x] = state[x] /\ dev'[x] = dev[x] /\ \A l \in Lists : l[1] = d => x \notin InList(l)
         \/ /\ state'[x] # "ALLOCATED" /\ (x \in Graphs => state'[x] # "CREATED")
            /\ dev[x] = d /\ dev'[x] = None /\ state'[x] \in {"none", state[x]}
            /\ \E l \in Lists : x \in InList(l)
  BY <1>7, <1>8
<1>. QED
  BY <1>1, <1>2, <1>3, <1>4, <1>9 DEF d

\* A call on an element is on a device, and the element belongs in one of its lists.
LEMMA ElementCall ==
    ASSUME TypeOK, CallsFit, NEW t \in Threads,
           pc[t] \in {"send", "response", "link", "write", "stream", "unlink"}
    PROVE  /\ arg[t].d \in Devices /\ arg[t].e \in Elements /\ arg[t].op \in MonitorOps
           /\ List(arg[t].d, arg[t].e) \in Lists /\ List(arg[t].d, arg[t].e)[1] = arg[t].d
<1>1. pc[t] # "idle" /\ arg[t].e \in Elements /\ arg[t].op \in MonitorOps
  BY DEF CallsFit, Fits
<1>2. arg[t].d \in Devices
  BY <1>1, InCall
<1>. QED
  BY <1>1, <1>2, ListNames

\* A handle that has no call, or is not even created, is in no list.
LEMMA NotListed ==
    ASSUME ListsHold, NEW e, state[e] = "none" \/ (e \in Graphs /\ state[e] = "CREATED")
    PROVE  ~Listed(e)
  BY NcDeviceAssumption DEF ListsHold, InPlace, Listed

\* Every step keeps the lists true, and graphs that are in none without a successor.
LEMMA ListsStep ==
    ASSUME TypeOK, CallsFit, DevicesOpen, ListsSound, GraphsFresh, CallsOnElements, Owned, Careful, Next
    PROVE  ListsSound' /\ GraphsFresh'
<1>1. ASSUME NEW t \in Threads, NEW d \in Devices, ncDeviceCreate(t, d)
       PROVE  ListsSound' /\ GraphsFresh'
  <2>1. head' = head /\ next' = next /\ state' = state /\ dev' = dev
    BY <1>1 DEF ncDeviceCreate, lists, elems
  <2>2. \A c \in Devices : devState[c] = "OPENED" => devState'[c] = "OPENED"
    BY <1>1 DEF ncDeviceCreate, TypeOK
  <2>3. ListsSound'
    BY <2>1, <2>2, ListsStay, ListTypes
  <2>4. OnlyMoves(t) /\ pc[t] # "write"
    BY <1>1, Moved, CallMoves DEF ncDeviceCreate, threads, Quiet
  <2>. QED
    BY <2>1, <2>3, <2>4, FreshStep, NoneIsNothing
<1>2. ASSUME NEW t \in Threads, NEW d \in Devices, ncDeviceOpen(t, d)
       PROVE  ListsSound' /\ GraphsFresh'
  <2>1. head' = head /\ next' = next /\ state' = state /\ dev' = dev
    BY <1>2 DEF ncDeviceOpen, lists, elems
  <2>2. devState' = devState
    BY <1>2 DEF ncDeviceOpen, handles
  <2>3. ListsSound'
    BY <2>1, <2>2, ListsStay, ListTypes
  <2>4. OnlyMoves(t) /\ pc[t] # "write"
    BY <1>2, Moved, CallMoves DEF ncDeviceOpen, threads, Quiet
  <2>. QED
    BY <2>1, <2>3, <2>4, FreshStep, NoneIsNothing
<1>3. ASSUME NEW t \in Threads, NEW d \in Devices, ncDeviceDestroy(t, d)
       PROVE  ListsSound' /\ GraphsFresh'
  <2>1. head' = head /\ next' = next /\ state' = state /\ dev' = dev
    BY <1>3 DEF ncDeviceDestroy, lists, elems
  <2>2. devState' = devState
    BY <1>3 DEF ncDeviceDestroy, handles
  <2>3. ListsSound'
    BY <2>1, <2>2, ListsStay, ListTypes
  <2>4. OnlyMoves(t) /\ pc[t] # "write"
    BY <1>3, Moved, CallMoves DEF ncDeviceDestroy, Quiet
  <2>. QED
    BY <2>1, <2>3, <2>4, FreshStep, NoneIsNothing
<1>4. ASSUME NEW t \in Threads, NEW d \in Devices, NEW op \in {"deviceClose", "deviceDestroy"}, ncDeviceClose(t, d, op)
       PROVE  ListsSound' /\ GraphsFresh'
  <2>1. head' = head /\ next' = next /\ state' = state /\ dev' = dev
    BY <1>4 DEF ncDeviceClose, lists, elems
  <2>2. devState' = devState
    BY <1>4 DEF ncDeviceClose, handles
  <2>3. ListsSound'
    BY <2>1, <2>2, ListsStay, ListTypes
  <2>4. OnlyMoves(t) /\ pc[t] # "write"
    BY <1>4, Moved, CallMoves DEF ncDeviceClose, Quiet
  <2>. QED
    BY <2>1, <2>3, <2>4, FreshStep, NoneIsNothing
<1>5. ASSUME NEW t \in Threads, NEW d \in Devices, ncDeviceGetOption(t, d)
       PROVE  ListsSound' /\ GraphsFresh'
  <2>1. head' = head /\ next' = next /\ state' = state /\ dev' = dev
    BY <1>5 DEF ncDeviceGetOption, lists, elems
  <2>2. devState' = devState
    BY <1>5 DEF ncDeviceGetOption, handles
  <2>3. ListsSound'
    BY <2>1, <2>2, ListsStay, ListTypes
  <2>4. OnlyMoves(t) /\ pc[t] # "write"
    BY <1>5, Moved, CallMoves DEF ncDeviceGetOption
  <2>. QED
    BY <2>1, <2>3, <2>4, FreshStep, NoneIsNothing
<1>6. ASSUME NEW t \in Threads, NEW e \in Elements, Create(t, e)
       PROVE  ListsSound' /\ GraphsFresh'
  <2>1. /\ OnlyMoves(t) /\ state[e] = "none" /\ state' = [state EXCEPT ![e] = "CREATED"] /\ head' = head
        /\ next' = [next EXCEPT ![e] = None] /\ dev' = [dev EXCEPT ![e] = None] /\ devState' = devState
        /\ pc[t] = "idle"
    BY <1>6, Moved DEF Create, handles, threads, Quiet
  <2>2. ~Listed(e)
    BY <2>1, NotListed DEF ListsSound
  <2>3. ListsStraight' /\ \A l \in Lists : InList(l)' = InList(l)
    BY <2>1, <2>2, NextOutside DEF ListsSound
  <2>4. /\ state'[e] = "CREATED" /\ next'[e] = None
        /\ \A x \in Elements \ {e} : state'[x] = state[x] /\ dev'[x] = dev[x] /\ next'[x] = next[x]
    BY <2>1 DEF TypeOK
  <2>5. ListsSound'
    BY <2>1, <2>2, <2>3, <2>4, OutsideChanges
  <2>6. GraphsFresh'
    BY <2>1, <2>4, FreshStep, NoneIsNothing
  <2>. QED
    BY <2>5, <2>6
<1>7. ASSUME NEW t \in Threads, NEW e \in Elements, DestroyCreated(t, e)
       PROVE  ListsSound' /\ GraphsFresh'
  <2>1. /\ OnlyMoves(t) /\ ~Listed(e) /\ state' = [state EXCEPT ![e] = "none"] /\ head' = head
        /\ next' = next /\ dev' = dev /\ devState' = devState /\ pc[t] = "idle"
    BY <1>7, Moved DEF DestroyCreated, handles, threads, lists, Careful, Quiet
  <2>2. ListsStraight' /\ \A l \in Lists : InList(l)' = InList(l)
    BY <2>1 DEF ListsSound, ListsStraight, InList
  <2>3. state'[e] = "none" /\ \A x \in Elements \ {e} : state'[x] = state[x]
    BY <2>1 DEF TypeOK
  <2>4. ListsSound'
    BY <2>1, <2>2, <2>3, OutsideChanges
  <2>5. GraphsFresh'
    BY <2>1, <2>3, FreshStep, NoneIsNothing
  <2>. QED
    BY <2>4, <2>5
<1>8. ASSUME NEW t \in Threads, NEW g \in Graphs, ncGraphDestroy(t, g)
       PROVE  ListsSound' /\ GraphsFresh'
  <2>1. head' = head /\ next' = next /\ state' = state /\ dev' = dev
    BY <1>8 DEF ncGraphDestroy, lists, elems
  <2>2. devState' = devState
    BY <1>8 DEF ncGraphDestroy, handles
  <2>3. ListsSound'
    BY <2>1, <2>2, ListsStay, ListTypes
  <2>4. OnlyMoves(t) /\ pc[t] # "write"
    BY <1>8, Moved, CallMoves DEF ncGraphDestroy, Quiet
  <2>. QED
    BY <2>1, <2>3, <2>4, FreshStep, NoneIsNothing
<1>9. ASSUME NEW t \in Threads, NEW g \in Graphs, ncGraphGetOption(t, g)
       PROVE  ListsSound' /\ GraphsFresh'
  <2>1. head' = head /\ next' = next /\ state' = state /\ dev' = dev
    BY <1>9 DEF ncGraphGetOption, lists, elems
  <2>2. devState' = devState
    BY <1>9 DEF ncGraphGetOption, handles
  <2>3. ListsSound'
    BY <2>1, <2>2, ListsStay, ListTypes
  <2>4. OnlyMoves(t) /\ pc[t] # "write"
    BY <1>9, Moved, CallMoves DEF ncGraphGetOption, Quiet
  <2>. QED
    BY <2>1, <2>3, <2>4, FreshStep, NoneIsNothing
<1>10. ASSUME NEW t \in Threads, NEW g \in Graphs, NEW d \in Devices, ncGraphAllocate(t, g, d)
       PROVE  ListsSound' /\ GraphsFresh'
  <2>1. head' = head /\ next' = next /\ state' = state /\ dev' = dev
    BY <1>10 DEF ncGraphAllocate, lists, elems
  <2>2. devState' = devState
    BY <1>10 DEF ncGraphAllocate, handles
  <2>3. ListsSound'
    BY <2>1, <2>2, ListsStay, ListTypes
  <2>4. OnlyMoves(t) /\ pc[t] # "write"
    BY <1>10, Moved, CallMoves DEF ncGraphAllocate, threads, Quiet
  <2>. QED
    BY <2>1, <2>3, <2>4, FreshStep, NoneIsNothing
<1>11. ASSUME NEW t \in Threads, NEW f \in Fifos, ncFifoDestroy(t, f)
       PROVE  ListsSound' /\ GraphsFresh'
  <2>1. head' = head /\ next' = next /\ state' = state /\ dev' = dev
    BY <1>11 DEF ncFifoDestroy, lists, elems
  <2>2. devState' = devState
    BY <1>11 DEF ncFifoDestroy, handles
  <2>3. ListsSound'
    BY <2>1, <2>2, ListsStay, ListTypes
  <2>4. OnlyMoves(t) /\ pc[t] # "write"
    BY <1>11, Moved, CallMoves DEF ncFifoDestroy, Quiet
  <2>. QED
    BY <2>1, <2>3, <2>4, FreshStep, NoneIsNothing
<1>12. ASSUME NEW t \in Threads, NEW f \in Fifos, NEW d \in Devices, ncFifoAllocate(t, f, d)
       PROVE  ListsSound' /\ GraphsFresh'
  <2>1. /\ OnlyMoves(t) /\ ~Listed(f) /\ state' = state /\ head' = head /\ state[f] = "CREATED"
        /\ next' = [next EXCEPT ![f] = head[List(d, f)]] /\ dev' = [dev EXCEPT ![f] = d] /\ devState' = devState
        /\ pc[t] = "idle"
    BY <1>12, CallMoves DEF ncFifoAllocate, handles, Quiet
  <2>2. f \in Elements /\ f \notin Graphs /\ head[List(d, f)] \in Elements \cup {None}
    BY ListNames, ListTypes, NoneIsNothing, NcDeviceAssumption
  <2>3. ListsStraight' /\ \A l \in Lists : InList(l)' = InList(l)
    BY <2>1, <2>2, NextOutside DEF ListsSound
  <2>4. \A x \in Elements \ {f} : dev'[x] = dev[x] /\ next'[x] = next[x]
    BY <2>1 DEF TypeOK
  <2>5. ListsSound'
    BY <2>1, <2>2, <2>3, <2>4, OutsideChanges
  <2>6. GraphsFresh'
    BY <2>1, <2>2, <2>4, FreshStep, NoneIsNothing
  <2>. QED
    BY <2>5, <2>6
<1>13. ASSUME NEW t \in Threads, XLinkConnect(t)
       PROVE  ListsSound' /\ GraphsFresh'
  <2>1. head' = head /\ next' = next /\ state' = state /\ dev' = dev
    BY <1>13 DEF XLinkConnect, lists, elems
  <2>2. devState' = devState
    BY <1>13 DEF XLinkConnect, handles
  <2>3. ListsSound'
    BY <2>1, <2>2, ListsStay, ListTypes
  <2>4. OnlyMoves(t) /\ pc[t] # "write"
    BY <1>13, Moved DEF XLinkConnect
  <2>. QED
    BY <2>1, <2>3, <2>4, FreshStep, NoneIsNothing
<1>14. ASSUME NEW t \in Threads, ScanBootDevices(t)
       PROVE  ListsSound' /\ GraphsFresh'
  <2>1. head' = head /\ next' = next /\ state' = state /\ dev' = dev
    BY <1>14 DEF ScanBootDevices, lists, elems
  <2>2. devState' = devState
    BY <1>14 DEF ScanBootDevices, handles
  <2>3. ListsSound'
    BY <2>1, <2>2, ListsStay, ListTypes
  <2>4. OnlyMoves(t) /\ pc[t] # "write"
    BY <1>14, Moved DEF ScanBootDevices
  <2>. QED
    BY <2>1, <2>3, <2>4, FreshStep, NoneIsNothing
<1>15. ASSUME NEW t \in Threads, OpenDeviceMonitor(t)
       PROVE  ListsSound' /\ GraphsFresh'
  <2>1. head' = head /\ next' = next /\ state' = state /\ dev' = dev
    BY <1>15 DEF OpenDeviceMonitor, lists, elems
  <2>2. devState' = devState
    BY <1>15 DEF OpenDeviceMonitor, handles
  <2>3. ListsSound'
    BY <2>1, <2>2, ListsStay, ListTypes
  <2>4. OnlyMoves(t) /\ pc[t] # "write"
    BY <1>15, Moved DEF OpenDeviceMonitor
  <2>. QED
    BY <2>1, <2>3, <2>4, FreshStep, NoneIsNothing
<1>16. ASSUME NEW t \in Threads, DeallocateAll(t)
       PROVE  ListsSound' /\ GraphsFresh'
  <2>1. pc[t] = "close" /\ OnlyMoves(t)
    BY <1>16, Moved DEF DeallocateAll
  <2>2. PICK d \in Devices : d = arg[t].d
    BY <2>1, InCall
  <2>3. \A c \in Devices \ {d} : devState'[c] = devState[c]
    BY <1>16, <2>2 DEF DeallocateAll, TypeOK
  <2>4. /\ ListsStraight' /\ next' = next
        /\ \A l \in Lists : InList(l)' = IF l[1] = d THEN {} ELSE InList(l)
        /\ \A x \in Elements :
              \/ state'[x] = state[x] /\ dev'[x] = dev[x] /\ \A l \in Lists : l[1] = d => x \notin InList(l)
              \/ state'[x] # "ALLOCATED" /\ (x \in Graphs => state'[x] # "CREATED") /\ dev[x] = d
    BY <1>16, <2>2, AllDeallocated
  <2>5. ListsHold'
    <3> SUFFICES ASSUME NEW l \in Lists, NEW x \in InList(l)'
                 PROVE  InPlace(l, x)'
      BY DEF ListsHold
    <3>1. l[1] \in Devices \ {d} /\ x \in InList(l) /\ x \in Elements
      BY <2>4, ListTypes
    <3>2. InPlace(l, x) /\ dev[x] # d
      BY <3>1 DEF ListsSound, ListsHold, InPlace
    <3>. QED
      BY <2>3, <2>4, <3>1, <3>2 DEF InPlace
  <2>6. AllocatedListed'
    <3> SUFFICES ASSUME NEW x \in Elements, state'[x] = "ALLOCATED"
                 PROVE  dev'[x] \in Devices /\ x \in Reached(head'[List(dev'[x], x)], next')
      BY DEF AllocatedListed, InList
    <3>1. state[x] = "ALLOCATED" /\ dev'[x] = dev[x] /\ \A l \in Lists : l[1] = d => x \notin InList(l)
      BY <2>4
    <3>2. dev[x] \in Devices /\ x \in InList(List(dev[x], x))
      BY <3>1 DEF ListsSound, AllocatedListed
    <3>3. PICK l \in Lists : l = List(dev[x], x)
      BY <3>2, ListNames
    <3>4. x \in InList(l)'
      BY <2>4, <3>1, <3>2, <3>3
    <3>. QED
      BY <3>1, <3>2, <3>3, <3>4 DEF InList
  <2>7. GraphsFresh'
    BY <2>1, <2>4, FreshStep, NoneIsNothing
  <2>. QED
    BY <2>4, <2>5, <2>6, <2>7 DEF ListsSound
<1>17. ASSUME NEW t \in Threads, FreeDevice(t)
       PROVE  ListsSound' /\ GraphsFresh'
  <2>1. head' = head /\ next' = next /\ state' = state /\ dev' = dev
    BY <1>17 DEF FreeDevice, lists, elems
  <2>2. \A c \in Devices : devState[c] = "OPENED" => devState'[c] = "OPENED"
    BY <1>17 DEF FreeDevice, TypeOK, DevicesOpen, OnOpenDevice
  <2>3. ListsSound'
    BY <2>1, <2>2, ListsStay, ListTypes
  <2>4. OnlyMoves(t) /\ pc[t] # "write"
    BY <1>17, Moved DEF FreeDevice
  <2>. QED
    BY <2>1, <2>3, <2>4, FreshStep, NoneIsNothing
<1>18. ASSUME NEW t \in Threads, CheckDevice(t)
       PROVE  ListsSound' /\ GraphsFresh'
  <2>1. head' = head /\ next' = next /\ state' = state /\ dev' = dev
    BY <1>18 DEF CheckDevice, lists, elems
  <2>2. devState' = devState
    BY <1>18 DEF CheckDevice, handles
  <2>3. ListsSound'
    BY <2>1, <2>2, ListsStay, ListTypes
  <2>4. OnlyMoves(t) /\ pc[t] # "write"
    BY <1>18, Moved DEF CheckDevice
  <2>. QED
    BY <2>1, <2>3, <2>4, FreshStep, NoneIsNothing
<1>19. ASSUME NEW t \in Threads, AskDevice(t)
       PROVE  ListsSound' /\ GraphsFresh'
  <2>1. head' = head /\ next' = next /\ state' = state /\ dev' = dev
    BY <1>19 DEF AskDevice, lists, elems
  <2>2. devState' = devState
    BY <1>19 DEF AskDevice, handles
  <2>3. ListsSound'
    BY <2>1, <2>2, ListsStay, ListTypes
  <2>4. OnlyMoves(t) /\ pc[t] # "write"
    BY <1>19, Moved DEF AskDevice
  <2>. QED
    BY <2>1, <2>3, <2>4, FreshStep, NoneIsNothing
<1>20. ASSUME NEW t \in Threads, ReadAnswer(t)
       PROVE  ListsSound' /\ GraphsFresh'
  <2>1. head' = head /\ next' = next /\ state' = state /\ dev' = dev
    BY <1>20 DEF ReadAnswer, lists, elems
  <2>2. devState' = devState
    BY <1>20 DEF ReadAnswer, handles
  <2>3. ListsSound'
    BY <2>1, <2>2, ListsStay, ListTypes
  <2>4. OnlyMoves(t) /\ pc[t] # "write"
    BY <1>20, Moved DEF ReadAnswer
  <2>. QED
    BY <2>1, <2>3, <2>4, FreshStep, NoneIsNothing
<1>21. ASSUME NEW t \in Threads, CopyAnswer(t)
       PROVE  ListsSound' /\ GraphsFresh'
  <2>1. head' = head /\ next' = next /\ state' = state /\ dev' = dev
    BY <1>21 DEF CopyAnswer, lists, elems
  <2>2. \A c \in Devices : devState[c] = "OPENED" => devState'[c] = "OPENED"
    BY <1>21 DEF CopyAnswer, TypeOK
  <2>3. ListsSound'
    BY <2>1, <2>2, ListsStay, ListTypes
  <2>4. OnlyMoves(t) /\ pc[t] # "write"
    BY <1>21, Moved DEF CopyAnswer
  <2>. QED
    BY <2>1, <2>3, <2>4, FreshStep, NoneIsNothing
<1>22. ASSUME NEW t \in Threads, sendGraphMonitorRequest(t)
       PROVE  ListsSound' /\ GraphsFresh'
  <2>1. head' = head /\ next' = next /\ state' = state /\ dev' = dev
    BY <1>22 DEF sendGraphMonitorRequest, lists, elems
  <2>2. devState' = devState
    BY <1>22 DEF sendGraphMonitorRequest, handles
  <2>3. ListsSound'
    BY <2>1, <2>2, ListsStay, ListTypes
  <2>4. OnlyMoves(t) /\ pc[t] # "write"
    BY <1>22, Moved DEF sendGraphMonitorRequest
  <2>. QED
    BY <2>1, <2>3, <2>4, FreshStep, NoneIsNothing
<1>23. ASSUME NEW t \in Threads, GraphAllocated(t)
       PROVE  ListsSound' /\ GraphsFresh'
  <2>1. head' = head /\ next' = next /\ state' = state /\ dev' = dev
    BY <1>23 DEF GraphAllocated, lists, elems
  <2>2. devState' = devState
    BY <1>23 DEF GraphAllocated, handles, Response
  <2>3. ListsSound'
    BY <2>1, <2>2, ListsStay, ListTypes
  <2>4. OnlyMoves(t) /\ pc[t] # "write"
    BY <1>23, Moved DEF GraphAllocated, Response, At
  <2>. QED
    BY <2>1, <2>3, <2>4, FreshStep, NoneIsNothing
<1>24. ASSUME NEW t \in Threads, GraphUnsupported(t)
       PROVE  ListsSound' /\ GraphsFresh'
  <2>1. head' = head /\ next' = next /\ state' = state /\ dev' = dev
    BY <1>24 DEF GraphUnsupported, lists, elems
  <2>2. devState' = devState
    BY <1>24 DEF GraphUnsupported, handles, Response
  <2>3. ListsSound'
    BY <2>1, <2>2, ListsStay, ListTypes
  <2>4. OnlyMoves(t) /\ pc[t] # "write"
    BY <1>24, Moved DEF GraphUnsupported, Response, At
  <2>. QED
    BY <2>1, <2>3, <2>4, FreshStep, NoneIsNothing
<1>25. ASSUME NEW t \in Threads, LinkGraph(t)
       PROVE  ListsSound' /\ GraphsFresh'
  <2>1. /\ pc[t] = "link" /\ arg[t].op = "graphAllocate"
        /\ OnlyMoves(t) /\ pc'[t] = "write" /\ arg'[t] = arg[t]
    BY <1>25, Moved DEF LinkGraph, CallsFit, Fits
  <2>2. PICK g \in Graphs, d \in Devices, L \in Lists : g = arg[t].e /\ d = arg[t].d /\ L = List(d, g)
    BY <2>1, ElementCall DEF CallsFit, Fits
  <2>3. /\ state' = state /\ head' = head /\ dev' = [dev EXCEPT ![g] = d] /\ devState' = devState
        /\ next' = IF head[L] # None THEN [next EXCEPT ![g] = head[L]] ELSE next
    BY <1>25, <2>2 DEF LinkGraph, handles
  <2>4. g \in Elements /\ state[g] = "CREATED" /\ ~Listed(g)
    BY <2>1, <2>2, NotListed, NoneIsNothing DEF CallsOnElements, OnElement, ListsSound
  <2>5. PICK x \in Elements \cup {None} : next' = [next EXCEPT ![g] = x]
    <3>1. next = [next EXCEPT ![g] = next[g]] /\ next[g] \in Elements \cup {None} /\ head[L] \in Elements \cup {None}
      BY <2>4, ListTypes DEF TypeOK
    <3>. QED
      BY <2>3, <3>1
  <2>6. ListsStraight' /\ \A l \in Lists : InList(l)' = InList(l)
    BY <2>3, <2>4, <2>5, NextOutside DEF ListsSound
  <2>7. \A y \in Elements \ {g} : dev'[y] = dev[y] /\ next'[y] = next[y]
    BY <2>3, <2>5 DEF TypeOK
  <2>8. ListsSound'
    BY <2>3, <2>4, <2>6, <2>7, OutsideChanges
  <2>9. GraphsFresh'
    BY <2>1, <2>2, <2>3, <2>7, FreshStep, NoneIsNothing
  <2>. QED
    BY <2>8, <2>9
<1>26. ASSUME NEW t \in Threads, WriteHead(t)
       PROVE  ListsSound' /\ GraphsFresh'
  <2>1. pc[t] = "write" /\ OnElement(t) /\ OnOpenDevice(t)
    BY <1>26 DEF WriteHead, CallsOnElements, DevicesOpen
  <2>2. PICK e \in Elements, d \in Devices, L \in Lists : e = arg[t].e /\ d = arg[t].d /\ L = List(d, e)
    BY <2>1, ElementCall
  <2>3. /\ OnlyMoves(t) /\ pc'[t] # "write" /\ dev' = dev /\ devState' = devState
        /\ state' = IF e \in Graphs THEN [state EXCEPT ![e] = "ALLOCATED"] ELSE state
    BY <1>26, <2>2, Moved DEF WriteHead, handles
  <2>4. /\ ListsStraight' /\ InList(L)' = InList(L) \cup {e} /\ next' = next
        /\ \A l \in Lists \ {L} : InList(l)' = InList(l)
    BY <1>26, <2>1, <2>2, HeadWritten DEF ListsSound
  <2>5. /\ dev[e] = d /\ devState[d] = "OPENED" /\ L[1] = d
        /\ IF e \in Graphs THEN state'[e] = "ALLOCATED" ELSE e \in Fifos /\ state'[e] = "CREATED"
        /\ \A x \in Elements \ {e} : state'[x] = state[x]
    <3>1. dev[e] = d /\ devState[d] = "OPENED" /\ L[1] = d
      BY <2>1, <2>2, ElementCall DEF OnElement, OnOpenDevice
    <3>2. e \notin Graphs => e \in Fifos /\ state[e] = "CREATED"
      BY <2>1, <2>2 DEF OnElement, CallsFit, Fits
    <3>. QED
      BY <2>3, <3>1, <3>2 DEF TypeOK
  <2>6. ListsHold'
    <3> SUFFICES ASSUME NEW l \in Lists, NEW x \in InList(l)'
                 PROVE  InPlace(l, x)'
      BY DEF ListsHold
    <3>1. CASE l = L /\ x = e
      BY <2>2, <2>3, <2>5, <3>1 DEF InPlace, List
    <3>2. CASE ~(l = L /\ x = e)
      <4>1. x \in InList(l)
        BY <2>4, <3>2
      <4>2. InPlace(l, x) /\ x \in Elements /\ x # e
        BY <2>1, <2>2, <4>1, ListTypes DEF ListsSound, ListsHold, OnElement, Listed
      <4>. QED
        BY <2>3, <2>5, <4>2 DEF InPlace
    <3>. QED
      BY <3>1, <3>2
  <2>7. AllocatedListed'
    <3> SUFFICES ASSUME NEW x \in Elements, state'[x] = "ALLOCATED"
                 PROVE  dev'[x] \in Devices /\ x \in Reached(head'[List(dev'[x], x)], next')
      BY DEF AllocatedListed, InList
    <3>1. CASE x = e
      <4>1. e \in InList(L)' /\ dev'[x] = d
        BY <2>3, <2>4, <2>5, <3>1
      <4>. QED
        BY <2>2, <3>1, <4>1 DEF InList
    <3>2. CASE x # e
      <4>1. dev'[x] = dev[x] /\ dev[x] \in Devices /\ x \in InList(List(dev[x], x))
        BY <2>3, <2>5, <3>2 DEF ListsSound, AllocatedListed
      <4>2. PICK l \in Lists : l = List(dev[x], x)
        BY <4>1, ListNames
      <4>3. x \in InList(l)'
        BY <2>4, <4>1, <4>2
      <4>. QED
        BY <4>1, <4>2, <4>3 DEF InList
    <3>. QED
      BY <3>1, <3>2
  <2>8. GraphsFresh'
    BY <2>1, <2>2, <2>3, <2>4, <2>5, FreshStep, NoneIsNothing
  <2>. QED
    BY <2>4, <2>6, <2>7, <2>8 DEF ListsSound
<1>27. ASSUME NEW t \in Threads, OpenFifoStream(t)
       PROVE  ListsSound' /\ GraphsFresh'
  <2>1. head' = head /\ next' = next /\ state' = state /\ dev' = dev
    BY <1>27 DEF OpenFifoStream, lists, elems
  <2>2. devState' = devState
    BY <1>27 DEF OpenFifoStream, handles
  <2>3. ListsSound'
    BY <2>1, <2>2, ListsStay, ListTypes
  <2>4. OnlyMoves(t) /\ pc[t] # "write"
    BY <1>27, Moved DEF OpenFifoStream
  <2>. QED
    BY <2>1, <2>3, <2>4, FreshStep, NoneIsNothing
<1>28. ASSUME NEW t \in Threads, FifoAllocated(t)
       PROVE  ListsSound' /\ GraphsFresh'
  <2>1. pc[t] = "response" /\ arg[t].op = "fifoAllocate" /\ OnElement(t)
    BY <1>28 DEF FifoAllocated, Response, At, CallsOnElements
  <2>2. PICK e \in Elements, d \in Devices, L \in Lists : e = arg[t].e /\ d = arg[t].d /\ L = List(d, e)
    BY <2>1, ElementCall
  <2>3. /\ OnlyMoves(t) /\ head' = head /\ next' = next /\ dev' = dev /\ devState' = devState
        /\ state' = [state EXCEPT ![e] = "ALLOCATED"] \/ state' = state
    BY <1>28, <2>2, Moved DEF FifoAllocated, Response, lists, handles
  <2>4. e \in Fifos /\ e \notin Graphs /\ dev[e] = d /\ e \in InList(L)
    BY <2>1, <2>2, NcDeviceAssumption DEF OnElement
  <2>5. \A x \in Elements : state'[x] = state[x] \/ (x = e /\ state'[x] = "ALLOCATED")
    BY <2>3 DEF TypeOK
  <2>6. ListsStraight' /\ ListsHold'
    <3>1. \A l \in Lists : InList(l)' = InList(l) /\ InList(l) \in SUBSET Elements
      BY <2>3, ListTypes DEF InList
    <3>. QED
      BY <2>3, <2>5, <3>1 DEF ListsSound, ListsStraight, ListsHold, InPlace
  <2>7. AllocatedListed'
    BY <2>2, <2>3, <2>4, <2>5 DEF ListsSound, AllocatedListed, InList
  <2>8. GraphsFresh'
    BY <2>1, <2>3, <2>4, <2>5, FreshStep, NoneIsNothing
  <2>. QED
    BY <2>6, <2>7, <2>8 DEF ListsSound
<1>29. ASSUME NEW t \in Threads, GraphDeallocated(t)
       PROVE  ListsSound' /\ GraphsFresh'
  <2>1. head' = head /\ next' = next /\ state' = state /\ dev' = dev
    BY <1>29 DEF GraphDeallocated, lists, elems
  <2>2. devState' = devState
    BY <1>29 DEF GraphDeallocated, handles, Response
  <2>3. ListsSound'
    BY <2>1, <2>2, ListsStay, ListTypes
  <2>4. OnlyMoves(t) /\ pc[t] # "write"
    BY <1>29, Moved DEF GraphDeallocated, Response, At
  <2>. QED
    BY <2>1, <2>3, <2>4, FreshStep, NoneIsNothing
<1>30. ASSUME NEW t \in Threads, FifoDeallocated(t)
       PROVE  ListsSound' /\ GraphsFresh'
  <2>1. head' = head /\ next' = next /\ state' = state /\ dev' = dev
    BY <1>30 DEF FifoDeallocated, lists, elems
  <2>2. devState' = devState
    BY <1>30 DEF FifoDeallocated, handles, Response
  <2>3. ListsSound'
    BY <2>1, <2>2, ListsStay, ListTypes
  <2>4. OnlyMoves(t) /\ pc[t] # "write"
    BY <1>30, Moved DEF FifoDeallocated, Response, At
  <2>. QED
    BY <2>1, <2>3, <2>4, FreshStep, NoneIsNothing
<1>31. ASSUME NEW t \in Threads, GraphOption(t)
       PROVE  ListsSound' /\ GraphsFresh'
  <2>1. head' = head /\ next' = next /\ state' = state /\ dev' = dev
    BY <1>31 DEF GraphOption, lists, elems
  <2>2. devState' = devState
    BY <1>31 DEF GraphOption, handles
  <2>3. ListsSound'
    BY <2>1, <2>2, ListsStay, ListTypes
  <2>4. OnlyMoves(t) /\ pc[t] # "write"
    BY <1>31, Moved DEF GraphOption, At
  <2>. QED
    BY <2>1, <2>3, <2>4, FreshStep, NoneIsNothing
<1>32. ASSUME NEW t \in Threads, Deallocate(t)
       PROVE  ListsSound' /\ GraphsFresh'
  <2>1. pc[t] = "unlink" /\ OnElement(t)
    BY <1>32 DEF Deallocate, CallsOnElements
  <2>2. PICK e \in Elements, d \in Devices, L \in Lists : e = arg[t].e /\ d = arg[t].d /\ L = List(d, e)
    BY <2>1, ElementCall
  <2>3. /\ OnlyMoves(t) /\ devState' = devState
        /\ state' = [state EXCEPT ![e] = "none"] /\ dev' = [dev EXCEPT ![e] = None]
    BY <1>32, <2>2, Moved DEF Deallocate, handles
  <2>4. /\ ListsStraight' /\ \A l \in Lists : InList(l)' = InList(l) \ {e}
        /\ \A p \in Elements : next'[p] # next[p] => p \in InList(L)
    BY <1>32, <2>1, <2>2, Unlinked
  <2>5. state'[e] = "none" /\ \A x \in Elements \ {e} : state'[x] = state[x] /\ dev'[x] = dev[x]
    BY <2>3 DEF TypeOK
  <2>6. ListsHold'
    <3> SUFFICES ASSUME NEW l \in Lists, NEW x \in InList(l)'
                 PROVE  InPlace(l, x)'
      BY DEF ListsHold
    <3>1. x \in InList(l) /\ x \in Elements \ {e}
      BY <2>4, ListTypes
    <3>. QED
      BY <2>3, <2>5, <3>1 DEF ListsSound, ListsHold, InPlace
  <2>7. AllocatedListed'
    <3> SUFFICES ASSUME NEW x \in Elements, state'[x] = "ALLOCATED"
                 PROVE  dev'[x] \in Devices /\ x \in Reached(head'[List(dev'[x], x)], next')
      BY DEF AllocatedListed, InList
    <3>1. x # e /\ dev'[x] = dev[x] /\ dev[x] \in Devices /\ x \in InList(List(dev[x], x))
      BY <2>5 DEF ListsSound, AllocatedListed
    <3>2. PICK l \in Lists : l = List(dev[x], x)
      BY <3>1, ListNames
    <3>3. x \in InList(l)'
      BY <2>4, <3>1, <3>2
    <3>. QED
      BY <3>1, <3>2, <3>3 DEF InList
  <2>8. GraphsFresh'
    <3>1. \A g \in Graphs : state[g] = "CREATED" => g \notin InList(L)
      BY NotListed DEF ListsSound, Listed
    <3>. QED
      BY <2>1, <2>3, <2>4, <2>5, <3>1, FreshStep, NoneIsNothing
  <2>. QED
    BY <2>4, <2>6, <2>7, <2>8 DEF ListsSound
<1>33. ASSUME NEW d \in Devices, Boots(d)
       PROVE  ListsSound' /\ GraphsFresh'
  BY <1>33, ListsStay DEF Boots, threads, lists, elems, GraphsFresh
<1>34. ASSUME NEW d \in Devices, ReEnumerates(d)
       PROVE  ListsSound' /\ GraphsFresh'
  BY <1>34, ListsStay DEF ReEnumerates, threads, lists, elems, GraphsFresh
<1>35. ASSUME NEW d \in Devices, MonitorExecutes(d)
       PROVE  ListsSound' /\ GraphsFresh'
  BY <1>35, ListsStay DEF MonitorExecutes, threads, lists, elems, GraphsFresh, handles
<1>36. ASSUME NEW d \in Devices, MonitorAnswers(d)
       PROVE  ListsSound' /\ GraphsFresh'
  BY <1>36, ListsStay DEF MonitorAnswers, threads, lists, elems, GraphsFresh, handles
<1>. QED
  BY <1>1, <1>2, <1>3, <1>4, <1>5, <1>6, <1>7, <1>8, <1>9, <1>10, <1>11, <1>12, <1>13,
     <1>14, <1>15, <1>16, <1>17, <1>18, <1>19, <1>20, <1>21, <1>22, <1>23, <1>24, <1>25,
     <1>26, <1>27, <1>28, <1>29, <1>30, <1>31, <1>32, <1>33, <1>34, <1>35, <1>36
     DEF Next, Begin, Step, Device

\* A call finds its element as it was when the step of another does not touch it,
LEMMA OtherCall ==
    ASSUME TypeOK, CallsFit, NEW t \in Threads, OnlyMoves(t), NEW q \in Threads \ {t}, OnElement(q),
           NEW x, x = arg[q].e,
           arg[q].op \in MonitorOps =>
               /\ state'[x] = state[x] /\ dev'[x] = dev[x]
               /\ \A l \in Lists : x \in InList(l)' <=> x \in InList(l)
               /\ pc[q] = "write" => /\ head'[List(arg[q].d, x)] = head[List(arg[q].d, x)]
                                     /\ next'[x] = next[x]
    PROVE  OnElement(q)'
<1>1. pc'[q] = pc[q] /\ arg'[q] = arg[q]
  BY DEF OnlyMoves
<1>2. CASE arg[q].op \notin MonitorOps
  BY <1>1, <1>2 DEF OnElement, CallsFit, Fits, MonitorOps
<1>3. CASE arg[q].op \in MonitorOps
  <2>1. PICK d \in Devices, L \in Lists : d = arg[q].d /\ L = List(d, x)
    <3>1. pc[q] # "idle"
      BY <1>3, Idle DEF MonitorOps
    <3>. QED
      BY <3>1, InCall, ListNames
  <2>2. Listed(x)' <=> Listed(x)
    BY <1>3 DEF Listed
  <2>3. InList(List(d, x))' = InList(L)'
    BY <2>1 DEF List, InList
  <2>. QED
    BY <1>1, <1>3, <2>1, <2>2, <2>3 DEF OnElement, InList
<1>. QED
  BY <1>2, <1>3

\* and when the step changes no list at all.
LEMMA OtherCallsStay ==
    ASSUME TypeOK, CallsFit, CallsOnElements, NEW t \in Threads, OnlyMoves(t),
           head' = head, next' = next, state' = state, dev' = dev
    PROVE  \A q \in Threads \ {t} : OnElement(q)'
<1> SUFFICES ASSUME NEW q \in Threads \ {t}
             PROVE  OnElement(q)'
  OBVIOUS
<1>1. PICK x : x = arg[q].e
  OBVIOUS
<1>2. \A l \in Lists : InList(l)' = InList(l)
  BY DEF InList
<1>. QED
  BY <1>1, <1>2, OtherCall DEF CallsOnElements

\* A call that goes on, without touching a list, keeps its element.
LEMMA CallGoesOn ==
    ASSUME NEW t \in Threads, OnElement(t), head' = head, next' = next, state' = state, dev' = dev,
           arg'[t] = arg[t], pc[t] # "write", pc'[t] \notin {"write", "stream"},
           pc'[t] = "unlink" => arg[t].op \in {"graphDestroy", "fifoDestroy"}
    PROVE  OnElement(t)'
  BY DEF OnElement, InList

\* A thread without a call has no element.
LEMMA NoElement ==
    ASSUME NEW t \in Threads, arg'[t] = NoCall, pc'[t] = "idle"
    PROVE  OnElement(t)'
  BY DEF OnElement, NoCall, MonitorOps

\* An element that nobody uses is in no call, and the element of a call in no other.
LEMMA Alone ==
    ASSUME Owned
    PROVE  /\ \A e : Unused(e) => \A q \in Threads : arg[q].e # e
           /\ \A t, q \in Threads : t # q /\ arg[t].e # None => arg[q].e # arg[t].e
  BY DEF Owned, Unused

\* Calls of two threads are on elements of different kinds, and so of different lists.
LEMMA OtherList ==
    ASSUME Owned, Careful, NEW t \in Threads, NEW q \in Threads \ {t},
           arg[t].e \in Elements, arg[q].e \in Elements
    PROVE  List(arg[t].d, arg[t].e) # List(arg[q].d, arg[q].e)
<1>1. arg[t].e \in Uses[t] /\ arg[q].e \in Uses[q]
  BY NoneIsNothing DEF Owned
<1>2. arg[t].e \in Graphs <=> arg[q].e \notin Graphs
  BY <1>1 DEF Careful, OneThreadEach, Elements
<1>. QED
  BY <1>2 DEF List

\* Every step keeps the elements of calls as the calls have found or made them.
LEMMA CallsStep ==
    ASSUME CallsServed, DevicesOpen, ListsSound, GraphsFresh, CallsOnElements, Owned, Careful, Next
    PROVE  CallsOnElements'
<1>1. ASSUME NEW t \in Threads, NEW d \in Devices, ncDeviceCreate(t, d)
       PROVE  CallsOnElements'
  <2>1. head' = head /\ next' = next /\ state' = state /\ dev' = dev
    BY <1>1 DEF ncDeviceCreate, lists, elems
  <2>2. OnlyMoves(t) /\ pc'[t] = "idle" /\ arg'[t] = NoCall
    BY <1>1, Moved, Idle DEF ncDeviceCreate, threads, Quiet, CallsServed
  <2>3. OnElement(t)'
    BY <2>2, NoElement
  <2>. QED
    BY <2>1, <2>2, <2>3, OtherCallsStay DEF CallsOnElements, CallsServed
<1>2. ASSUME NEW t \in Threads, NEW d \in Devices, ncDeviceOpen(t, d)
       PROVE  CallsOnElements'
  <2>1. head' = head /\ next' = next /\ state' = state /\ dev' = dev
    BY <1>2 DEF ncDeviceOpen, lists, elems
  <2>2. /\ OnlyMoves(t)
        /\ \/ pc'[t] = "idle" /\ arg'[t] = NoCall
           \/ pc'[t] = "connect" /\ arg'[t].op = "deviceOpen"
    BY <1>2, Moved, CallMoves, Idle DEF ncDeviceOpen, threads, Quiet, CallsServed
  <2>3. OnElement(t)'
    BY <2>2, NoElement DEF OnElement, MonitorOps
  <2>. QED
    BY <2>1, <2>2, <2>3, OtherCallsStay DEF CallsOnElements, CallsServed
<1>3. ASSUME NEW t \in Threads, NEW d \in Devices, ncDeviceDestroy(t, d)
       PROVE  CallsOnElements'
  <2>1. head' = head /\ next' = next /\ state' = state /\ dev' = dev
    BY <1>3 DEF ncDeviceDestroy, lists, elems
  <2>2. OnlyMoves(t) /\ pc'[t] = "free" /\ arg'[t].op = "deviceDestroy"
    BY <1>3, CallMoves DEF ncDeviceDestroy, Quiet, CallsServed
  <2>3. OnElement(t)'
    BY <2>2, NoElement DEF OnElement, MonitorOps
  <2>. QED
    BY <2>1, <2>2, <2>3, OtherCallsStay DEF CallsOnElements, CallsServed
<1>4. ASSUME NEW t \in Threads, NEW d \in Devices, NEW op \in {"deviceClose", "deviceDestroy"}, ncDeviceClose(t, d, op)
       PROVE  CallsOnElements'
  <2>1. head' = head /\ next' = next /\ state' = state /\ dev' = dev
    BY <1>4 DEF ncDeviceClose, lists, elems
  <2>2. OnlyMoves(t) /\ pc'[t] = "close" /\ arg'[t].op = op
    BY <1>4, CallMoves DEF ncDeviceClose, Quiet, CallsServed
  <2>3. OnElement(t)'
    BY <2>2, NoElement DEF OnElement, MonitorOps
  <2>. QED
    BY <2>1, <2>2, <2>3, OtherCallsStay DEF CallsOnElements, CallsServed
<1>5. ASSUME NEW t \in Threads, NEW d \in Devices, ncDeviceGetOption(t, d)
       PROVE  CallsOnElements'
  <2>1. head' = head /\ next' = next /\ state' = state /\ dev' = dev
    BY <1>5 DEF ncDeviceGetOption, lists, elems
  <2>2. OnlyMoves(t) /\ pc'[t] = "check" /\ arg'[t].op = "deviceGetOption"
    BY <1>5, CallMoves DEF ncDeviceGetOption, CallsServed
  <2>3. OnElement(t)'
    BY <2>2, NoElement DEF OnElement, MonitorOps
  <2>. QED
    BY <2>1, <2>2, <2>3, OtherCallsStay DEF CallsOnElements, CallsServed
<1>6. ASSUME NEW t \in Threads, NEW e \in Elements, Create(t, e)
       PROVE  CallsOnElements'
  <2>1. OnlyMoves(t) /\ arg'[t] = NoCall /\ pc'[t] = "idle" /\ \A q \in Threads : arg[q].e # e
    BY <1>6, Moved, Idle, Alone DEF Create, threads, Quiet, CallsServed
  <2>2. /\ state[e] = "none" /\ state' = [state EXCEPT ![e] = "CREATED"] /\ head' = head
        /\ next' = [next EXCEPT ![e] = None] /\ dev' = [dev EXCEPT ![e] = None]
    BY <1>6 DEF Create
  <2>3. \A l \in Lists : InList(l)' = InList(l)
    BY <2>2, NotListed, NextOutside DEF ListsSound, CallsServed
  <2>4. \A x \in Elements \ {e} : state'[x] = state[x] /\ dev'[x] = dev[x] /\ next'[x] = next[x]
    BY <2>2 DEF CallsServed, TypeOK
  <2>5. ASSUME NEW q \in Threads \ {t}
        PROVE  OnElement(q)'
    <3>1. PICK x : x = arg[q].e /\ x # e
      BY <2>1
    <3>2. arg[q].op \in MonitorOps => x \in Elements \ {e}
      BY <3>1 DEF CallsOnElements, OnElement
    <3>. QED
      BY <2>1, <2>2, <2>3, <2>4, <3>1, <3>2, OtherCall DEF CallsServed, CallsOnElements
  <2>. QED
    BY <2>1, <2>5, NoElement DEF CallsOnElements
<1>7. ASSUME NEW t \in Threads, NEW e \in Elements, DestroyCreated(t, e)
       PROVE  CallsOnElements'
  <2>1. OnlyMoves(t) /\ arg'[t] = NoCall /\ pc'[t] = "idle" /\ \A q \in Threads : arg[q].e # e
    BY <1>7, Moved, Idle, Alone DEF DestroyCreated, threads, Quiet, CallsServed
  <2>2. head' = head /\ next' = next /\ dev' = dev /\ state' = [state EXCEPT ![e] = "none"]
    BY <1>7 DEF DestroyCreated, lists
  <2>3. \A l \in Lists : InList(l)' = InList(l)
    BY <2>2 DEF InList
  <2>4. \A x \in Elements \ {e} : state'[x] = state[x] /\ dev'[x] = dev[x] /\ next'[x] = next[x]
    BY <2>2 DEF CallsServed, TypeOK
  <2>5. ASSUME NEW q \in Threads \ {t}
        PROVE  OnElement(q)'
    <3>1. PICK x : x = arg[q].e /\ x # e
      BY <2>1
    <3>2. arg[q].op \in MonitorOps => x \in Elements \ {e}
      BY <3>1 DEF CallsOnElements, OnElement
    <3>. QED
      BY <2>1, <2>2, <2>3, <2>4, <3>1, <3>2, OtherCall DEF CallsServed, CallsOnElements
  <2>. QED
    BY <2>1, <2>5, NoElement DEF CallsOnElements
<1>8. ASSUME NEW t \in Threads, NEW g \in Graphs, ncGraphDestroy(t, g)
       PROVE  CallsOnElements'
  <2>1. head' = head /\ next' = next /\ state' = state /\ dev' = dev
    BY <1>8 DEF ncGraphDestroy, lists, elems
  <2>2. /\ OnlyMoves(t) /\ pc'[t] = "send" /\ arg'[t].op = "graphDestroy" /\ arg'[t].e = g /\ arg'[t].d = dev[g]
        /\ state[g] = "ALLOCATED" /\ g \in Elements
    BY <1>8, CallMoves, NoneIsNothing DEF ncGraphDestroy, Quiet, CallsServed
  <2>3. OnElement(t)'
    BY <2>1, <2>2 DEF OnElement
  <2>. QED
    BY <2>1, <2>2, <2>3, OtherCallsStay DEF CallsOnElements, CallsServed
<1>9. ASSUME NEW t \in Threads, NEW g \in Graphs, ncGraphGetOption(t, g)
       PROVE  CallsOnElements'
  <2>1. head' = head /\ next' = next /\ state' = state /\ dev' = dev
    BY <1>9 DEF ncGraphGetOption, lists, elems
  <2>2. /\ OnlyMoves(t) /\ pc'[t] = "send" /\ arg'[t].op = "graphGetOption" /\ arg'[t].e = g /\ arg'[t].d = dev[g]
        /\ state[g] = "ALLOCATED" /\ g \in Elements
    BY <1>9, CallMoves, NoneIsNothing DEF ncGraphGetOption, Quiet, CallsServed
  <2>3. OnElement(t)'
    BY <2>1, <2>2 DEF OnElement
  <2>. QED
    BY <2>1, <2>2, <2>3, OtherCallsStay DEF CallsOnElements, CallsServed
<1>10. ASSUME NEW t \in Threads, NEW g \in Graphs, NEW d \in Devices, ncGraphAllocate(t, g, d)
       PROVE  CallsOnElements'
  <2>1. head' = head /\ next' = next /\ state' = state /\ dev' = dev
    BY <1>10 DEF ncGraphAllocate, lists, elems
  <2>2. /\ OnlyMoves(t) /\ state[g] = "CREATED" /\ g \in Elements
        /\ \/ pc'[t] = "idle" /\ arg'[t] = NoCall
           \/ pc'[t] = "send" /\ arg'[t].op = "graphAllocate" /\ arg'[t].e = g
    BY <1>10, Moved, CallMoves, Idle, NoneIsNothing DEF ncGraphAllocate, threads, Quiet, CallsServed
  <2>3. OnElement(t)'
    BY <2>1, <2>2, NoElement DEF OnElement
  <2>. QED
    BY <2>1, <2>2, <2>3, OtherCallsStay DEF CallsOnElements, CallsServed
<1>11. ASSUME NEW t \in Threads, NEW f \in Fifos, ncFifoDestroy(t, f)
       PROVE  CallsOnElements'
  <2>1. head' = head /\ next' = next /\ state' = state /\ dev' = dev
    BY <1>11 DEF ncFifoDestroy, lists, elems
  <2>2. /\ OnlyMoves(t) /\ pc'[t] = "send" /\ arg'[t].op = "fifoDestroy" /\ arg'[t].e = f /\ arg'[t].d = dev[f]
        /\ state[f] = "ALLOCATED" /\ f \in Elements
    BY <1>11, CallMoves, NoneIsNothing DEF ncFifoDestroy, Quiet, CallsServed
  <2>3. OnElement(t)'
    BY <2>1, <2>2 DEF OnElement
  <2>. QED
    BY <2>1, <2>2, <2>3, OtherCallsStay DEF CallsOnElements, CallsServed
<1>12. ASSUME NEW t \in Threads, NEW f \in Fifos, NEW d \in Devices, ncFifoAllocate(t, f, d)
       PROVE  CallsOnElements'
  <2>1. /\ OnlyMoves(t) /\ pc'[t] = "write" /\ arg'[t].op = "fifoAllocate" /\ arg'[t].d = d /\ arg'[t].e = f
        /\ ~Listed(f) /\ state[f] = "CREATED" /\ state' = state /\ head' = head
        /\ next' = [next EXCEPT ![f] = head[List(d, f)]] /\ dev' = [dev EXCEPT ![f] = d]
    BY <1>12, CallMoves DEF ncFifoAllocate, CallsServed, Quiet
  <2>2. f \in Elements /\ head[List(d, f)] \in Elements \cup {None} /\ \A q \in Threads : arg[q].e # f
    BY <1>12, ListNames, ListTypes, NoneIsNothing, Alone DEF ncFifoAllocate, CallsServed, Quiet
  <2>3. \A l \in Lists : InList(l)' = InList(l)
    BY <2>1, <2>2, NextOutside DEF ListsSound, CallsServed
  <2>4. /\ dev'[f] = d /\ next'[f] = head[List(d, f)]
        /\ \A x \in Elements \ {f} : dev'[x] = dev[x] /\ next'[x] = next[x]
    BY <2>1, <2>2 DEF CallsServed, TypeOK
  <2>5. ASSUME NEW q \in Threads \ {t}
        PROVE  OnElement(q)'
    <3>1. PICK x : x = arg[q].e /\ x # f
      BY <2>2
    <3>2. arg[q].op \in MonitorOps => x \in Elements \ {f}
      BY <3>1 DEF CallsOnElements, OnElement
    <3>. QED
      BY <2>1, <2>3, <2>4, <3>1, <3>2, OtherCall DEF CallsServed, CallsOnElements
  <2>6. OnElement(t)'
    <3>1. ~Listed(f)'
      BY <2>1, <2>3 DEF Listed
    <3>. QED
      BY <2>1, <2>2, <2>4, <3>1 DEF OnElement, MonitorOps
  <2>. QED
    BY <2>5, <2>6 DEF CallsOnElements
<1>13. ASSUME NEW t \in Threads, XLinkConnect(t)
       PROVE  CallsOnElements'
  <2>1. head' = head /\ next' = next /\ state' = state /\ dev' = dev
    BY <1>13 DEF XLinkConnect, lists, elems
  <2>2. /\ OnlyMoves(t) /\ pc[t] = "connect"
        /\ \/ pc'[t] = "idle" /\ arg'[t] = NoCall
           \/ arg'[t] = arg[t] /\ (pc'[t] \notin {"write", "stream", "unlink"})
    BY <1>13, Moved DEF XLinkConnect, CallsServed
  <2>3. OnElement(t)'
    BY <2>1, <2>2, NoElement, CallGoesOn DEF CallsOnElements
  <2>. QED
    BY <2>1, <2>2, <2>3, OtherCallsStay DEF CallsOnElements, CallsServed
<1>14. ASSUME NEW t \in Threads, ScanBootDevices(t)
       PROVE  CallsOnElements'
  <2>1. head' = head /\ next' = next /\ state' = state /\ dev' = dev
    BY <1>14 DEF ScanBootDevices, lists, elems
  <2>2. /\ OnlyMoves(t) /\ pc[t] = "scan"
        /\ \/ pc'[t] = "idle" /\ arg'[t] = NoCall
           \/ arg'[t] = arg[t] /\ (pc'[t] \notin {"write", "stream", "unlink"})
    BY <1>14, Moved DEF ScanBootDevices, CallsServed
  <2>3. OnElement(t)'
    BY <2>1, <2>2, NoElement, CallGoesOn DEF CallsOnElements
  <2>. QED
    BY <2>1, <2>2, <2>3, OtherCallsStay DEF CallsOnElements, CallsServed
<1>15. ASSUME NEW t \in Threads, OpenDeviceMonitor(t)
       PROVE  CallsOnElements'
  <2>1. head' = head /\ next' = next /\ state' = state /\ dev' = dev
    BY <1>15 DEF OpenDeviceMonitor, lists, elems
  <2>2. /\ OnlyMoves(t) /\ pc[t] = "streams"
        /\ \/ pc'[t] = "idle" /\ arg'[t] = NoCall
           \/ arg'[t] = arg[t] /\ (pc'[t] \notin {"write", "stream", "unlink"})
    BY <1>15, Moved DEF OpenDeviceMonitor, CallsServed
  <2>3. OnElement(t)'
    BY <2>1, <2>2, NoElement, CallGoesOn DEF CallsOnElements
  <2>. QED
    BY <2>1, <2>2, <2>3, OtherCallsStay DEF CallsOnElements, CallsServed
<1>16. ASSUME NEW t \in Threads, DeallocateAll(t)
       PROVE  CallsOnElements'
  <2>0. TypeOK /\ CallsFit /\ Exclusive
    BY DEF CallsServed
  <2>1. /\ pc[t] = "close" /\ OnlyMoves(t) /\ arg[t].op \in {"deviceClose", "deviceDestroy"}
        /\ (pc'[t] = "free" /\ arg'[t] = arg[t]) \/ (pc'[t] = "idle" /\ arg'[t] = NoCall)
    BY <1>16, <2>0, Moved DEF DeallocateAll, CallsFit, Fits
  <2>2. PICK d \in Devices : d = arg[t].d
    BY <2>0, <2>1, InCall
  <2>3. /\ next' = next
        /\ \A l \in Lists : InList(l)' = IF l[1] = d THEN {} ELSE InList(l)
        /\ \A l \in Lists : l[1] # d => head'[l] = head[l]
        /\ \A x \in Elements :
              \/ state'[x] = state[x] /\ dev'[x] = dev[x] /\ \A l \in Lists : l[1] = d => x \notin InList(l)
              \/ dev[x] = d /\ \E l \in Lists : x \in InList(l)
    BY <1>16, <2>0, <2>2, AllDeallocated
  <2>4. ASSUME NEW q \in Threads \ {t}
        PROVE  OnElement(q)'
    <3>1. PICK x : x = arg[q].e
      OBVIOUS
    <3>2. ASSUME arg[q].op \in MonitorOps
          PROVE  /\ state'[x] = state[x] /\ dev'[x] = dev[x]
                 /\ \A l \in Lists : x \in InList(l)' <=> x \in InList(l)
                 /\ pc[q] = "write" => /\ head'[List(arg[q].d, x)] = head[List(arg[q].d, x)]
                                       /\ next'[x] = next[x]
      <4>1. x \in Elements /\ arg[q].d \in Devices /\ arg[q].d # d
        BY <2>0, <2>1, <2>2, <3>1, <3>2, InCall, Idle DEF CallsOnElements, OnElement, MonitorOps, Exclusive, DeviceOps
      <4>2. ~(dev[x] = d /\ \E l \in Lists : x \in InList(l))
        <5>1. CASE arg[q].op = "graphAllocate"
          <6>1. x \in Graphs /\ state[x] = "CREATED"
            BY <2>0, <3>1, <5>1 DEF CallsOnElements, OnElement, CallsFit, Fits
          <6>. QED
            BY <6>1, NotListed DEF Listed, ListsSound
        <5>2. CASE arg[q].op # "graphAllocate"
          BY <3>1, <3>2, <4>1, <5>2 DEF CallsOnElements, OnElement, MonitorOps
        <5>. QED
          BY <5>1, <5>2
      <4>3. state'[x] = state[x] /\ dev'[x] = dev[x] /\ \A l \in Lists : l[1] = d => x \notin InList(l)
        BY <2>3, <4>1, <4>2
      <4>. QED
        BY <2>3, <4>1, <4>3, ListNames
    <3>. QED
      BY <2>0, <2>1, <3>1, <3>2, OtherCall DEF CallsOnElements
  <2>5. OnElement(t)'
    BY <2>1, NoElement DEF OnElement, MonitorOps
  <2>. QED
    BY <2>4, <2>5 DEF CallsOnElements
<1>17. ASSUME NEW t \in Threads, FreeDevice(t)
       PROVE  CallsOnElements'
  <2>1. head' = head /\ next' = next /\ state' = state /\ dev' = dev
    BY <1>17 DEF FreeDevice, lists, elems
  <2>2. /\ OnlyMoves(t) /\ pc[t] = "free"
        /\ \/ pc'[t] = "idle" /\ arg'[t] = NoCall
           \/ arg'[t] = arg[t] /\ (pc'[t] \notin {"write", "stream", "unlink"})
    BY <1>17, Moved DEF FreeDevice, CallsServed
  <2>3. OnElement(t)'
    BY <2>1, <2>2, NoElement, CallGoesOn DEF CallsOnElements
  <2>. QED
    BY <2>1, <2>2, <2>3, OtherCallsStay DEF CallsOnElements, CallsServed
<1>18. ASSUME NEW t \in Threads, CheckDevice(t)
       PROVE  CallsOnElements'
  <2>1. head' = head /\ next' = next /\ state' = state /\ dev' = dev
    BY <1>18 DEF CheckDevice, lists, elems
  <2>2. /\ OnlyMoves(t) /\ pc[t] = "check"
        /\ \/ pc'[t] = "idle" /\ arg'[t] = NoCall
           \/ arg'[t] = arg[t] /\ (pc'[t] \notin {"write", "stream", "unlink"})
    BY <1>18, Moved DEF CheckDevice, CallsServed
  <2>3. OnElement(t)'
    BY <2>1, <2>2, NoElement, CallGoesOn DEF CallsOnElements
  <2>. QED
    BY <2>1, <2>2, <2>3, OtherCallsStay DEF CallsOnElements, CallsServed
<1>19. ASSUME NEW t \in Threads, AskDevice(t)
       PROVE  CallsOnElements'
  <2>1. head' = head /\ next' = next /\ state' = state /\ dev' = dev
    BY <1>19 DEF AskDevice, lists, elems
  <2>2. /\ OnlyMoves(t) /\ pc[t] = "ask"
        /\ \/ pc'[t] = "idle" /\ arg'[t] = NoCall
           \/ arg'[t] = arg[t] /\ (pc'[t] \notin {"write", "stream", "unlink"})
    BY <1>19, Moved DEF AskDevice, CallsServed
  <2>3. OnElement(t)'
    BY <2>1, <2>2, NoElement, CallGoesOn DEF CallsOnElements
  <2>. QED
    BY <2>1, <2>2, <2>3, OtherCallsStay DEF CallsOnElements, CallsServed
<1>20. ASSUME NEW t \in Threads, ReadAnswer(t)
       PROVE  CallsOnElements'
  <2>1. head' = head /\ next' = next /\ state' = state /\ dev' = dev
    BY <1>20 DEF ReadAnswer, lists, elems
  <2>2. /\ OnlyMoves(t) /\ pc[t] = "answer"
        /\ \/ pc'[t] = "idle" /\ arg'[t] = NoCall
           \/ arg'[t] = arg[t] /\ (pc'[t] \notin {"write", "stream", "unlink"})
    BY <1>20, Moved DEF ReadAnswer, CallsServed
  <2>3. OnElement(t)'
    BY <2>1, <2>2, NoElement, CallGoesOn DEF CallsOnElements
  <2>. QED
    BY <2>1, <2>2, <2>3, OtherCallsStay DEF CallsOnElements, CallsServed
<1>21. ASSUME NEW t \in Threads, CopyAnswer(t)
       PROVE  CallsOnElements'
  <2>1. head' = head /\ next' = next /\ state' = state /\ dev' = dev
    BY <1>21 DEF CopyAnswer, lists, elems
  <2>2. /\ OnlyMoves(t) /\ pc[t] = "copy"
        /\ \/ pc'[t] = "idle" /\ arg'[t] = NoCall
           \/ arg'[t] = arg[t] /\ (pc'[t] \notin {"write", "stream", "unlink"})
    BY <1>21, Moved DEF CopyAnswer, CallsServed
  <2>3. OnElement(t)'
    BY <2>1, <2>2, NoElement, CallGoesOn DEF CallsOnElements
  <2>. QED
    BY <2>1, <2>2, <2>3, OtherCallsStay DEF CallsOnElements, CallsServed
<1>22. ASSUME NEW t \in Threads, sendGraphMonitorRequest(t)
       PROVE  CallsOnElements'
  <2>1. head' = head /\ next' = next /\ state' = state /\ dev' = dev
    BY <1>22 DEF sendGraphMonitorRequest, lists, elems
  <2>2. /\ OnlyMoves(t) /\ pc[t] = "send"
        /\ \/ pc'[t] = "idle" /\ arg'[t] = NoCall
           \/ arg'[t] = arg[t] /\ (pc'[t] \notin {"write", "stream", "unlink"})
    BY <1>22, Moved DEF sendGraphMonitorRequest, CallsServed
  <2>3. OnElement(t)'
    BY <2>1, <2>2, NoElement, CallGoesOn DEF CallsOnElements
  <2>. QED
    BY <2>1, <2>2, <2>3, OtherCallsStay DEF CallsOnElements, CallsServed
<1>23. ASSUME NEW t \in Threads, GraphAllocated(t)
       PROVE  CallsOnElements'
  <2>1. head' = head /\ next' = next /\ state' = state /\ dev' = dev
    BY <1>23 DEF GraphAllocated, lists, elems
  <2>2. /\ OnlyMoves(t) /\ pc[t] = "response"
        /\ \/ pc'[t] = "idle" /\ arg'[t] = NoCall
           \/ arg'[t] = arg[t] /\ (pc'[t] \notin {"write", "stream", "unlink"})
    BY <1>23, Moved DEF GraphAllocated, CallsServed, Response, At
  <2>3. OnElement(t)'
    BY <2>1, <2>2, NoElement, CallGoesOn DEF CallsOnElements
  <2>. QED
    BY <2>1, <2>2, <2>3, OtherCallsStay DEF CallsOnElements, CallsServed
<1>24. ASSUME NEW t \in Threads, GraphUnsupported(t)
       PROVE  CallsOnElements'
  <2>1. head' = head /\ next' = next /\ state' = state /\ dev' = dev
    BY <1>24 DEF GraphUnsupported, lists, elems
  <2>2. /\ OnlyMoves(t) /\ pc[t] = "response"
        /\ \/ pc'[t] = "idle" /\ arg'[t] = NoCall
           \/ arg'[t] = arg[t] /\ (pc'[t] \notin {"write", "stream", "unlink"})
    BY <1>24, Moved DEF GraphUnsupported, CallsServed, Response, At
  <2>3. OnElement(t)'
    BY <2>1, <2>2, NoElement, CallGoesOn DEF CallsOnElements
  <2>. QED
    BY <2>1, <2>2, <2>3, OtherCallsStay DEF CallsOnElements, CallsServed
<1>25. ASSUME NEW t \in Threads, LinkGraph(t)
       PROVE  CallsOnElements'
  <2>0. TypeOK /\ CallsFit
    BY DEF CallsServed
  <2>1. /\ pc[t] = "link" /\ arg[t].op = "graphAllocate" /\ OnElement(t)
        /\ OnlyMoves(t) /\ pc'[t] = "write" /\ arg'[t] = arg[t]
    BY <1>25, <2>0, Moved DEF LinkGraph, CallsFit, Fits, CallsOnElements
  <2>2. PICK e \in Elements, d \in Devices, L \in Lists : e = arg[t].e /\ e \in Graphs /\ d = arg[t].d /\ L = List(d, e)
    BY <2>0, <2>1, ElementCall DEF CallsFit, Fits
  <2>3. /\ state' = state /\ head' = head /\ dev' = [dev EXCEPT ![e] = d]
        /\ next' = IF head[L] # None THEN [next EXCEPT ![e] = head[L]] ELSE next
    BY <1>25, <2>2 DEF LinkGraph
  <2>4. state[e] = "CREATED" /\ ~Listed(e)
    BY <2>1, <2>2, NotListed DEF OnElement, ListsSound
  <2>5. next[e] = None
    BY <2>1, <2>2, <2>4, NoneIsNothing DEF GraphsFresh, Owned
  <2>6. next' = [next EXCEPT ![e] = head[L]] /\ head[L] \in Elements \cup {None}
    BY <2>0, <2>3, <2>5, ListTypes DEF TypeOK
  <2>7. \A l \in Lists : InList(l)' = InList(l)
    BY <2>0, <2>3, <2>4, <2>6, NextOutside DEF ListsSound
  <2>8. /\ dev'[e] = d /\ next'[e] = head[L]
        /\ \A y \in Elements \ {e} : dev'[y] = dev[y] /\ next'[y] = next[y]
    BY <2>0, <2>3, <2>6 DEF TypeOK
  <2>9. ASSUME NEW q \in Threads \ {t}
        PROVE  OnElement(q)'
    <3>1. PICK x : x = arg[q].e
      OBVIOUS
    <3>2. arg[q].op \in MonitorOps => x \in Elements \ {e}
      BY <2>0, <2>2, <3>1, Alone, NoneIsNothing DEF CallsOnElements, OnElement
    <3>. QED
      BY <2>0, <2>1, <2>3, <2>7, <2>8, <3>1, <3>2, OtherCall DEF CallsOnElements
  <2>10. OnElement(t)'
    <3>1. ~Listed(e)'
      BY <2>4, <2>7 DEF Listed
    <3>. QED
      BY <2>1, <2>2, <2>3, <2>4, <2>8, <3>1 DEF OnElement
  <2>. QED
    BY <2>9, <2>10 DEF CallsOnElements
<1>26. ASSUME NEW t \in Threads, WriteHead(t)
       PROVE  CallsOnElements'
  <2>0. TypeOK /\ CallsFit
    BY DEF CallsServed
  <2>1. /\ pc[t] = "write" /\ OnElement(t) /\ OnlyMoves(t)
    BY <1>26, <2>0, Moved DEF WriteHead, CallsOnElements
  <2>2. PICK e \in Elements, d \in Devices, L \in Lists : e = arg[t].e /\ d = arg[t].d /\ L = List(d, e)
    BY <2>0, <2>1, ElementCall
  <2>3. /\ dev' = dev
        /\ \/ e \in Graphs /\ state' = [state EXCEPT ![e] = "ALLOCATED"] /\ arg'[t] = NoCall /\ pc'[t] = "idle"
           \/ e \notin Graphs /\ state' = state /\ arg'[t] = arg[t] /\ pc'[t] = "stream"
    BY <1>26, <2>0, <2>2, Moved DEF WriteHead
  <2>4. /\ InList(L)' = InList(L) \cup {e} /\ next' = next
        /\ \A l \in Lists \ {L} : InList(l)' = InList(l) /\ head'[l] = head[l]
    BY <1>26, <2>0, <2>1, <2>2, HeadWritten DEF ListsSound
  <2>5. \A x \in Elements \ {e} : state'[x] = state[x]
    BY <2>0, <2>3 DEF TypeOK
  <2>6. ASSUME NEW q \in Threads \ {t}
        PROVE  OnElement(q)'
    <3>1. PICK x : x = arg[q].e
      OBVIOUS
    <3>2. arg[q].op \in MonitorOps => x \in Elements \ {e}
      BY <2>0, <2>2, <3>1, Alone, NoneIsNothing DEF CallsOnElements, OnElement
    <3>3. arg[q].op \in MonitorOps => List(arg[q].d, x) \in Lists \ {L}
      <4> SUFFICES ASSUME arg[q].op \in MonitorOps
                   PROVE  List(arg[q].d, x) \in Lists \ {L}
        OBVIOUS
      <4>1. arg[q].d \in Devices /\ x \in Elements
        BY <2>0, <3>2, InCall, Idle DEF MonitorOps
      <4>. QED
        BY <2>2, <3>1, <4>1, OtherList, ListNames
    <3>. QED
      BY <2>0, <2>1, <2>3, <2>4, <2>5, <3>1, <3>2, <3>3, OtherCall DEF CallsOnElements
  <2>7. OnElement(t)'
    <3>1. CASE e \in Graphs
      BY <2>3, <3>1, NoElement
    <3>2. CASE e \notin Graphs
      <4>1. arg'[t] = arg[t] /\ pc'[t] = "stream" /\ state' = state
        BY <2>3, <3>2
      <4>2. arg[t].op = "fifoAllocate"
        BY <2>0, <2>1, <2>2, <3>2 DEF OnElement, CallsFit, Fits
      <4>3. e \in InList(L)' /\ InList(List(d, e))' = InList(L)'
        BY <2>2, <2>4 DEF InList, List
      <4>4. e \in Reached(head'[List(arg[t].d, arg[t].e)], next')
        BY <2>2, <4>3 DEF InList
      <4>5. arg[t].e \in Fifos /\ state[arg[t].e] = "CREATED" /\ dev[arg[t].e] = arg[t].d
        BY <2>1, <4>2 DEF OnElement
      <4>. QED
        BY <2>2, <2>3, <4>1, <4>2, <4>4, <4>5 DEF OnElement, InList
    <3>. QED
      BY <3>1, <3>2
  <2>. QED
    BY <2>6, <2>7 DEF CallsOnElements
<1>27. ASSUME NEW t \in Threads, OpenFifoStream(t)
       PROVE  CallsOnElements'
  <2>1. head' = head /\ next' = next /\ state' = state /\ dev' = dev
    BY <1>27 DEF OpenFifoStream, lists, elems
  <2>2. /\ OnlyMoves(t) /\ pc[t] = "stream"
        /\ \/ pc'[t] = "idle" /\ arg'[t] = NoCall
           \/ arg'[t] = arg[t] /\ (pc'[t] \notin {"write", "stream", "unlink"})
    BY <1>27, Moved DEF OpenFifoStream, CallsServed
  <2>3. OnElement(t)'
    BY <2>1, <2>2, NoElement, CallGoesOn DEF CallsOnElements
  <2>. QED
    BY <2>1, <2>2, <2>3, OtherCallsStay DEF CallsOnElements, CallsServed
<1>28. ASSUME NEW t \in Threads, FifoAllocated(t)
       PROVE  CallsOnElements'
  <2>0. TypeOK /\ CallsFit
    BY DEF CallsServed
  <2>1. /\ pc[t] = "response" /\ OnlyMoves(t) /\ arg'[t] = NoCall /\ pc'[t] = "idle"
    BY <1>28, <2>0, Moved DEF FifoAllocated, Response, At
  <2>2. PICK e \in Elements : e = arg[t].e
    BY <2>0, <2>1, ElementCall
  <2>3. /\ head' = head /\ next' = next /\ dev' = dev
        /\ state' = [state EXCEPT ![e] = "ALLOCATED"] \/ state' = state
    BY <1>28, <2>2 DEF FifoAllocated, lists
  <2>4. /\ \A l \in Lists : InList(l)' = InList(l)
        /\ \A x \in Elements \ {e} : state'[x] = state[x]
    BY <2>0, <2>3 DEF InList, TypeOK
  <2>5. ASSUME NEW q \in Threads \ {t}
        PROVE  OnElement(q)'
    <3>1. PICK x : x = arg[q].e
      OBVIOUS
    <3>2. arg[q].op \in MonitorOps => x \in Elements \ {e}
      BY <2>0, <2>2, <3>1, Alone, NoneIsNothing DEF CallsOnElements, OnElement
    <3>. QED
      BY <2>0, <2>1, <2>3, <2>4, <3>1, <3>2, OtherCall DEF CallsOnElements
  <2>. QED
    BY <2>1, <2>5, NoElement DEF CallsOnElements
<1>29. ASSUME NEW t \in Threads, GraphDeallocated(t)
       PROVE  CallsOnElements'
  <2>1. head' = head /\ next' = next /\ state' = state /\ dev' = dev
    BY <1>29 DEF GraphDeallocated, lists, elems
  <2>2. /\ OnlyMoves(t) /\ pc[t] = "response"
        /\ \/ pc'[t] = "idle" /\ arg'[t] = NoCall
           \/ arg'[t] = arg[t] /\ (pc'[t] \notin {"write", "stream", "unlink"} \/ (pc'[t] = "unlink" /\ arg[t].op = "graphDestroy"))
    BY <1>29, Moved DEF GraphDeallocated, CallsServed, Response, At
  <2>3. OnElement(t)'
    BY <2>1, <2>2, NoElement, CallGoesOn DEF CallsOnElements
  <2>. QED
    BY <2>1, <2>2, <2>3, OtherCallsStay DEF CallsOnElements, CallsServed
<1>30. ASSUME NEW t \in Threads, FifoDeallocated(t)
       PROVE  CallsOnElements'
  <2>1. head' = head /\ next' = next /\ state' = state /\ dev' = dev
    BY <1>30 DEF FifoDeallocated, lists, elems
  <2>2. /\ OnlyMoves(t) /\ pc[t] = "response"
        /\ \/ pc'[t] = "idle" /\ arg'[t] = NoCall
           \/ arg'[t] = arg[t] /\ (pc'[t] \notin {"write", "stream", "unlink"} \/ (pc'[t] = "unlink" /\ arg[t].op = "fifoDestroy"))
    BY <1>30, Moved DEF FifoDeallocated, CallsServed, Response, At
  <2>3. OnElement(t)'
    BY <2>1, <2>2, NoElement, CallGoesOn DEF CallsOnElements
  <2>. QED
    BY <2>1, <2>2, <2>3, OtherCallsStay DEF CallsOnElements, CallsServed
<1>31. ASSUME NEW t \in Threads, GraphOption(t)
       PROVE  CallsOnElements'
  <2>1. head' = head /\ next' = next /\ state' = state /\ dev' = dev
    BY <1>31 DEF GraphOption, lists, elems
  <2>2. /\ OnlyMoves(t) /\ pc[t] = "response"
        /\ \/ pc'[t] = "idle" /\ arg'[t] = NoCall
           \/ arg'[t] = arg[t] /\ (pc'[t] \notin {"write", "stream", "unlink"})
    BY <1>31, Moved DEF GraphOption, CallsServed, At
  <2>3. OnElement(t)'
    BY <2>1, <2>2, NoElement, CallGoesOn DEF CallsOnElements
  <2>. QED
    BY <2>1, <2>2, <2>3, OtherCallsStay DEF CallsOnElements, CallsServed
<1>32. ASSUME NEW t \in Threads, Deallocate(t)
       PROVE  CallsOnElements'
  <2>0. TypeOK /\ CallsFit
    BY DEF CallsServed
  <2>1. /\ pc[t] = "unlink" /\ OnElement(t) /\ OnlyMoves(t) /\ arg'[t] = NoCall /\ pc'[t] = "idle"
    BY <1>32, <2>0, Moved DEF Deallocate, CallsOnElements
  <2>2. PICK e \in Elements, d \in Devices, L \in Lists : e = arg[t].e /\ d = arg[t].d /\ L = List(d, e)
    BY <2>0, <2>1, ElementCall
  <2>3. state' = [state EXCEPT ![e] = "none"] /\ dev' = [dev EXCEPT ![e] = None]
    BY <1>32, <2>2 DEF Deallocate
  <2>4. /\ \A l \in Lists : InList(l)' = InList(l) \ {e}
        /\ \A l \in Lists \ {L} : head'[l] = head[l]
        /\ \A p \in Elements : next'[p] # next[p] => p \in InList(L)
    BY <1>32, <2>0, <2>1, <2>2, Unlinked
  <2>5. \A x \in Elements \ {e} : state'[x] = state[x] /\ dev'[x] = dev[x]
    BY <2>0, <2>3 DEF TypeOK
  <2>6. ASSUME NEW q \in Threads \ {t}
        PROVE  OnElement(q)'
    <3>1. PICK x : x = arg[q].e
      OBVIOUS
    <3>2. arg[q].op \in MonitorOps => x \in Elements \ {e}
      BY <2>0, <2>2, <3>1, Alone, NoneIsNothing DEF CallsOnElements, OnElement
    <3>3. arg[q].op \in MonitorOps => List(arg[q].d, x) \in Lists \ {L}
      <4> SUFFICES ASSUME arg[q].op \in MonitorOps
                   PROVE  List(arg[q].d, x) \in Lists \ {L}
        OBVIOUS
      <4>1. arg[q].d \in Devices /\ x \in Elements
        BY <2>0, <3>2, InCall, Idle DEF MonitorOps
      <4>. QED
        BY <2>2, <3>1, <4>1, OtherList, ListNames
    <3>4. pc[q] = "write" => x \notin InList(L)
      BY <3>1 DEF CallsOnElements, OnElement, Listed
    <3>. QED
      BY <2>0, <2>1, <2>4, <2>5, <3>1, <3>2, <3>3, <3>4, OtherCall DEF CallsOnElements
  <2>. QED
    BY <2>1, <2>6, NoElement DEF CallsOnElements
<1>33. ASSUME NEW d \in Devices, Boots(d)
       PROVE  CallsOnElements'
  BY <1>33 DEF Boots, threads, lists, elems, CallsOnElements, OnElement, Listed, InList
<1>34. ASSUME NEW d \in Devices, ReEnumerates(d)
       PROVE  CallsOnElements'
  BY <1>34 DEF ReEnumerates, threads, lists, elems, CallsOnElements, OnElement, Listed, InList
<1>35. ASSUME NEW d \in Devices, MonitorExecutes(d)
       PROVE  CallsOnElements'
  BY <1>35 DEF MonitorExecutes, threads, lists, elems, CallsOnElements, OnElement, Listed, InList
<1>36. ASSUME NEW d \in Devices, MonitorAnswers(d)
       PROVE  CallsOnElements'
  BY <1>36 DEF MonitorAnswers, threads, lists, elems, CallsOnElements, OnElement, Listed, InList
<1>. QED
  BY <1>1, <1>2, <1>3, <1>4, <1>5, <1>6, <1>7, <1>8, <1>9, <1>10, <1>11, <1>12, <1>13,
     <1>14, <1>15, <1>16, <1>17, <1>18, <1>19, <1>20, <1>21, <1>22, <1>23, <1>24, <1>25,
     <1>26, <1>27, <1>28, <1>29, <1>30, <1>31, <1>32, <1>33, <1>34, <1>35, <1>36
     DEF Next, Begin, Step, Device

\* An allocated element of a device.
AllocatedOn(x, d) == state[x] = "ALLOCATED" /\ dev[x] = d
\* The calls of other threads see the responses that they saw.
OthersAnswered(t) ==
    \A q \in Threads \ {t} : pc[q] = "response" => responses'[arg[q].d] = responses[arg[q].d]

\* The device has an element as before when neither the element nor the call on it
\* has got anywhere else,
LEMMA HasStays ==
    ASSUME NEW t \in Threads, OnlyMoves(t), OthersAnswered(t), NEW x \in Elements, Has(x),
           \A d \in Devices : /\ x \in onDevice'[d] <=> x \in onDevice[d]
                              /\ AllocatedOn(x, d)' <=> AllocatedOn(x, d)
                              /\ arg'[t].e = x /\ arg'[t].d = d /\ Gained(t)'
                                    <=> arg[t].e = x /\ arg[t].d = d /\ Gained(t),
           arg'[t].e = x /\ Lost(t)' <=> arg[t].e = x /\ Lost(t)
    PROVE  Has(x)'
<1>1. \A q \in Threads \ {t} :
         /\ arg'[q] = arg[q] /\ pc'[q] = pc[q]
         /\ Gained(q)' <=> Gained(q)
         /\ Lost(q)' <=> Lost(q)
  <2> SUFFICES ASSUME NEW q \in Threads \ {t}
               PROVE  /\ arg'[q] = arg[q] /\ pc'[q] = pc[q]
                      /\ Gained(q)' <=> Gained(q)
                      /\ Lost(q)' <=> Lost(q)
    OBVIOUS
  <2>1. arg'[q] = arg[q] /\ pc'[q] = pc[q]
    BY DEF OnlyMoves
  <2>2. Answered(q)' <=> Answered(q)
    BY <2>1 DEF Answered, Accepted, OthersAnswered
  <2>. QED
    BY <2>1, <2>2 DEF Gained, Lost
<1>2. \A d \in Devices : (\E q \in Threads : arg'[q].e = x /\ arg'[q].d = d /\ Gained(q)')
                            <=> (\E q \in Threads : arg[q].e = x /\ arg[q].d = d /\ Gained(q))
  BY <1>1
<1>3. (\E q \in Threads : arg'[q].e = x /\ Lost(q)') <=> (\E q \in Threads : arg[q].e = x /\ Lost(q))
  BY <1>1
<1>. QED
  BY <1>2, <1>3 DEF Has, AllocatedOn

\* as it has all of them when this holds of all.
LEMMA AllStay ==
    ASSUME DeviceHas, NEW t \in Threads, OnlyMoves(t), OthersAnswered(t), onDevice' = onDevice,
           \A x \in Elements, d \in Devices : AllocatedOn(x, d)' <=> AllocatedOn(x, d),
           \/ ~Gained(t) /\ ~Lost(t) /\ ~Gained(t)' /\ ~Lost(t)'
           \/ arg'[t] = arg[t] /\ (Gained(t)' <=> Gained(t)) /\ (Lost(t)' <=> Lost(t))
    PROVE  DeviceHas'
<1> SUFFICES ASSUME NEW x \in Elements
             PROVE  Has(x)'
  BY DEF DeviceHas
<1>. QED
  BY HasStays DEF DeviceHas

\* Only a call that waits for a response, or is about to change its list, has gained
\* or lost its element.
LEMMA NotYet ==
    ASSUME NEW t \in Threads
    PROVE  /\ pc[t] \notin {"response", "link", "write", "unlink"} => ~Gained(t) /\ ~Lost(t)
           /\ pc'[t] \notin {"response", "link", "write", "unlink"} => ~Gained(t)' /\ ~Lost(t)'
  BY DEF Gained, Lost, Answered

\* An element that is in no call is on the device it is allocated on.
LEMMA HasUnused ==
    ASSUME NEW x \in Elements, \A q \in Threads : arg'[q].e # x,
           \A d \in Devices : x \in onDevice'[d] <=> AllocatedOn(x, d)'
    PROVE  Has(x)'
  BY DEF Has, AllocatedOn

\* Where the device has the element of a call.
LEMMA HasOwn ==
    ASSUME Owned, DeviceHas, NEW t \in Threads, NEW e \in Elements, e = arg[t].e
    PROVE  \A d \in Devices : e \in onDevice[d] <=> \/ arg[t].d = d /\ Gained(t)
                                                    \/ AllocatedOn(e, d) /\ ~Lost(t)
<1>1. \A q \in Threads : arg[q].e = e => q = t
  BY NoneIsNothing DEF Owned
<1>. QED
  BY <1>1 DEF DeviceHas, Has, AllocatedOn

\* Who takes a response leaves those of other calls.
LEMMA OthersKeep ==
    ASSUME CallsServed, NEW t \in Threads, HasMonitor(t),
           \A d \in Devices \ {arg[t].d} : responses'[d] = responses[d]
    PROVE  OthersAnswered(t)
<1> SUFFICES ASSUME NEW q \in Threads \ {t}, pc[q] = "response"
             PROVE  responses'[arg[q].d] = responses[arg[q].d]
  BY DEF OthersAnswered
<1>1. HasMonitor(q) /\ arg[q].d \in Devices
  BY InCall DEF HasMonitor, CallsServed
<1>2. arg[q].d # arg[t].d
  BY <1>1, ServedCall DEF CallsServed
<1>. QED
  BY <1>1, <1>2

\* Every step keeps what the device has in line with what is allocated and what the
\* calls on it have gained and lost.
LEMMA HasStep ==
    ASSUME CallsServed, DevicesOpen, ListsSound, GraphsFresh, CallsOnElements, Owned, Owned', DeviceHas, Careful, Next
    PROVE  DeviceHas'
<1>1. ASSUME NEW t \in Threads, NEW d \in Devices, ncDeviceCreate(t, d)
       PROVE  DeviceHas'
  <2>1. /\ OnlyMoves(t) /\ pc[t] = "idle" /\ pc'[t] \notin {"response", "link", "write", "unlink"}
        /\ onDevice' = onDevice /\ responses' = responses /\ state' = state /\ dev' = dev
    BY <1>1, Moved, CallMoves DEF ncDeviceCreate, threads, Quiet, CallsServed, monitor, elems
  <2>2. OthersAnswered(t) /\ \A x \in Elements, c \in Devices : AllocatedOn(x, c)' <=> AllocatedOn(x, c)
    BY <2>1 DEF AllocatedOn, OthersAnswered
  <2>. QED
    BY <2>1, <2>2, AllStay, NotYet
<1>2. ASSUME NEW t \in Threads, NEW d \in Devices, ncDeviceOpen(t, d)
       PROVE  DeviceHas'
  <2>1. /\ OnlyMoves(t) /\ pc[t] = "idle" /\ pc'[t] \notin {"response", "link", "write", "unlink"}
        /\ onDevice' = onDevice /\ responses' = responses /\ state' = state /\ dev' = dev
    BY <1>2, Moved, CallMoves DEF ncDeviceOpen, threads, Quiet, CallsServed, monitor, elems
  <2>2. OthersAnswered(t) /\ \A x \in Elements, c \in Devices : AllocatedOn(x, c)' <=> AllocatedOn(x, c)
    BY <2>1 DEF AllocatedOn, OthersAnswered
  <2>. QED
    BY <2>1, <2>2, AllStay, NotYet
<1>3. ASSUME NEW t \in Threads, NEW d \in Devices, ncDeviceDestroy(t, d)
       PROVE  DeviceHas'
  <2>1. /\ OnlyMoves(t) /\ pc[t] = "idle" /\ pc'[t] \notin {"response", "link", "write", "unlink"}
        /\ onDevice' = onDevice /\ responses' = responses /\ state' = state /\ dev' = dev
    BY <1>3, Moved, CallMoves DEF ncDeviceDestroy, Quiet, CallsServed, monitor, elems
  <2>2. OthersAnswered(t) /\ \A x \in Elements, c \in Devices : AllocatedOn(x, c)' <=> AllocatedOn(x, c)
    BY <2>1 DEF AllocatedOn, OthersAnswered
  <2>. QED
    BY <2>1, <2>2, AllStay, NotYet
<1>4. ASSUME NEW t \in Threads, NEW d \in Devices, NEW op \in {"deviceClose", "deviceDestroy"}, ncDeviceClose(t, d, op)
       PROVE  DeviceHas'
  <2>1. /\ OnlyMoves(t) /\ pc[t] = "idle" /\ pc'[t] \notin {"response", "link", "write", "unlink"}
        /\ onDevice' = onDevice /\ responses' = responses /\ state' = state /\ dev' = dev
    BY <1>4, Moved, CallMoves DEF ncDeviceClose, Quiet, CallsServed, monitor, elems
  <2>2. OthersAnswered(t) /\ \A x \in Elements, c \in Devices : AllocatedOn(x, c)' <=> AllocatedOn(x, c)
    BY <2>1 DEF AllocatedOn, OthersAnswered
  <2>. QED
    BY <2>1, <2>2, AllStay, NotYet
<1>5. ASSUME NEW t \in Threads, NEW d \in Devices, ncDeviceGetOption(t, d)
       PROVE  DeviceHas'
  <2>1. /\ OnlyMoves(t) /\ pc[t] = "idle" /\ pc'[t] \notin {"response", "link", "write", "unlink"}
        /\ onDevice' = onDevice /\ responses' = responses /\ state' = state /\ dev' = dev
    BY <1>5, Moved, CallMoves DEF ncDeviceGetOption, CallsServed, monitor, elems
  <2>2. OthersAnswered(t) /\ \A x \in Elements, c \in Devices : AllocatedOn(x, c)' <=> AllocatedOn(x, c)
    BY <2>1 DEF AllocatedOn, OthersAnswered
  <2>. QED
    BY <2>1, <2>2, AllStay, NotYet
<1>6. ASSUME NEW t \in Threads, NEW e \in Elements, Create(t, e)
       PROVE  DeviceHas'
  <2>1. /\ OnlyMoves(t) /\ pc[t] = "idle" /\ pc'[t] = "idle" /\ onDevice' = onDevice /\ OthersAnswered(t)
        /\ state[e] = "none" /\ state' = [state EXCEPT ![e] = "CREATED"] /\ dev' = [dev EXCEPT ![e] = None]
    BY <1>6, Moved DEF Create, threads, monitor, Quiet, CallsServed, OthersAnswered
  <2>2. \A x \in Elements, d \in Devices : AllocatedOn(x, d)' <=> AllocatedOn(x, d)
    BY <2>1 DEF AllocatedOn, CallsServed, TypeOK
  <2>. QED
    BY <2>1, <2>2, AllStay, NotYet
<1>7. ASSUME NEW t \in Threads, NEW e \in Elements, DestroyCreated(t, e)
       PROVE  DeviceHas'
  <2>1. /\ OnlyMoves(t) /\ pc[t] = "idle" /\ pc'[t] = "idle" /\ onDevice' = onDevice /\ OthersAnswered(t)
        /\ state[e] = "CREATED" /\ state' = [state EXCEPT ![e] = "none"] /\ dev' = dev
    BY <1>7, Moved DEF DestroyCreated, threads, monitor, Quiet, CallsServed, OthersAnswered
  <2>2. \A x \in Elements, d \in Devices : AllocatedOn(x, d)' <=> AllocatedOn(x, d)
    BY <2>1 DEF AllocatedOn, CallsServed, TypeOK
  <2>. QED
    BY <2>1, <2>2, AllStay, NotYet
<1>8. ASSUME NEW t \in Threads, NEW g \in Graphs, ncGraphDestroy(t, g)
       PROVE  DeviceHas'
  <2>1. /\ OnlyMoves(t) /\ pc[t] = "idle" /\ pc'[t] \notin {"response", "link", "write", "unlink"}
        /\ onDevice' = onDevice /\ responses' = responses /\ state' = state /\ dev' = dev
    BY <1>8, Moved, CallMoves DEF ncGraphDestroy, Quiet, CallsServed, monitor, elems
  <2>2. OthersAnswered(t) /\ \A x \in Elements, c \in Devices : AllocatedOn(x, c)' <=> AllocatedOn(x, c)
    BY <2>1 DEF AllocatedOn, OthersAnswered
  <2>. QED
    BY <2>1, <2>2, AllStay, NotYet
<1>9. ASSUME NEW t \in Threads, NEW g \in Graphs, ncGraphGetOption(t, g)
       PROVE  DeviceHas'
  <2>1. /\ OnlyMoves(t) /\ pc[t] = "idle" /\ pc'[t] \notin {"response", "link", "write", "unlink"}
        /\ onDevice' = onDevice /\ responses' = responses /\ state' = state /\ dev' = dev
    BY <1>9, Moved, CallMoves DEF ncGraphGetOption, Quiet, CallsServed, monitor, elems
  <2>2. OthersAnswered(t) /\ \A x \in Elements, c \in Devices : AllocatedOn(x, c)' <=> AllocatedOn(x, c)
    BY <2>1 DEF AllocatedOn, OthersAnswered
  <2>. QED
    BY <2>1, <2>2, AllStay, NotYet
<1>10. ASSUME NEW t \in Threads, NEW g \in Graphs, NEW d \in Devices, ncGraphAllocate(t, g, d)
       PROVE  DeviceHas'
  <2>1. /\ OnlyMoves(t) /\ pc[t] = "idle" /\ pc'[t] \notin {"response", "link", "write", "unlink"}
        /\ onDevice' = onDevice /\ responses' = responses /\ state' = state /\ dev' = dev
    BY <1>10, Moved, CallMoves DEF ncGraphAllocate, threads, Quiet, CallsServed, monitor, elems
  <2>2. OthersAnswered(t) /\ \A x \in Elements, c \in Devices : AllocatedOn(x, c)' <=> AllocatedOn(x, c)
    BY <2>1 DEF AllocatedOn, OthersAnswered
  <2>. QED
    BY <2>1, <2>2, AllStay, NotYet
<1>11. ASSUME NEW t \in Threads, NEW f \in Fifos, ncFifoDestroy(t, f)
       PROVE  DeviceHas'
  <2>1. /\ OnlyMoves(t) /\ pc[t] = "idle" /\ pc'[t] \notin {"response", "link", "write", "unlink"}
        /\ onDevice' = onDevice /\ responses' = responses /\ state' = state /\ dev' = dev
    BY <1>11, Moved, CallMoves DEF ncFifoDestroy, Quiet, CallsServed, monitor, elems
  <2>2. OthersAnswered(t) /\ \A x \in Elements, c \in Devices : AllocatedOn(x, c)' <=> AllocatedOn(x, c)
    BY <2>1 DEF AllocatedOn, OthersAnswered
  <2>. QED
    BY <2>1, <2>2, AllStay, NotYet
<1>12. ASSUME NEW t \in Threads, NEW f \in Fifos, NEW d \in Devices, ncFifoAllocate(t, f, d)
       PROVE  DeviceHas'
  <2>1. /\ OnlyMoves(t) /\ pc[t] = "idle" /\ pc'[t] = "write" /\ arg'[t].op = "fifoAllocate" /\ onDevice' = onDevice
        /\ OthersAnswered(t) /\ state[f] = "CREATED" /\ state' = state /\ dev' = [dev EXCEPT ![f] = d]
    BY <1>12, CallMoves DEF ncFifoAllocate, monitor, Quiet, CallsServed, OthersAnswered
  <2>2. \A x \in Elements, c \in Devices : AllocatedOn(x, c)' <=> AllocatedOn(x, c)
    BY <2>1 DEF AllocatedOn, CallsServed, TypeOK
  <2>3. ~Gained(t)' /\ ~Lost(t)'
    BY <2>1 DEF Gained, Lost, Answered
  <2>. QED
    BY <2>1, <2>2, <2>3, AllStay, NotYet
<1>13. ASSUME NEW t \in Threads, XLinkConnect(t)
       PROVE  DeviceHas'
  <2>1. /\ OnlyMoves(t) /\ pc[t] = "connect" /\ pc'[t] \notin {"response", "link", "write", "unlink"}
        /\ onDevice' = onDevice /\ responses' = responses /\ state' = state /\ dev' = dev
    BY <1>13, Moved DEF XLinkConnect, CallsServed, monitor, elems
  <2>2. OthersAnswered(t) /\ \A x \in Elements, c \in Devices : AllocatedOn(x, c)' <=> AllocatedOn(x, c)
    BY <2>1 DEF AllocatedOn, OthersAnswered
  <2>. QED
    BY <2>1, <2>2, AllStay, NotYet
<1>14. ASSUME NEW t \in Threads, ScanBootDevices(t)
       PROVE  DeviceHas'
  <2>1. /\ OnlyMoves(t) /\ pc[t] = "scan" /\ pc'[t] \notin {"response", "link", "write", "unlink"}
        /\ onDevice' = onDevice /\ responses' = responses /\ state' = state /\ dev' = dev
    BY <1>14, Moved DEF ScanBootDevices, CallsServed, monitor, elems
  <2>2. OthersAnswered(t) /\ \A x \in Elements, c \in Devices : AllocatedOn(x, c)' <=> AllocatedOn(x, c)
    BY <2>1 DEF AllocatedOn, OthersAnswered
  <2>. QED
    BY <2>1, <2>2, AllStay, NotYet
<1>15. ASSUME NEW t \in Threads, OpenDeviceMonitor(t)
       PROVE  DeviceHas'
  <2>1. /\ OnlyMoves(t) /\ pc[t] = "streams" /\ pc'[t] \notin {"response", "link", "write", "unlink"}
        /\ onDevice' = onDevice /\ responses' = responses /\ state' = state /\ dev' = dev
    BY <1>15, Moved DEF OpenDeviceMonitor, CallsServed, monitor, elems
  <2>2. OthersAnswered(t) /\ \A x \in Elements, c \in Devices : AllocatedOn(x, c)' <=> AllocatedOn(x, c)
    BY <2>1 DEF AllocatedOn, OthersAnswered
  <2>. QED
    BY <2>1, <2>2, AllStay, NotYet
<1>16. ASSUME NEW t \in Threads, DeallocateAll(t)
       PROVE  DeviceHas'
  <2>0. TypeOK /\ CallsFit /\ Exclusive
    BY DEF CallsServed
  <2>1. /\ pc[t] = "close" /\ OnlyMoves(t) /\ arg[t].op \in {"deviceClose", "deviceDestroy"}
        /\ pc'[t] \in {"idle", "free"}
    BY <1>16, <2>0, Moved DEF DeallocateAll, CallsFit, Fits
  <2>2. PICK d \in Devices : d = arg[t].d
    BY <2>0, <2>1, InCall
  <2>3. /\ onDevice'[d] = {} /\ \A c \in Devices \ {d} : onDevice'[c] = onDevice[c] /\ responses'[c] = responses[c]
    BY <1>16, <2>0, <2>2 DEF DeallocateAll, TypeOK
  <2>4. \A x \in Elements :
              \/ state'[x] = state[x] /\ dev'[x] = dev[x] /\ \A l \in Lists : l[1] = d => x \notin InList(l)
              \/ state'[x] # "ALLOCATED" /\ dev[x] = d
    BY <1>16, <2>0, <2>2, AllDeallocated
  <2>5. ~Gained(t) /\ ~Lost(t) /\ ~Gained(t)' /\ ~Lost(t)'
    BY <2>1, NotYet
  <2>6. \A q \in Threads \ {t} : arg[q].d # d
    BY <2>0, <2>1, <2>2 DEF Exclusive, DeviceOps
  <2>7. \A x \in Elements, c \in Devices \ {d} : AllocatedOn(x, c)' <=> AllocatedOn(x, c)
    BY <2>4 DEF AllocatedOn
  <2>8. \A x \in Elements : ~AllocatedOn(x, d)'
    <3> SUFFICES ASSUME NEW x \in Elements, AllocatedOn(x, d)'
                 PROVE  FALSE
      OBVIOUS
    <3>1. state[x] = "ALLOCATED" /\ dev[x] = d /\ \A l \in Lists : l[1] = d => x \notin InList(l)
      BY <2>4 DEF AllocatedOn
    <3>2. x \in InList(List(d, x))
      BY <3>1 DEF ListsSound, AllocatedListed
    <3>. QED
      BY <3>1, <3>2, ListNames
  <2>9. \A q \in Threads \ {t} : /\ arg'[q] = arg[q] /\ pc'[q] = pc[q]
                                 /\ Gained(q)' <=> Gained(q)
                                 /\ Lost(q)' <=> Lost(q)
    <3> SUFFICES ASSUME NEW q \in Threads \ {t}
                 PROVE  /\ arg'[q] = arg[q] /\ pc'[q] = pc[q]
                        /\ Gained(q)' <=> Gained(q)
                        /\ Lost(q)' <=> Lost(q)
      OBVIOUS
    <3>1. arg'[q] = arg[q] /\ pc'[q] = pc[q]
      BY <2>1 DEF OnlyMoves
    <3>2. pc[q] = "response" => responses'[arg[q].d] = responses[arg[q].d]
      BY <2>0, <2>3, <2>6, InCall
    <3>3. Answered(q)' <=> Answered(q)
      BY <3>1, <3>2 DEF Answered, Accepted
    <3>. QED
      BY <3>1, <3>3 DEF Gained, Lost
  <2>10. ASSUME NEW x \in Elements, NEW c \in Devices
         PROVE  x \in onDevice'[c] <=>
                   \/ \E q \in Threads : arg'[q].e = x /\ arg'[q].d = c /\ Gained(q)'
                   \/ AllocatedOn(x, c)' /\ ~\E q \in Threads : arg'[q].e = x /\ Lost(q)'
    <3>1. CASE c = d
      BY <2>3, <2>5, <2>6, <2>8, <2>9, <3>1
    <3>2. CASE c # d
      BY <2>3, <2>5, <2>7, <2>9, <3>2 DEF DeviceHas, Has, AllocatedOn
    <3>. QED
      BY <3>1, <3>2
  <2>. QED
    BY <2>10 DEF DeviceHas, Has, AllocatedOn
<1>17. ASSUME NEW t \in Threads, FreeDevice(t)
       PROVE  DeviceHas'
  <2>1. /\ OnlyMoves(t) /\ pc[t] = "free" /\ pc'[t] \notin {"response", "link", "write", "unlink"}
        /\ onDevice' = onDevice /\ responses' = responses /\ state' = state /\ dev' = dev
    BY <1>17, Moved DEF FreeDevice, CallsServed, monitor, elems
  <2>2. OthersAnswered(t) /\ \A x \in Elements, c \in Devices : AllocatedOn(x, c)' <=> AllocatedOn(x, c)
    BY <2>1 DEF AllocatedOn, OthersAnswered
  <2>. QED
    BY <2>1, <2>2, AllStay, NotYet
<1>18. ASSUME NEW t \in Threads, CheckDevice(t)
       PROVE  DeviceHas'
  <2>1. /\ OnlyMoves(t) /\ pc[t] = "check" /\ pc'[t] \notin {"response", "link", "write", "unlink"}
        /\ onDevice' = onDevice /\ responses' = responses /\ state' = state /\ dev' = dev
    BY <1>18, Moved DEF CheckDevice, CallsServed, monitor, elems
  <2>2. OthersAnswered(t) /\ \A x \in Elements, c \in Devices : AllocatedOn(x, c)' <=> AllocatedOn(x, c)
    BY <2>1 DEF AllocatedOn, OthersAnswered
  <2>. QED
    BY <2>1, <2>2, AllStay, NotYet
<1>19. ASSUME NEW t \in Threads, AskDevice(t)
       PROVE  DeviceHas'
  <2>1. /\ OnlyMoves(t) /\ pc[t] = "ask" /\ pc'[t] \notin {"response", "link", "write", "unlink"}
        /\ onDevice' = onDevice /\ responses' = responses /\ state' = state /\ dev' = dev
    BY <1>19, Moved DEF AskDevice, CallsServed, monitor, elems
  <2>2. OthersAnswered(t) /\ \A x \in Elements, c \in Devices : AllocatedOn(x, c)' <=> AllocatedOn(x, c)
    BY <2>1 DEF AllocatedOn, OthersAnswered
  <2>. QED
    BY <2>1, <2>2, AllStay, NotYet
<1>20. ASSUME NEW t \in Threads, ReadAnswer(t)
       PROVE  DeviceHas'
  <2>1. /\ OnlyMoves(t) /\ pc[t] = "answer" /\ pc'[t] \notin {"response", "link", "write", "unlink"}
        /\ onDevice' = onDevice /\ responses' = responses /\ state' = state /\ dev' = dev
    BY <1>20, Moved DEF ReadAnswer, CallsServed, monitor, elems
  <2>2. OthersAnswered(t) /\ \A x \in Elements, c \in Devices : AllocatedOn(x, c)' <=> AllocatedOn(x, c)
    BY <2>1 DEF AllocatedOn, OthersAnswered
  <2>. QED
    BY <2>1, <2>2, AllStay, NotYet
<1>21. ASSUME NEW t \in Threads, CopyAnswer(t)
       PROVE  DeviceHas'
  <2>1. /\ OnlyMoves(t) /\ pc[t] = "copy" /\ pc'[t] \notin {"response", "link", "write", "unlink"}
        /\ onDevice' = onDevice /\ responses' = responses /\ state' = state /\ dev' = dev
    BY <1>21, Moved DEF CopyAnswer, CallsServed, monitor, elems
  <2>2. OthersAnswered(t) /\ \A x \in Elements, c \in Devices : AllocatedOn(x, c)' <=> AllocatedOn(x, c)
    BY <2>1 DEF AllocatedOn, OthersAnswered
  <2>. QED
    BY <2>1, <2>2, AllStay, NotYet
<1>22. ASSUME NEW t \in Threads, sendGraphMonitorRequest(t)
       PROVE  DeviceHas'
  <2>0. TypeOK /\ CallsFit
    BY DEF CallsServed
  <2>1. /\ pc[t] = "send" /\ OnlyMoves(t) /\ onDevice' = onDevice /\ dev' = dev /\ state' = state
        /\ responses' = responses /\ mutex[Monitor(arg[t].d)] = None
        /\ pc'[t] \in {"response", "stuck", "idle"} /\ (pc'[t] = "response" => arg'[t] = arg[t])
    BY <1>22, <2>0, Moved DEF sendGraphMonitorRequest, elems, IsFree
  <2>2. responses[arg[t].d] = <<>>
    BY <2>0, <2>1, ElementCall, NoneIsNothing DEF CallsServed, InStep, Serves
  <2>3. ~Gained(t) /\ ~Lost(t) /\ ~Gained(t)' /\ ~Lost(t)'
    BY <2>1, <2>2, NotYet DEF Gained, Lost, Answered
  <2>4. OthersAnswered(t) /\ \A x \in Elements, d \in Devices : AllocatedOn(x, d)' <=> AllocatedOn(x, d)
    BY <2>1 DEF AllocatedOn, OthersAnswered
  <2>. QED
    BY <2>1, <2>3, <2>4, AllStay
<1>23. ASSUME NEW t \in Threads, GraphAllocated(t)
       PROVE  DeviceHas'
  <2>0. TypeOK /\ CallsFit
    BY DEF CallsServed
  <2>1. pc[t] = "response" /\ OnlyMoves(t) /\ onDevice' = onDevice /\ dev' = dev /\ state' = state
    BY <1>23, <2>0, Moved DEF GraphAllocated, Response, At, elems
  <2>2. OthersAnswered(t)
    <3>1. HasMonitor(t) /\ \A c \in Devices \ {arg[t].d} : responses'[c] = responses[c]
      BY <1>23, <2>0, <2>1 DEF GraphAllocated, Response, HasMonitor, TypeOK
    <3>. QED
      BY <3>1, OthersKeep
  <2>3. \A x \in Elements, d \in Devices : AllocatedOn(x, d)' <=> AllocatedOn(x, d)
    BY <2>1 DEF AllocatedOn
  <2>4. /\ arg[t].op = "graphAllocate" /\ responses[arg[t].d] # <<>> /\ arg'[t] = arg[t]
        /\ pc'[t] = IF Accepted(t) THEN "link" ELSE "check"
    BY <1>23, <2>0, Moved DEF GraphAllocated, Response, At, Outcome, Careful, Loses
  <2>5. (Gained(t)' <=> Gained(t)) /\ (Lost(t)' <=> Lost(t))
    BY <2>1, <2>4 DEF Gained, Lost, Answered
  <2>. QED
    BY <2>1, <2>2, <2>3, <2>4, <2>5, AllStay
<1>24. ASSUME NEW t \in Threads, GraphUnsupported(t)
       PROVE  DeviceHas'
  <2>0. TypeOK /\ CallsFit
    BY DEF CallsServed
  <2>1. pc[t] = "response" /\ OnlyMoves(t) /\ onDevice' = onDevice /\ dev' = dev /\ state' = state
    BY <1>24, <2>0, Moved DEF GraphUnsupported, Response, At, elems
  <2>2. OthersAnswered(t)
    <3>1. HasMonitor(t) /\ \A c \in Devices \ {arg[t].d} : responses'[c] = responses[c]
      BY <1>24, <2>0, <2>1 DEF GraphUnsupported, Response, HasMonitor, TypeOK
    <3>. QED
      BY <3>1, OthersKeep
  <2>3. \A x \in Elements, d \in Devices : AllocatedOn(x, d)' <=> AllocatedOn(x, d)
    BY <2>1 DEF AllocatedOn
  <2>4. arg[t].op = "graphAllocate" /\ ~Accepted(t) /\ pc'[t] = "idle"
    BY <1>24, <2>0, Moved DEF GraphUnsupported, Response, At
  <2>5. ~Gained(t) /\ ~Lost(t) /\ ~Gained(t)' /\ ~Lost(t)'
    BY <2>1, <2>4, NotYet DEF Gained, Lost, Answered
  <2>. QED
    BY <2>1, <2>2, <2>3, <2>5, AllStay
<1>25. ASSUME NEW t \in Threads, LinkGraph(t)
       PROVE  DeviceHas'
  <2>0. TypeOK /\ CallsFit
    BY DEF CallsServed
  <2>1. /\ OnlyMoves(t) /\ pc[t] = "link" /\ pc'[t] = "write" /\ arg'[t] = arg[t] /\ arg[t].op = "graphAllocate"
        /\ onDevice' = onDevice /\ OthersAnswered(t) /\ state' = state /\ dev' = [dev EXCEPT ![arg[t].e] = arg[t].d]
    BY <1>25, <2>0, Moved DEF LinkGraph, monitor, CallsFit, Fits, OthersAnswered
  <2>2. state[arg[t].e] = "CREATED"
    BY <2>1 DEF CallsOnElements, OnElement
  <2>3. \A x \in Elements, d \in Devices : AllocatedOn(x, d)' <=> AllocatedOn(x, d)
    BY <2>0, <2>1, <2>2 DEF AllocatedOn, TypeOK
  <2>4. (Gained(t)' <=> Gained(t)) /\ (Lost(t)' <=> Lost(t))
    BY <2>1 DEF Gained, Lost, Answered
  <2>. QED
    BY <2>1, <2>3, <2>4, AllStay
<1>26. ASSUME NEW t \in Threads, WriteHead(t)
       PROVE  DeviceHas'
  <2>0. TypeOK /\ CallsFit
    BY DEF CallsServed
  <2>1. pc[t] = "write" /\ OnElement(t) /\ OnlyMoves(t) /\ onDevice' = onDevice /\ dev' = dev
    BY <1>26, <2>0, Moved DEF WriteHead, CallsOnElements, monitor
  <2>2. PICK e \in Elements, d \in Devices : e = arg[t].e /\ d = arg[t].d
    BY <2>0, <2>1, ElementCall
  <2>3. OthersAnswered(t)
    BY <1>26 DEF WriteHead, monitor, OthersAnswered
  <2>4. CASE e \notin Graphs
    <3>1. state' = state /\ pc'[t] = "stream" /\ arg[t].op = "fifoAllocate"
      BY <1>26, <2>0, <2>1, <2>2, <2>4, Moved DEF WriteHead, OnElement, CallsFit, Fits
    <3>2. ~Gained(t) /\ ~Lost(t) /\ ~Gained(t)' /\ ~Lost(t)'
      BY <2>1, <3>1, NotYet DEF Gained, Lost, Answered
    <3>3. \A x \in Elements, c \in Devices : AllocatedOn(x, c)' <=> AllocatedOn(x, c)
      BY <2>1, <3>1 DEF AllocatedOn
    <3>. QED
      BY <2>1, <2>3, <3>2, <3>3, AllStay
  <2>5. CASE e \in Graphs
    <3>1. /\ state' = [state EXCEPT ![e] = "ALLOCATED"] /\ arg'[t] = NoCall
          /\ arg[t].op = "graphAllocate" /\ state[e] = "CREATED" /\ dev[e] = d
      BY <1>26, <2>0, <2>1, <2>2, <2>5, Moved, NcDeviceAssumption DEF WriteHead, OnElement
    <3>2. Gained(t)
      BY <2>1, <3>1 DEF Gained
    <3>3. \A c \in Devices : e \in onDevice[c] <=> c = d
      BY <2>2, <3>1, <3>2, HasOwn DEF AllocatedOn
    <3>4. NoCall.e = None /\ e # None
      BY NoneIsNothing DEF NoCall
    <3>5. Has(e)'
      <4>1. \A q \in Threads : arg'[q].e # e
        BY <2>1, <2>2, <3>1, <3>4 DEF OnlyMoves, Owned
      <4>2. \A c \in Devices : e \in onDevice'[c] <=> AllocatedOn(e, c)'
        BY <2>0, <2>1, <3>1, <3>3 DEF AllocatedOn, TypeOK
      <4>. QED
        BY <4>1, <4>2, HasUnused
    <3>6. ASSUME NEW x \in Elements \ {e}
          PROVE  Has(x)'
      <4>1. \A c \in Devices : AllocatedOn(x, c)' <=> AllocatedOn(x, c)
        BY <2>0, <2>1, <3>1 DEF AllocatedOn, TypeOK
      <4>2. x # arg[t].e /\ x # arg'[t].e
        BY <2>2, <3>1, <3>4, NoneIsNothing
      <4>. QED
        BY <2>1, <2>3, <4>1, <4>2, HasStays DEF DeviceHas
    <3>. QED
      BY <3>5, <3>6 DEF DeviceHas
  <2>. QED
    BY <2>4, <2>5
<1>27. ASSUME NEW t \in Threads, OpenFifoStream(t)
       PROVE  DeviceHas'
  <2>1. /\ OnlyMoves(t) /\ pc[t] = "stream" /\ pc'[t] \notin {"response", "link", "write", "unlink"}
        /\ onDevice' = onDevice /\ responses' = responses /\ state' = state /\ dev' = dev
    BY <1>27, Moved DEF OpenFifoStream, CallsServed, monitor, elems
  <2>2. OthersAnswered(t) /\ \A x \in Elements, c \in Devices : AllocatedOn(x, c)' <=> AllocatedOn(x, c)
    BY <2>1 DEF AllocatedOn, OthersAnswered
  <2>. QED
    BY <2>1, <2>2, AllStay, NotYet
<1>28. ASSUME NEW t \in Threads, FifoAllocated(t)
       PROVE  DeviceHas'
  <2>0. TypeOK /\ CallsFit
    BY DEF CallsServed
  <2>1. pc[t] = "response" /\ OnElement(t) /\ OnlyMoves(t) /\ onDevice' = onDevice /\ dev' = dev
    BY <1>28, <2>0, Moved DEF FifoAllocated, Response, At, CallsOnElements, monitor
  <2>2. PICK e \in Elements, d \in Devices : e = arg[t].e /\ d = arg[t].d
    BY <2>0, <2>1, ElementCall
  <2>3. OthersAnswered(t)
    <3>1. HasMonitor(t) /\ \A c \in Devices \ {arg[t].d} : responses'[c] = responses[c]
      BY <1>28, <2>0, <2>1 DEF FifoAllocated, Response, HasMonitor, TypeOK
    <3>. QED
      BY <3>1, OthersKeep
  <2>6. arg[t].op = "fifoAllocate" /\ responses[d] # <<>> /\ arg'[t] = NoCall /\ pc'[t] = "idle"
    BY <1>28, <2>0, <2>2, Moved DEF FifoAllocated, Response, At
  <2>4. CASE ~Accepted(t)
    <3>2. ~Gained(t) /\ ~Lost(t) /\ ~Gained(t)' /\ ~Lost(t)'
      BY <2>1, <2>4, <2>6, NotYet DEF Gained, Lost, Answered
    <3>3. \A x \in Elements, c \in Devices : AllocatedOn(x, c)' <=> AllocatedOn(x, c)
      BY <1>28, <2>1, <2>4 DEF AllocatedOn, FifoAllocated
    <3>. QED
      BY <2>1, <2>3, <3>2, <3>3, AllStay
  <2>5. CASE Accepted(t)
    <3>1. /\ state' = [state EXCEPT ![e] = "ALLOCATED"] /\ arg'[t] = NoCall
          /\ state[e] = "CREATED" /\ dev[e] = d
      BY <1>28, <2>0, <2>1, <2>2, <2>5, <2>6 DEF FifoAllocated, OnElement
    <3>2. Gained(t)
      BY <2>1, <2>2, <2>5, <2>6 DEF Gained, Answered
    <3>3. \A c \in Devices : e \in onDevice[c] <=> c = d
      BY <2>2, <3>1, <3>2, HasOwn DEF AllocatedOn
    <3>4. NoCall.e = None /\ e # None
      BY NoneIsNothing DEF NoCall
    <3>5. Has(e)'
      <4>1. \A q \in Threads : arg'[q].e # e
        BY <2>1, <2>2, <3>1, <3>4 DEF OnlyMoves, Owned
      <4>2. \A c \in Devices : e \in onDevice'[c] <=> AllocatedOn(e, c)'
        BY <2>0, <2>1, <3>1, <3>3 DEF AllocatedOn, TypeOK
      <4>. QED
        BY <4>1, <4>2, HasUnused
    <3>6. ASSUME NEW x \in Elements \ {e}
          PROVE  Has(x)'
      <4>1. \A c \in Devices : AllocatedOn(x, c)' <=> AllocatedOn(x, c)
        BY <2>0, <2>1, <3>1 DEF AllocatedOn, TypeOK
      <4>2. x # arg[t].e /\ x # arg'[t].e
        BY <2>2, <3>1, <3>4, NoneIsNothing
      <4>. QED
        BY <2>1, <2>3, <4>1, <4>2, HasStays DEF DeviceHas
    <3>. QED
      BY <3>5, <3>6 DEF DeviceHas
  <2>. QED
    BY <2>4, <2>5
<1>29. ASSUME NEW t \in Threads, GraphDeallocated(t)
       PROVE  DeviceHas'
  <2>0. TypeOK /\ CallsFit
    BY DEF CallsServed
  <2>1. pc[t] = "response" /\ OnlyMoves(t) /\ onDevice' = onDevice /\ dev' = dev /\ state' = state
    BY <1>29, <2>0, Moved DEF GraphDeallocated, Response, At, elems
  <2>2. OthersAnswered(t)
    <3>1. HasMonitor(t) /\ \A c \in Devices \ {arg[t].d} : responses'[c] = responses[c]
      BY <1>29, <2>0, <2>1 DEF GraphDeallocated, Response, HasMonitor, TypeOK
    <3>. QED
      BY <3>1, OthersKeep
  <2>3. \A x \in Elements, d \in Devices : AllocatedOn(x, d)' <=> AllocatedOn(x, d)
    BY <2>1 DEF AllocatedOn
  <2>4. /\ arg[t].op = "graphDestroy" /\ responses[arg[t].d] # <<>>
        /\ IF Accepted(t) THEN pc'[t] = "unlink" /\ arg'[t] = arg[t] ELSE pc'[t] = "idle" /\ arg'[t] = NoCall
    BY <1>29, <2>0, Moved DEF GraphDeallocated, Response, At
  <2>5. \/ ~Gained(t) /\ ~Lost(t) /\ ~Gained(t)' /\ ~Lost(t)'
        \/ arg'[t] = arg[t] /\ (Gained(t)' <=> Gained(t)) /\ (Lost(t)' <=> Lost(t))
    BY <2>1, <2>4 DEF Gained, Lost, Answered
  <2>. QED
    BY <2>1, <2>2, <2>3, <2>5, AllStay
<1>30. ASSUME NEW t \in Threads, FifoDeallocated(t)
       PROVE  DeviceHas'
  <2>0. TypeOK /\ CallsFit
    BY DEF CallsServed
  <2>1. pc[t] = "response" /\ OnlyMoves(t) /\ onDevice' = onDevice /\ dev' = dev /\ state' = state
    BY <1>30, <2>0, Moved DEF FifoDeallocated, Response, At, elems
  <2>2. OthersAnswered(t)
    <3>1. HasMonitor(t) /\ \A c \in Devices \ {arg[t].d} : responses'[c] = responses[c]
      BY <1>30, <2>0, <2>1 DEF FifoDeallocated, Response, HasMonitor, TypeOK
    <3>. QED
      BY <3>1, OthersKeep
  <2>3. \A x \in Elements, d \in Devices : AllocatedOn(x, d)' <=> AllocatedOn(x, d)
    BY <2>1 DEF AllocatedOn
  <2>4. /\ arg[t].op = "fifoDestroy" /\ responses[arg[t].d] # <<>>
        /\ IF Accepted(t) THEN pc'[t] = "unlink" /\ arg'[t] = arg[t] ELSE pc'[t] = "idle" /\ arg'[t] = NoCall
    BY <1>30, <2>0, Moved DEF FifoDeallocated, Response, At
  <2>5. \/ ~Gained(t) /\ ~Lost(t) /\ ~Gained(t)' /\ ~Lost(t)'
        \/ arg'[t] = arg[t] /\ (Gained(t)' <=> Gained(t)) /\ (Lost(t)' <=> Lost(t))
    BY <2>1, <2>4 DEF Gained, Lost, Answered
  <2>. QED
    BY <2>1, <2>2, <2>3, <2>5, AllStay
<1>31. ASSUME NEW t \in Threads, GraphOption(t)
       PROVE  DeviceHas'
  <2>0. TypeOK /\ CallsFit
    BY DEF CallsServed
  <2>1. pc[t] = "response" /\ OnlyMoves(t) /\ onDevice' = onDevice /\ dev' = dev /\ state' = state
    BY <1>31, <2>0, Moved DEF GraphOption, At, elems
  <2>2. OthersAnswered(t)
    <3>1. HasMonitor(t) /\ \A c \in Devices \ {arg[t].d} : responses'[c] = responses[c]
      BY <1>31, <2>0, <2>1 DEF GraphOption, HasMonitor, TypeOK
    <3>. QED
      BY <3>1, OthersKeep
  <2>3. \A x \in Elements, d \in Devices : AllocatedOn(x, d)' <=> AllocatedOn(x, d)
    BY <2>1 DEF AllocatedOn
  <2>4. arg[t].op = "graphGetOption" /\ pc'[t] = "idle"
    BY <1>31, <2>0, Moved DEF GraphOption, At
  <2>5. ~Gained(t) /\ ~Lost(t) /\ ~Gained(t)' /\ ~Lost(t)'
    BY <2>4, NotYet DEF Gained, Lost
  <2>. QED
    BY <2>1, <2>2, <2>3, <2>5, AllStay
<1>32. ASSUME NEW t \in Threads, Deallocate(t)
       PROVE  DeviceHas'
  <2>0. TypeOK /\ CallsFit
    BY DEF CallsServed
  <2>1. /\ pc[t] = "unlink" /\ OnElement(t) /\ OnlyMoves(t) /\ onDevice' = onDevice /\ arg'[t] = NoCall
        /\ OthersAnswered(t)
    BY <1>32, <2>0, Moved DEF Deallocate, CallsOnElements, monitor, OthersAnswered
  <2>2. PICK e \in Elements : e = arg[t].e
    BY <2>0, <2>1, ElementCall
  <2>3. state' = [state EXCEPT ![e] = "none"] /\ dev' = [dev EXCEPT ![e] = None]
    BY <1>32, <2>2 DEF Deallocate
  <2>4. Lost(t) /\ ~Gained(t)
    BY <2>1 DEF Lost, Gained, OnElement
  <2>5. NoCall.e = None /\ e # None
    BY NoneIsNothing DEF NoCall
  <2>6. Has(e)'
    <3>1. \A q \in Threads : arg'[q].e # e
      BY <2>1, <2>2, <2>5 DEF OnlyMoves, Owned
    <3>2. \A c \in Devices : e \notin onDevice[c]
      BY <2>2, <2>4, HasOwn
    <3>3. \A c \in Devices : e \in onDevice'[c] <=> AllocatedOn(e, c)'
      BY <2>0, <2>1, <2>3, <3>2 DEF AllocatedOn, TypeOK
    <3>. QED
      BY <3>1, <3>3, HasUnused
  <2>7. ASSUME NEW x \in Elements \ {e}
        PROVE  Has(x)'
    <3>1. \A c \in Devices : AllocatedOn(x, c)' <=> AllocatedOn(x, c)
      BY <2>0, <2>3 DEF AllocatedOn, TypeOK
    <3>2. x # arg[t].e /\ x # arg'[t].e
      BY <2>1, <2>2, <2>5, NoneIsNothing
    <3>. QED
      BY <2>1, <3>1, <3>2, HasStays DEF DeviceHas
  <2>. QED
    BY <2>6, <2>7 DEF DeviceHas
<1>33. ASSUME NEW d \in Devices, Boots(d)
       PROVE  DeviceHas'
  BY <1>33 DEF Boots, threads, elems, monitor, DeviceHas, Has, Gained, Lost, Answered, Accepted
<1>34. ASSUME NEW d \in Devices, ReEnumerates(d)
       PROVE  DeviceHas'
  BY <1>34 DEF ReEnumerates, threads, elems, monitor, DeviceHas, Has, Gained, Lost, Answered, Accepted
<1>35. ASSUME NEW d \in Devices, MonitorExecutes(d)
       PROVE  DeviceHas'
  <2>0. TypeOK /\ CallsFit /\ MonitorHeld
    BY DEF CallsServed
  <2>1. PICK t : t = mutex[Monitor(d)]
    OBVIOUS
  <2>2. /\ t \in Threads /\ pc[t] = "response" /\ arg[t].d = d
        /\ requests[d] = <<Request(t)>> /\ responses[d] = <<>>
    BY <1>35, <2>1 DEF MonitorExecutes, CallsServed, InStep, Serves
  <2>3. PICK e \in Elements : e = arg[t].e /\ arg[t].op \in MonitorOps
    BY <2>0, <2>2, ElementCall
  <2>4. Head(requests[d]).op = arg[t].op /\ Head(requests[d]).e = e
    BY <2>2, <2>3 DEF Request
  <2>. DEFINE answer(no) == [msg |-> Head(requests[d]), ok |-> ~no]
              answers(no) == IF arg[t].op = "graphGetOption" THEN <<answer(no), answer(no)>> ELSE <<answer(no)>>
  <2>5. PICK no \in BOOLEAN :
           /\ responses' = [responses EXCEPT ![d] = @ \o answers(no)]
           /\ onDevice' = [onDevice EXCEPT ![d] =
                 IF no THEN @
                 ELSE IF arg[t].op \in {"graphAllocate", "fifoAllocate"} THEN @ \cup {e}
                 ELSE IF arg[t].op \in {"graphDestroy", "fifoDestroy"} THEN @ \ {e} ELSE @]
    <3>1. \A op : Refuses(op) \subseteq BOOLEAN
      BY DEF Refuses, Outcome
    <3>. QED
      BY <1>35, <2>4, <3>1 DEF MonitorExecutes
  <2>6. responses'[d] # <<>> /\ Head(responses'[d]).ok = ~no /\ \A c \in Devices \ {d} : responses'[c] = responses[c]
    <3>1. <<>> \o answers(no) = answers(no) /\ answers(no) # <<>> /\ Head(answers(no)).ok = ~no
      OBVIOUS
    <3>. HIDE DEF answers
    <3>2. responses'[d] = <<>> \o answers(no) /\ \A c \in Devices \ {d} : responses'[c] = responses[c]
      BY <2>0, <2>2, <2>5 DEF TypeOK
    <3>. QED
      BY <3>1, <3>2
  <2>7. pc' = pc /\ arg' = arg /\ OnlyMoves(t) /\ state' = state /\ dev' = dev
    BY <1>35 DEF MonitorExecutes, threads, elems, OnlyMoves
  <2>8. OthersAnswered(t)
    BY <2>2, <2>6, OthersKeep DEF HasMonitor
  <2>9. ~Gained(t) /\ ~Lost(t) /\ OnElement(t)
    BY <2>2 DEF Gained, Lost, Answered, CallsOnElements
  <2>10. /\ Gained(t)' <=> ~no /\ arg[t].op \in {"graphAllocate", "fifoAllocate"}
         /\ Lost(t)' <=> ~no /\ arg[t].op \in {"graphDestroy", "fifoDestroy"}
    BY <2>2, <2>6, <2>7 DEF Gained, Lost, Answered, Accepted
  <2>11. /\ \A c \in Devices \ {d} : onDevice'[c] = onDevice[c]
         /\ \A x \in Elements \ {e} : x \in onDevice'[d] <=> x \in onDevice[d]
         /\ e \in onDevice'[d] <=> IF no THEN e \in onDevice[d]
                                   ELSE IF arg[t].op \in {"graphAllocate", "fifoAllocate"} THEN TRUE
                                   ELSE IF arg[t].op \in {"graphDestroy", "fifoDestroy"} THEN FALSE
                                   ELSE e \in onDevice[d]
    BY <2>0, <2>5 DEF TypeOK
  <2>12. ASSUME NEW x \in Elements \ {e}
         PROVE  Has(x)'
    <3>1. \A c \in Devices : (x \in onDevice'[c] <=> x \in onDevice[c]) /\ (AllocatedOn(x, c)' <=> AllocatedOn(x, c))
      BY <2>7, <2>11 DEF AllocatedOn
    <3>. QED
      BY <2>2, <2>3, <2>7, <2>8, <3>1, HasStays DEF DeviceHas
  <2>13. Has(e)'
    <3>1. \A c \in Devices : e \in onDevice[c] <=> AllocatedOn(e, c)
      BY <2>2, <2>3, <2>9, HasOwn
    <3>2. /\ arg[t].op \in {"graphAllocate", "fifoAllocate"} => state[e] = "CREATED"
          /\ arg[t].op \in {"graphDestroy", "fifoDestroy"} => dev[e] = d
      BY <2>2, <2>3, <2>9 DEF OnElement
    <3>3. \A q \in Threads : arg[q].e = e => q = t
      BY <2>2, <2>3, NoneIsNothing DEF Owned
    <3>4. \A c \in Devices : e \in onDevice'[c] <=> \/ c = d /\ Gained(t)'
                                                    \/ AllocatedOn(e, c) /\ ~Lost(t)'
      BY <2>10, <2>11, <3>1, <3>2 DEF AllocatedOn
    <3>. QED
      BY <2>2, <2>3, <2>7, <3>3, <3>4 DEF Has, AllocatedOn
  <2>. QED
    BY <2>12, <2>13 DEF DeviceHas
<1>36. ASSUME NEW d \in Devices, MonitorAnswers(d)
       PROVE  DeviceHas'
  BY <1>36 DEF MonitorAnswers, threads, elems, monitor, DeviceHas, Has, Gained, Lost, Answered, Accepted
<1>. QED
  BY <1>1, <1>2, <1>3, <1>4, <1>5, <1>6, <1>7, <1>8, <1>9, <1>10, <1>11, <1>12, <1>13,
     <1>14, <1>15, <1>16, <1>17, <1>18, <1>19, <1>20, <1>21, <1>22, <1>23, <1>24, <1>25,
     <1>26, <1>27, <1>28, <1>29, <1>30, <1>31, <1>32, <1>33, <1>34, <1>35, <1>36
     DEF Next, Begin, Step, Device

\* Initially nothing is listed, used or allocated.
LEMMA ListsInitially ==
    ASSUME Init
    PROVE  LInv
<1>1. \A l \in Lists : InList(l) = {}
  BY ReachedFromNone DEF Init, InList
<1>2. Owned /\ DevicesOpen
  BY DEF Init, Owned, DevicesOpen, OnOpenDevice, NoCall, MonitorOps
<1>3. ListsSound
  <2>1. ListsStraight
    BY ReachedFromNone DEF Init, ListsStraight, Straight
  <2>. QED
    BY <1>1, <2>1 DEF Init, ListsSound, ListsHold, AllocatedListed
<1>4. GraphsFresh /\ CallsOnElements
  BY NoneIsNothing DEF Init, GraphsFresh, CallsOnElements, OnElement, NoCall, MonitorOps
<1>5. DeviceHas
  BY NoneIsNothing DEF Init, DeviceHas, Has, NoCall
<1>. QED
  BY <1>2, <1>3, <1>4, <1>5 DEF LInv, ListsSound

\* Every step keeps the lists true when the application and the device are careful.
LEMMA ListsInductive ==
    ASSUME Careful, IInv, LInv, [Next]_vars
    PROVE  LInv'
<1>1. CASE Next
  <2>1. CallsServed
    BY DEF IInv, Monitored, Careful, Loses, CallsServed
  <2>2. TypeOK /\ CallsFit /\ Exclusive /\ Owned /\ DevicesOpen /\ ListsSound /\ GraphsFresh
        /\ CallsOnElements /\ DeviceHas
    BY DEF IInv, LInv, ListsSound
  <2>3. Owned'
    BY <1>1, <2>2, OwnedStep
  <2>4. DevicesOpen'
    BY <1>1, <2>2, DevicesStep
  <2>5. ListsSound' /\ GraphsFresh'
    BY <1>1, <2>2, ListsStep
  <2>6. CallsOnElements'
    BY <1>1, <2>1, <2>2, CallsStep
  <2>7. DeviceHas'
    BY <1>1, <2>1, <2>2, <2>3, HasStep
  <2>. QED
    BY <2>3, <2>4, <2>5, <2>6, <2>7 DEF LInv, ListsSound
<1>2. CASE UNCHANGED vars
  <2>1. /\ devices' = devices /\ devState' = devState /\ state' = state
        /\ dev' = dev /\ head' = head /\ next' = next /\ pc' = pc /\ arg' = arg
        /\ responses' = responses /\ onDevice' = onDevice
    BY <1>2 DEF vars, handles, lists, elems, threads, monitor
  <2>2. Owned' /\ DevicesOpen'
    BY <2>1 DEF LInv, Owned, DevicesOpen, OnOpenDevice, Opening
  <2>3. ListsStraight' /\ ListsHold' /\ AllocatedListed' /\ GraphsFresh'
    BY <2>1 DEF LInv, ListsStraight, ListsHold, InPlace, AllocatedListed, GraphsFresh, InList
  <2>4. CallsOnElements'
    BY <2>1 DEF LInv, CallsOnElements, OnElement, Listed, InList
  <2>5. DeviceHas'
    BY <2>1 DEF LInv, DeviceHas, Has, Gained, Lost, Answered, Accepted
  <2>. QED
    BY <2>2, <2>3, <2>4, <2>5 DEF LInv
<1>. QED
  BY <1>1, <1>2

\* The invariant says that the lists lead to what is alive, and the device has what
\* they lead to.
LEMMA ListsThenTrue ==
    ASSUME IInv, LInv
    PROVE  ListsTrue
<1>1. ListsAlive
  <2>1. ASSUME NEW d \in devices
        PROVE  devState[d] # "none"
    BY DEF LInv, DevicesOpen, Opening, IInv, CallsFit
  <2>2. ASSUME NEW l \in Lists, NEW e \in InList(l)
        PROVE  state[e] # "none"
    BY DEF LInv, ListsHold, InPlace
  <2>. QED
    BY <2>1, <2>2 DEF ListsAlive
<1>2. HostAgrees
  <2> SUFFICES ASSUME NEW e \in Elements, Unused(e)
               PROVE  /\ state[e] = "ALLOCATED" <=> \E d \in Devices : e \in onDevice[d]
                      /\ state[e] = "ALLOCATED" => e \in InList(List(dev[e], e)) /\ e \in onDevice[dev[e]]
    BY DEF HostAgrees
  <2>1. \A t \in Threads : arg[t].e # e
    BY DEF Unused
  <2>2. \A d \in Devices : e \in onDevice[d] <=> state[e] = "ALLOCATED" /\ dev[e] = d
    BY <2>1 DEF LInv, DeviceHas, Has
  <2>3. state[e] = "ALLOCATED" => dev[e] \in Devices /\ e \in InList(List(dev[e], e))
    BY DEF LInv, AllocatedListed
  <2>. QED
    BY <2>2, <2>3
<1>. QED
  BY <1>1, <1>2 DEF ListsTrue

-----------------------------------------------------------------------------
(* Theorems *)
\* The calls fit where their threads are, a device that is opened, closed or freed
\* has no other call, the monitor's streams hold what the call with its mutex asked
\* for, and a call has the mutexes its place allows (the handlers of mvnc_api.c).
THEOREM DeviceInvariant == Spec => []IInv
<1>1. Init => IInv
  BY Initially
<1>2. IInv /\ [Next]_vars => IInv'
  BY Inductive
<1>. QED
  BY <1>1, <1>2, PTL DEF Spec

\* Every variable keeps its type.
THEOREM TypeCorrect == Spec => []TypeOK
<1>1. IInv => TypeOK
  BY DEF IInv
<1>. QED
  BY <1>1, DeviceInvariant, PTL

\* Requests and responses on a graph monitor's stream are those of the call that
\* has the monitor's mutex (genericGraphMonitor and the calls that lock
\* d->graph_streamm): no call reads the response to another's request, unless
\* ncGraphGetOption gives up after the first of two responses.
THEOREM ResponsesInStep ==
    ASSUME Faults \cap Leaves = {}
    PROVE  Spec => []MonitorInStep
<1>1. IInv => MonitorInStep
  BY InStepThen DEF IInv, Monitored
<1>. QED
  BY <1>1, DeviceInvariant, PTL

\* A thread that is in no call has no mutex (globalMutex, d->dev_data_m,
\* d->dev_stream_m, d->graph_streamm): none is left locked by an early return,
\* unless one of the returns that forget it is taken (Leaks) or a response is left
\* behind (Leaves).
THEOREM NoLockForgotten ==
    ASSUME Faults \cap (Leaves \cup Leaks) = {}
    PROVE  Spec => []LocksReleased
<1>1. IInv => LocksReleased
  BY DEF IInv, Locked, HeldInCalls, Holds, HasMonitor, LocksReleased
<1>. QED
  BY <1>1, DeviceInvariant, PTL

\* The lists of devices, graphs and fifos lead to nothing that has been freed
\* (deallocateGraph, deallocateFifo, ncDeviceClose, ncDeviceDestroy), and outside of
\* calls they lead to exactly what the device has allocated: nothing can be lost to
\* the application. The lists have no mutex of their own where fifos are allocated,
\* so graphs and fifos have one thread each; no fifo that was refused is destroyed;
\* and none of the returns is taken that lose what the device has (Loses).
THEOREM ListsLeadTrue ==
    ASSUME Careful
    PROVE  Spec => []ListsTrue
<1>1. Init => IInv /\ LInv
  BY Initially, ListsInitially
<1>2. (IInv /\ LInv) /\ [Next]_vars => (IInv /\ LInv)'
  BY Inductive, ListsInductive
<1>3. IInv /\ LInv => ListsTrue
  BY ListsThenTrue
<1>. QED
  BY <1>1, <1>2, <1>3, PTL DEF Spec
=============================================================================
