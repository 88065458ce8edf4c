------------------------------ MODULE NcDevice ------------------------------
(***************************************************************************)
(* Devices, and the graphs and fifos allocated on them, as the threads of  *)
(* an application create, use and destroy them (api/src/mvnc_api.c).       *)
(*                                                                         *)
(* The host keeps a list of open devices, under globalMutex, and for each  *)
(* device a list of graphs and a list of fifos.  Commands to a device go   *)
(* over two streams: the graph monitor, under graph_streamm, answers each  *)
(* request in turn; the device monitor, under dev_stream_m, answers the    *)
(* queries of ncDeviceGetOption.  A call is cut where it waits, for a      *)
(* mutex or for the device, and where it writes a list that other threads  *)
(* can reach; what it does between is one action.                          *)
(*                                                                         *)
(* The application keeps to the documentation as far as one thread can: a  *)
(* handle is used by one call at a time and in the state the call asks     *)
(* for, and a device is closed when no call is under way on it.            *)
(***************************************************************************)
EXTENDS Naturals, Sequences, FiniteSets

CONSTANTS
    Threads,         \* application threads
    Devices, Graphs, Fifos,
    Uses,            \* the handles each thread makes calls with
    Faults,          \* what may fail, see Outcome
    DestroyRefused,  \* whether the application destroys a fifo that could not be allocated
    None             \* NULL, and no thread

ASSUME NcDeviceAssumption ==
    /\ Uses \in [Threads -> SUBSET (Devices \cup Graphs \cup Fifos)]
    /\ Graphs \cap Fifos = {}
    /\ DestroyRefused \in BOOLEAN
    /\ None \notin Threads \cup Devices \cup Graphs \cup Fifos

VARIABLES
    mutex,       \* the thread that holds each mutex, or None
    devices,     \* the device handles in the list `devices'
    devState,    \* state of each device handle; "none" before create and after destroy
    usb,         \* what is plugged in: boot ROM, booting, booted (perhaps renamed), resetting
    state, dev,  \* state of each graph and fifo, and its device
    head, next,  \* d->graphs and d->fifos, and g->next and f->next
    pc, arg,     \* where each thread is, and the call it makes
    requests, responses,   \* on the stream of the graph monitor, oldest first
    asked, unread, held,   \* queries, answers and answers in use, device monitor
    onDevice     \* the graphs and fifos the device has allocated

locks   == <<mutex>>
handles == <<devices, devState, usb>>
lists   == <<head, next>>
elems   == <<state, dev>>
threads == <<pc, arg>>
monitor == <<requests, responses, onDevice>>
options == <<asked, unread, held>>
vars == <<locks, handles, lists, elems, threads, monitor, options>>

Elements == Graphs \cup Fifos
List(d, e) == <<d, IF e \in Graphs THEN "graphs" ELSE "fifos">>
Lists == Devices \X {"graphs", "fifos"}

\* globalMutex and the three mutexes of a device.
Global     == <<None, "globalMutex">>
Data(d)    == <<d, "dev_data_m">>
Stream(d)  == <<d, "dev_stream_m">>
Monitor(d) == <<d, "graph_streamm">>
DeviceMutexes(d) == {Data(d), Stream(d), Monitor(d)}
Mutexes == {Global} \cup UNION {DeviceMutexes(d) : d \in Devices}

Ops == {"deviceOpen", "deviceClose", "deviceDestroy", "deviceGetOption",
        "graphAllocate", "graphDestroy", "graphGetOption", "fifoAllocate", "fifoDestroy"}
NoCall == [op |-> "none", d |-> None, e |-> None]
Calls == [op : Ops, d : Devices, e : Elements \cup {None}] \cup {NoCall}
Messages == [op : Ops, to : Threads, e : Elements]

\* Types of the variables.
TypeOK ==
    /\ mutex \in [Mutexes -> Threads \cup {None}]
    /\ devices \subseteq Devices
    /\ devState \in [Devices -> {"none", "CREATED", "OPENED", "CLOSED"}]
    /\ usb \in [Devices -> {"rom", "booting", "booted", "renamed", "resetting"}]
    /\ state \in [Elements -> {"none", "CREATED", "ALLOCATED"}]
    /\ dev \in [Elements -> Devices \cup {None}]
    /\ head \in [Lists -> Elements \cup {None}]
    /\ next \in [Elements -> Elements \cup {None}]
    /\ pc \in [Threads -> {"idle", "connect", "scan", "streams", "close", "free", "check",
                           "ask", "answer", "copy", "send", "response", "find", "link",
                           "write", "stream", "unlink", "stuck"}]
    /\ arg \in [Threads -> Calls]
    /\ requests \in [Devices -> Seq(Messages)]
    /\ responses \in [Devices -> Seq([msg : Messages, ok : BOOLEAN])]
    /\ asked \in [Devices -> Seq(Threads)] /\ unread \in [Devices -> Seq(Threads)]
    /\ held \in [Devices -> Seq(Threads)]
    /\ onDevice \in [Devices -> SUBSET Elements]

Init ==
    /\ mutex = [m \in Mutexes |-> None]
    /\ devices = {}
    /\ devState = [d \in Devices |-> "none"]
    /\ usb = [d \in Devices |-> "rom"]
    /\ state = [e \in Elements |-> "none"] /\ dev = [e \in Elements |-> None]
    /\ head = [l \in Lists |-> None] /\ next = [e \in Elements |-> None]
    /\ pc = [t \in Threads |-> "idle"] /\ arg = [t \in Threads |-> NoCall]
    /\ requests = [d \in Devices |-> <<>>] /\ responses = [d \in Devices |-> <<>>]
    /\ asked = [d \in Devices |-> <<>>] /\ unread = [d \in Devices |-> <<>>]
    /\ held = [d \in Devices |-> <<>>]
    /\ onDevice = [d \in Devices |-> {}]

-----------------------------------------------------------------------------
(* Mutexes, the progress of a call, lists.                                  *)

IsFree(m) == mutex[m] = None
Lock(t, m) == IsFree(m) /\ mutex' = [mutex EXCEPT ![m] = t]
Unlock(m) == mutex' = [mutex EXCEPT ![m] = None]

\* Whether a step that can fail does.
Outcome(fault) == IF fault \in Faults THEN BOOLEAN ELSE {FALSE}

\* No call uses the handle.
Unused(h) == \A t \in Threads : h \notin {arg[t].d, arg[t].e}
Quiet(t, h) == pc[t] = "idle" /\ h \in Uses[t] /\ Unused(h)

\* The device is open for calls.
Usable(d) == /\ devState[d] = "OPENED" /\ d \in devices
             /\ \A t \in Threads : arg[t].d = d => arg[t].op \notin {"deviceClose", "deviceDestroy"}

Call(t, op, d, e, label) ==
    /\ pc' = [pc EXCEPT ![t] = label]
    /\ arg' = [arg EXCEPT ![t] = [op |-> op, d |-> d, e |-> e]]
At(t, label, op) == pc[t] = label /\ arg[t].op = op
Goto(t, label) == pc' = [pc EXCEPT ![t] = label] /\ UNCHANGED arg
Return(t) == pc' = [pc EXCEPT ![t] = "idle"] /\ arg' = [arg EXCEPT ![t] = NoCall]

\* What can be reached from the head of a list: it is in every set that has the
\* head and that no next leads out of.
ClosedUnder(succ, S) == \A p \in S : succ[p] \in S \cup {None}
Reached(first, succ) ==
    {e \in Elements : \A S \in SUBSET Elements :
                          first \in S \cup {None} /\ ClosedUnder(succ, S) => e \in S}
InList(l) == Reached(head[l], next)
Listed(e) == \E l \in Lists : e \in InList(l)

\* MUTANT of Unlink: only the head of the list is looked at.
UnlinkHead(l, e) ==
    head' = (IF head[l] = e THEN [head EXCEPT ![l] = next[e]] ELSE head) /\ UNCHANGED next

\* The head or the predecessor of e takes over its successor; nothing changes
\* when e is not found.
Unlink(l, e) ==
    /\ head' = IF head[l] = e THEN [head EXCEPT ![l] = next[e]] ELSE head
    /\ next' = [p \in Elements |->
                   IF head[l] # e /\ p \in InList(l) /\ next[p] = e THEN next[e] ELSE next[p]]

-----------------------------------------------------------------------------
(* Devices.                                                                 *)

ncDeviceCreate(t, d) ==
    /\ Quiet(t, d) /\ IsFree(Global)
    /\ devState[d] = "none" /\ usb[d] = "rom"
    /\ devState' = [devState EXCEPT ![d] = "CREATED"]
    /\ UNCHANGED <<locks, devices, usb, lists, elems, threads, monitor, options>>

\* XLinkBootRemote, with globalMutex held until the device is connected.
ncDeviceOpen(t, d) ==
    /\ Quiet(t, d) /\ devState[d] = "CREATED" /\ d \notin devices
    /\ usb[d] = "rom"
    /\ \E fails \in Outcome("boot") :
          IF fails
          THEN IsFree(Global) /\ UNCHANGED <<mutex, usb, threads>>
          ELSE /\ Lock(t, Global)
               /\ usb' = [usb EXCEPT ![d] = "booting"]
               /\ Call(t, "deviceOpen", d, None, "connect")
    /\ UNCHANGED <<devices, devState, lists, elems, monitor, options>>

\* The list of devices takes the device, and its mutexes are initialized.
Linked(d) ==
    /\ devices' = devices \cup {d}
    /\ mutex' = [m \in Mutexes |-> IF m \in DeviceMutexes(d) \cup {Global} THEN None ELSE mutex[m]]

XLinkConnect(t) ==
    LET d == arg[t].d IN
    /\ pc[t] = "connect" /\ usb[d] \in {"booted", "renamed"}
    /\ IF usb[d] = "booted"
       THEN Linked(d) /\ Goto(t, "streams")
       ELSE Goto(t, "scan") /\ UNCHANGED <<mutex, devices>>
    /\ UNCHANGED <<devState, usb, lists, elems, monitor, options>>

\* The device has come back under another name: the first booted device is
\* tried again and again while it is one that is open.  When none is found,
\* the call returns as it is.
ScanBootDevices(t) ==
    LET d == arg[t].d IN
    /\ pc[t] = "scan"
    /\ {x \in devices : usb[x] \in {"booted", "renamed"}} = {}
    /\ \E late \in Outcome("late") :
          IF late
          THEN Return(t) /\ UNCHANGED <<mutex, devices>>
          ELSE Linked(d) /\ Goto(t, "streams")
    /\ UNCHANGED <<devState, usb, lists, elems, monitor, options>>

\* XLinkOpenStream of deviceMonitor; getDevAttributes then asks the device.
OpenDeviceMonitor(t) ==
    /\ pc[t] = "streams"
    /\ \E fails \in Outcome("monitorStream") : IF fails THEN Return(t) ELSE Goto(t, "ask")
    /\ UNCHANGED <<locks, handles, lists, elems, monitor, options>>

ncDeviceClose(t, d, op) ==
    /\ Quiet(t, d) /\ devState[d] = "OPENED" /\ d \in devices
    /\ Lock(t, Global)
    /\ devices' = devices \ {d}
    /\ Call(t, op, d, None, "close")
    /\ UNCHANGED <<devState, usb, lists, elems, monitor, options>>

\* deallocateGraph and deallocateFifo of all that is left, XLinkResetRemote,
\* and the mutexes are destroyed, dev_data_m while it is held.
DeallocateAll(t) ==
    LET d == arg[t].d
        left == UNION {InList(<<d, k>>) : k \in {"graphs", "fifos"}}
    IN
    /\ pc[t] = "close" /\ IsFree(Data(d))
    /\ head' = [l \in Lists |-> IF l[1] = d THEN None ELSE head[l]]
    /\ state' = [e \in Elements |->
                    IF e \in left /\ (e \in Graphs \/ state[e] = "ALLOCATED") THEN "none" ELSE state[e]]
    /\ dev' = [e \in Elements |-> IF e \in left THEN None ELSE dev[e]]
    /\ usb' = [usb EXCEPT ![d] = "resetting"]
    /\ onDevice' = [onDevice EXCEPT ![d] = {}]
    /\ requests' = [requests EXCEPT ![d] = <<>>] /\ responses' = [responses EXCEPT ![d] = <<>>]
    /\ asked' = [asked EXCEPT ![d] = <<>>] /\ unread' = [unread EXCEPT ![d] = <<>>]
    /\ held' = [held EXCEPT ![d] = <<>>]
    /\ mutex' = [m \in Mutexes |-> IF m \in DeviceMutexes(d) \cup {Global} THEN None ELSE mutex[m]]
    /\ devState' = [devState EXCEPT ![d] = "CLOSED"]
    /\ IF arg[t].op = "deviceDestroy" THEN Goto(t, "free") ELSE Return(t)
    /\ UNCHANGED <<devices, next>>

ncDeviceDestroy(t, d) ==
    /\ Quiet(t, d) /\ devState[d] \in {"CREATED", "CLOSED"}
    /\ Call(t, "deviceDestroy", d, None, "free")
    /\ UNCHANGED <<locks, handles, lists, elems, monitor, options>>

FreeDevice(t) ==
    /\ pc[t] = "free" /\ IsFree(Global)
    /\ devState' = [devState EXCEPT ![arg[t].d] = "none"]
    /\ Return(t)
    /\ UNCHANGED <<locks, devices, usb, lists, elems, monitor, options>>

-----------------------------------------------------------------------------
(* Queries: ncDeviceGetOption, and what other calls ask on the way.         *)

ncDeviceGetOption(t, d) ==
    /\ pc[t] = "idle" /\ d \in Uses[t] /\ Usable(d)
    /\ Call(t, "deviceGetOption", d, None, "check")
    /\ UNCHANGED <<locks, handles, lists, elems, monitor, options>>

\* The state of the device and the list are checked under globalMutex.
CheckDevice(t) ==
    /\ pc[t] = "check" /\ IsFree(Global)
    /\ devState[arg[t].d] = "OPENED" /\ arg[t].d \in devices
    /\ Goto(t, "ask")
    /\ UNCHANGED <<locks, handles, lists, elems, monitor, options>>

AskDevice(t) ==
    LET d == arg[t].d IN
    /\ pc[t] = "ask" /\ Lock(t, Stream(d))
    /\ asked' = [asked EXCEPT ![d] = Append(@, t)]
    /\ Goto(t, "answer")
    /\ UNCHANGED <<handles, lists, elems, monitor, unread, held>>

\* XLinkReadData takes the oldest answer that no thread has taken.
ReadAnswer(t) ==
    LET d == arg[t].d IN
    /\ pc[t] = "answer" /\ unread[d] # <<>>
    /\ held' = [held EXCEPT ![d] = Append(@, Head(unread[d]))]
    /\ unread' = [unread EXCEPT ![d] = Tail(@)]
    /\ Unlock(Stream(d))
    /\ Goto(t, "copy")
    /\ UNCHANGED <<handles, lists, elems, monitor, asked>>

\* memcpy, with no mutex, and XLinkReleaseData, which frees the oldest answer
\* that has been taken. An open device has then the streams it needs; a graph
\* that was not accepted gives up the monitor.
CopyAnswer(t) ==
    LET d == arg[t].d IN
    /\ pc[t] = "copy"
    /\ held' = [held EXCEPT ![d] = IF @ = <<>> THEN @ ELSE Tail(@)]
    /\ devState' = IF arg[t].op = "deviceOpen" THEN [devState EXCEPT ![d] = "OPENED"] ELSE devState
    /\ IF arg[t].op = "graphAllocate" THEN Unlock(Monitor(d)) ELSE UNCHANGED mutex
    /\ Return(t)
    /\ UNCHANGED <<devices, usb, lists, elems, monitor, asked, unread>>

-----------------------------------------------------------------------------
(* Graphs and fifos.                                                        *)

\* ncGraphCreate and ncFifoCreate.
Create(t, e) ==
    /\ Quiet(t, e) /\ state[e] = "none"
    /\ state' = [state EXCEPT ![e] = "CREATED"]
    /\ dev' = [dev EXCEPT ![e] = None]
    /\ next' = [next EXCEPT ![e] = None]
    /\ UNCHANGED <<locks, handles, head, threads, monitor, options>>

\* The beginnings of ncGraphDestroy and ncFifoDestroy: what has not been
\* allocated is freed at once.
DestroyCreated(t, e) ==
    /\ Quiet(t, e) /\ state[e] = "CREATED"
    /\ Listed(e) => DestroyRefused
    /\ state' = [state EXCEPT ![e] = "none"]
    /\ UNCHANGED <<locks, handles, lists, dev, threads, monitor, options>>

\* The device is looked up under globalMutex, and the stream of the graph opened.
ncGraphAllocate(t, g, d) ==
    /\ Quiet(t, g) /\ state[g] = "CREATED" /\ Usable(d) /\ IsFree(Global)
    /\ \E fails \in Outcome("graphStream") :
          IF fails THEN UNCHANGED threads ELSE Call(t, "graphAllocate", d, g, "send")
    /\ UNCHANGED <<locks, handles, lists, elems, monitor, options>>

\* findGraph, under globalMutex.
ncGraphDestroy(t, g) ==
    /\ Quiet(t, g) /\ state[g] = "ALLOCATED" /\ Usable(dev[g])
    /\ IsFree(Global) /\ Listed(g)
    /\ Call(t, "graphDestroy", dev[g], g, "send")
    /\ UNCHANGED <<locks, handles, lists, elems, monitor, options>>

\* The options that the graph itself has to be asked for.
ncGraphGetOption(t, g) ==
    /\ Quiet(t, g) /\ state[g] = "ALLOCATED" /\ Usable(dev[g])
    /\ IsFree(Global)
    /\ Call(t, "graphGetOption", dev[g], g, "send")
    /\ UNCHANGED <<locks, handles, lists, elems, monitor, options>>

\* The device is looked up; the fifo is put in front of its list without a
\* lock, in two steps.
ncFifoAllocate(t, f, d) ==
    /\ Quiet(t, f) /\ state[f] = "CREATED" /\ Usable(d) /\ IsFree(Global)
    /\ ~Listed(f)
    /\ dev' = [dev EXCEPT ![f] = d]
    /\ next' = [next EXCEPT ![f] = head[List(d, f)]]
    /\ Call(t, "fifoAllocate", d, f, "write")
    /\ UNCHANGED <<locks, handles, head, state, monitor, options>>

\* findFifo, and the message that stops the thread of an input fifo.
ncFifoDestroy(t, f) ==
    /\ Quiet(t, f) /\ state[f] = "ALLOCATED" /\ Usable(dev[f])
    /\ Listed(f)
    /\ Call(t, "fifoDestroy", dev[f], f, "send")
    /\ UNCHANGED <<locks, handles, lists, elems, monitor, options>>

\* MUTANT of sendGraphMonitorRequest: the id of the graph or fifo is not set.
SendWithoutId(t) ==
    LET d == arg[t].d IN
    /\ pc[t] = "send" /\ Lock(t, Monitor(d)) /\ Goto(t, "response")
    /\ requests' = [requests EXCEPT ![d] = Append(@, [op |-> arg[t].op, to |-> t, e |-> None])]
    /\ UNCHANGED <<handles, lists, elems, responses, onDevice, options>>

\* sendGraphMonitorRequest, and for a graph the data on its own stream. The
\* mutex is kept for the response; a failing send to allocate a graph locks
\* the mutex once more.
sendGraphMonitorRequest(t) ==
    LET d == arg[t].d
        op == arg[t].op
    IN
    /\ pc[t] = "send" /\ IsFree(Monitor(d))
    /\ \E fails \in IF op \in {"fifoAllocate", "fifoDestroy"} THEN Outcome("fifoSend")
                    ELSE IF op = "graphAllocate" THEN Outcome("graphSend") ELSE {FALSE} :
          IF ~fails
          THEN /\ Lock(t, Monitor(d)) /\ Goto(t, "response")
               /\ requests' = [requests EXCEPT ![d] = Append(@, [op |-> op, to |-> t, e |-> arg[t].e])]
          ELSE IF op = "graphAllocate"
          THEN Lock(t, Monitor(d)) /\ Goto(t, "stuck") /\ UNCHANGED requests
          ELSE Return(t) /\ UNCHANGED <<mutex, requests>>
    /\ UNCHANGED <<handles, lists, elems, responses, onDevice, options>>

\* checkGraphMonitorResponse takes the oldest response.
Response(t, op) ==
    /\ At(t, "response", op) /\ responses[arg[t].d] # <<>>
    /\ responses' = [responses EXCEPT ![arg[t].d] = Tail(@)]
    /\ UNCHANGED <<handles, requests, onDevice, options>>
Accepted(t) == Head(responses[arg[t].d]).ok

\* Status, descriptors and response of the device. A graph that is not
\* accepted makes the call ask for the memory left, with the monitor locked;
\* descriptors that are no good make it return at once.
GraphAllocated(t) ==
    /\ Response(t, "graphAllocate")
    /\ \E invalid \in Outcome("graphInvalid") :
          IF ~Accepted(t) THEN Goto(t, "check") /\ UNCHANGED mutex
          ELSE IF invalid THEN Return(t) /\ UNCHANGED mutex
          ELSE Goto(t, "link") /\ Unlock(Monitor(arg[t].d))
    /\ UNCHANGED <<lists, elems>>

\* A device of old firmware refuses the format of the graph file.
GraphUnsupported(t) ==
    /\ Response(t, "graphAllocate") /\ ~Accepted(t)
    /\ Unlock(Monitor(arg[t].d)) /\ Return(t)
    /\ UNCHANGED <<lists, elems>>

\* The graph is put in front of the list under globalMutex, in two steps for
\* who unlinks under dev_data_m.
LinkGraph(t) ==
    LET g == arg[t].e
        first == head[List(arg[t].d, g)]
    IN
    /\ pc[t] = "link" /\ Lock(t, Global)
    /\ dev' = [dev EXCEPT ![g] = arg[t].d]
    /\ next' = IF first # None THEN [next EXCEPT ![g] = first] ELSE next
    /\ Goto(t, "write")
    /\ UNCHANGED <<handles, state, head, monitor, options>>

WriteHead(t) ==
    LET e == arg[t].e IN
    /\ pc[t] = "write"
    /\ head' = [head EXCEPT ![List(arg[t].d, e)] = e]
    /\ IF e \in Graphs
       THEN Unlock(Global) /\ state' = [state EXCEPT ![e] = "ALLOCATED"] /\ Return(t)
       ELSE Goto(t, "stream") /\ UNCHANGED <<mutex, state>>
    /\ UNCHANGED <<handles, dev, next, monitor, options>>

OpenFifoStream(t) ==
    /\ pc[t] = "stream"
    /\ \E fails \in Outcome("fifoStream") : IF fails THEN Return(t) ELSE Goto(t, "send")
    /\ UNCHANGED <<locks, handles, lists, elems, monitor, options>>

\* MUTANT of FifoAllocated: the mutex is forgotten when the device refuses.
ForgetToUnlock(t) ==
    /\ Response(t, "fifoAllocate")
    /\ IF Accepted(t)
       THEN Unlock(Monitor(arg[t].d)) /\ state' = [state EXCEPT ![arg[t].e] = "ALLOCATED"]
       ELSE UNCHANGED <<mutex, state>>
    /\ Return(t)
    /\ UNCHANGED <<lists, dev>>

\* A fifo that is refused stays in the list.
FifoAllocated(t) ==
    /\ Response(t, "fifoAllocate")
    /\ state' = IF Accepted(t) THEN [state EXCEPT ![arg[t].e] = "ALLOCATED"] ELSE state
    /\ Unlock(Monitor(arg[t].d)) /\ Return(t)
    /\ UNCHANGED <<lists, dev>>

\* A graph that the device does not give up makes the call return at once.
GraphDeallocated(t) ==
    /\ Response(t, "graphDestroy")
    /\ IF Accepted(t) THEN Unlock(Monitor(arg[t].d)) /\ Goto(t, "unlink")
       ELSE Return(t) /\ UNCHANGED mutex
    /\ UNCHANGED <<lists, elems>>

\* MUTANT of FifoDeallocated: the mutex is kept until the list has been changed,
\* and after it.
KeepMonitor(t) ==
    /\ Response(t, "fifoDestroy")
    /\ Goto(t, "unlink")
    /\ UNCHANGED <<mutex, lists, elems>>

FifoDeallocated(t) ==
    /\ Response(t, "fifoDestroy")
    /\ Unlock(Monitor(arg[t].d))
    /\ IF Accepted(t) THEN Goto(t, "unlink") ELSE Return(t)
    /\ UNCHANGED <<lists, elems>>

\* MUTANT of GraphOption: the response that follows the value is left.
LeaveResponse(t) ==
    /\ Response(t, "graphGetOption")
    /\ Unlock(Monitor(arg[t].d)) /\ Return(t)
    /\ UNCHANGED <<lists, elems>>

\* The value and the response that follows it; a value of the wrong size
\* leaves the response behind.
GraphOption(t) ==
    LET d == arg[t].d IN
    /\ At(t, "response", "graphGetOption") /\ Len(responses[d]) >= 2
    /\ \E wrong \in Outcome("length") :
          responses' = [responses EXCEPT ![d] = IF wrong THEN Tail(@) ELSE Tail(Tail(@))]
    /\ Unlock(Monitor(d)) /\ Return(t)
    /\ UNCHANGED <<handles, lists, elems, requests, onDevice, options>>

\* deallocateGraph and deallocateFifo under dev_data_m, and the handle is freed.
Deallocate(t) ==
    LET e == arg[t].e IN
    /\ pc[t] = "unlink" /\ IsFree(Data(arg[t].d))
    /\ Unlink(List(arg[t].d, e), e)
    /\ state' = [state EXCEPT ![e] = "none"] /\ dev' = [dev EXCEPT ![e] = None]
    /\ Return(t)
    /\ UNCHANGED <<locks, handles, monitor, options>>

-----------------------------------------------------------------------------
(* The device.                                                              *)

\* It comes back from its boot, under the same name or another, and from a reset.
Boots(d) ==
    /\ usb[d] = "booting"
    /\ \E s \in {"booted", "renamed"} : usb' = [usb EXCEPT ![d] = s]
    /\ UNCHANGED <<locks, devices, devState, lists, elems, threads, monitor, options>>

ReEnumerates(d) ==
    /\ usb[d] = "resetting"
    /\ usb' = [usb EXCEPT ![d] = "rom"]
    /\ UNCHANGED <<locks, devices, devState, lists, elems, threads, monitor, options>>

\* Its graph monitor executes one request after the other. A graph's option is
\* answered by the value and a response.
Refuses(op) ==
    Outcome(CASE op = "graphAllocate" -> "graphNack" [] op = "graphDestroy" -> "graphDestroyNack"
            [] op = "fifoAllocate" -> "fifoNack"     [] op = "fifoDestroy" -> "fifoDestroyNack"
            [] OTHER -> "none")
MonitorExecutes(d) ==
    LET r == Head(requests[d]) IN
    /\ requests[d] # <<>>
    /\ requests' = [requests EXCEPT ![d] = Tail(@)]
    /\ \E no \in Refuses(r.op) :
          LET answer == [msg |-> r, ok |-> ~no] IN
          /\ responses' = [responses EXCEPT ![d] =
                 @ \o (IF r.op = "graphGetOption" THEN <<answer, answer>> ELSE <<answer>>)]
          /\ onDevice' = [onDevice EXCEPT ![d] =
                 IF no THEN @
                 ELSE IF r.op \in {"graphAllocate", "fifoAllocate"} THEN @ \cup {r.e}
                 ELSE IF r.op \in {"graphDestroy", "fifoDestroy"} THEN @ \ {r.e} ELSE @]
    /\ UNCHANGED <<locks, handles, lists, elems, threads, options>>

MonitorAnswers(d) ==
    /\ asked[d] # <<>>
    /\ asked' = [asked EXCEPT ![d] = Tail(@)]
    /\ unread' = [unread EXCEPT ![d] = Append(@, Head(asked[d]))]
    /\ UNCHANGED <<locks, handles, lists, elems, threads, monitor, held>>

-----------------------------------------------------------------------------
\* The application may begin a call.
Begin(t) ==
    \/ \E d \in Devices :
          \/ ncDeviceCreate(t, d) \/ ncDeviceOpen(t, d) \/ ncDeviceDestroy(t, d)
          \/ \E op \in {"deviceClose", "deviceDestroy"} : ncDeviceClose(t, d, op)
          \/ ncDeviceGetOption(t, d)
    \/ \E e \in Elements : Create(t, e) \/ DestroyCreated(t, e)
    \/ \E g \in Graphs : ncGraphDestroy(t, g) \/ ncGraphGetOption(t, g)
                         \/ \E d \in Devices : ncGraphAllocate(t, g, d)
    \/ \E f \in Fifos : ncFifoDestroy(t, f) \/ \E d \in Devices : ncFifoAllocate(t, f, d)

\* A call goes on.
Step(t) ==
    \/ XLinkConnect(t) \/ ScanBootDevices(t) \/ OpenDeviceMonitor(t)
    \/ DeallocateAll(t) \/ FreeDevice(t)
    \/ CheckDevice(t) \/ AskDevice(t) \/ ReadAnswer(t) \/ CopyAnswer(t)
    \/ sendGraphMonitorRequest(t)
    \/ GraphAllocated(t) \/ GraphUnsupported(t) \/ LinkGraph(t) \/ WriteHead(t)
    \/ OpenFifoStream(t) \/ FifoAllocated(t)
    \/ GraphDeallocated(t) \/ FifoDeallocated(t) \/ GraphOption(t) \/ Deallocate(t)

Device(d) == Boots(d) \/ ReEnumerates(d) \/ MonitorExecutes(d) \/ MonitorAnswers(d)

Next == (\E t \in Threads : Begin(t) \/ Step(t)) \/ (\E d \in Devices : Device(d))

Spec == Init /\ [][Next]_vars

\* A call that has begun goes on, and a thread that waits for a mutex which is
\* free again and again gets it; the device comes back and answers.
FairSpec == /\ Spec
            /\ \A t \in Threads : SF_vars(Step(t))
            /\ \A d \in Devices : /\ WF_vars(Boots(d))           /\ WF_vars(ReEnumerates(d))
                                 /\ WF_vars(MonitorExecutes(d)) /\ WF_vars(MonitorAnswers(d))

-----------------------------------------------------------------------------
(* Properties.                                                              *)

\* Every mutex is held by a call that is under way, whatever the device
\* refuses: no return forgets to unlock (ncGraphAllocate, ncFifoDestroy).
LocksReleased == \A m \in Mutexes, t \in Threads : mutex[m] = t => pc[t] # "idle"

\* A response on the graph monitor's stream belongs to the thread that holds
\* its mutex, and none is left behind when the mutex is free.
MonitorInStep ==
    \A d \in Devices :
        /\ \A i \in DOMAIN requests[d] : requests[d][i].to = mutex[Monitor(d)]
        /\ \A i \in DOMAIN responses[d] : responses[d][i].msg.to = mutex[Monitor(d)]

\* What can be reached from an open device has not been freed, and neither has
\* the device (deallocateGraph, deallocateFifo, ncDeviceDestroy).
ListsAlive ==
    \A d \in devices : /\ devState[d] # "none"
                       /\ \A l \in Lists : l[1] = d => \A e \in InList(l) : state[e] # "none"

\* What no call is working on is allocated on the host exactly when the device
\* has it, and is then in the list through which it can be destroyed.
HostAgrees ==
    \A e \in Elements : Unused(e) =>
        /\ state[e] = "ALLOCATED" <=> \E d \in Devices : e \in onDevice[d]
        /\ state[e] = "ALLOCATED" => e \in InList(List(dev[e], e)) /\ e \in onDevice[dev[e]]

\* The lists lead to all that the device has, and to nothing that is freed.
ListsTrue == ListsAlive /\ HostAgrees

\* An answer of the device monitor is copied before it is released
\* (getThermalStats, deviceGetDeviceMemory).
CopiedBeforeReleased ==
    \A t \in Threads : pc[t] = "copy" => \E i \in DOMAIN held[arg[t].d] : held[arg[t].d][i] = t

\* Every call returns: no two calls wait for each other's mutex.
CallReturns == \A t \in Threads : pc[t] # "idle" ~> pc[t] = "idle"
=============================================================================
