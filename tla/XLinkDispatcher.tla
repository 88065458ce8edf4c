-------------------------- MODULE XLinkDispatcher --------------------------
(***************************************************************************)
(* The event scheduler of one link (XLink/shared/XLinkDispatcher.c).       *)
(*                                                                         *)
(* Application threads (Clients) put their requests into the ring lQueue   *)
(* and sleep on a semaphore of their own; the reader thread puts what it   *)
(* receives into the ring rQueue; the dispatcher thread takes one event at *)
(* a time, handles it through the control functions of XLink.c, and posts  *)
(* the semaphore of the thread whose event is served.                      *)
(*                                                                         *)
(* A slot of a ring is free when its event is SERVED.  An event that has   *)
(* just been added is SERVED as well: only its place between curProc and   *)
(* cur says that it is to be processed.                                    *)
(*                                                                         *)
(* The control functions are left open here: a READ is served at once or   *)
(* blocks, a WRITE is sent, refused or blocks (module XLinkFlow says       *)
(* when).  The critical section of dispatcherAddEvent is one step: nothing *)
(* in it waits, and the slot states it reads are changed one at a time.    *)
(*                                                                         *)
(* A link ends in one of two ways: a read fails and the reader thread just *)
(* stops, or the peer asks for a reset and the dispatcher thread empties   *)
(* the rings and wakes the threads that wait for a response.               *)
(***************************************************************************)
EXTENDS Naturals, FiniteSets

CONSTANTS
    Clients,         \* application threads
    MaxEvents,       \* MAX_EVENTS: slots of each ring
    MaxSemaphores,   \* MAXIMUM_SEMAPHORES
    MaxCalls,        \* bound: calls a client makes
    Loads,           \* how many calls each client makes, how many threads of the peer
                     \* (None stands for it) send requests, and whether the link may
                     \* end in one of the Endings: the ways to be checked
    None             \* no event, no semaphore

Endings == {"failure", "reset"}

ASSUME DispatcherAssumption ==
    /\ IsFiniteSet(Clients)
    /\ MaxEvents \in Nat \ {0, 1}
    /\ MaxSemaphores \in Nat
    /\ MaxCalls \in Nat
    /\ None \notin Clients
    /\ (Clients \cup {None}) \cap Endings = {}
    /\ Loads \subseteq [Clients \cup {None} \cup Endings -> 0..MaxCalls]

Slots == 0..(MaxEvents - 1)

VARIABLES
    lq,           \* lQueue: the state, the packet and the semaphore of each slot
    lcur,         \* lQueue.cur: where the next event is added
    lproc,        \* lQueue.curProc: where the next event to process is looked for
    rq,           \* rQueue: the packet of each slot (a remote event stays SERVED)
    rcur, rproc,
    notify,       \* value of notifyDispatcherSem
    addEventSem,  \* value of addEventSem while nobody is inside
    refs,         \* eventSemaphores: reference count of each thread's semaphore
    semVal,       \* and its value
    pc,           \* where each client is in its call
    call,         \* the number of its last call, which stands for the event's id
    slot,         \* the event it got back from dispatcherAddEvent
    load,         \* the one of Loads that bounds it
    reader,       \* what the reader thread has received and not queued
    disp,         \* what the dispatcher thread is doing, and resetXLink
    inFlight,     \* requests sent to the peer and not answered
    outstanding,  \* number of the peer's requests not answered
    prevEvent,    \* the request that is the last packet the peer has received
    peerAborted   \* the peer's reader thread has detected a duplicate id

local  == <<lq, lcur, lproc>>
remote == <<rq, rcur, rproc>>
sems   == <<refs, semVal>>
client == <<pc, call, slot, load>>
peer   == <<inFlight, outstanding, prevEvent, peerAborted>>
vars   == <<local, remote, notify, addEventSem, sems, client, reader, disp, peer>>

Types == {"READ", "WRITE"}
Events == [client : Clients, call : 1..MaxCalls, type : Types]

\* The peer's requests: a WRITE_REQ wakes a blocked READ, a READ_REL_REQ a
\* blocked WRITE.
RemoteRequests == [client : {None}, call : {0}, type : {"WRITE_REQ", "READ_REL_REQ"}]
ResetRequest == [client |-> None, call |-> 0, type |-> "RESET_REQ"]
Packets == Events \cup RemoteRequests \cup {ResetRequest, None}
ASSUME NoneIsNoPacket == None \notin Events \cup RemoteRequests \cup {ResetRequest}

Wakes(request) == IF request.type = "WRITE_REQ" THEN "READ" ELSE "WRITE"

TypeOK ==
    /\ lq \in [Slots -> [state : {"PENDING", "BLOCKED", "READY", "SERVED"},
                         packet : Events \cup {None}, sem : Clients \cup {None}]]
    /\ {lcur, lproc, rcur, rproc} \subseteq Slots
    /\ rq \in [Slots -> Packets]
    /\ notify \in Nat
    /\ addEventSem \in {0, 1}
    /\ refs \in [Clients -> 0..MaxEvents]
    /\ semVal \in [Clients -> Nat]
    /\ pc \in [Clients -> {"idle", "checked", "added", "waiting", "returning", "asleep",
                         "failed"}]
    /\ load \in Loads /\ \A c \in Clients : call[c] \in 0..load[c]
    /\ slot \in [Clients -> Slots]
    /\ reader \in [at : {"receive", "add", "notify", "ended"}, packet : Packets]
    /\ disp \in [at : {"next", "local", "remote", "posted", "join", "drain", "wake", "down"},
                 slot : Slots, resetXLink : BOOLEAN]
    /\ inFlight \in SUBSET Events
    /\ outstanding \in 0..load[None]
    /\ prevEvent \in Events \cup {None}
    /\ peerAborted \in BOOLEAN

Init ==
    /\ lq = [s \in Slots |-> [state |-> "SERVED", packet |-> None, sem |-> None]]
    /\ lcur = 0 /\ lproc = 0
    /\ rq = [s \in Slots |-> None]
    /\ rcur = 0 /\ rproc = 0
    /\ notify = 0
    /\ addEventSem = 1
    /\ refs = [c \in Clients |-> 0]
    /\ semVal = [c \in Clients |-> 0]
    /\ pc = [c \in Clients |-> "idle"]
    /\ call = [c \in Clients |-> 0] /\ load \in Loads
    /\ slot = [c \in Clients |-> 0]
    /\ reader = [at |-> "receive", packet |-> None]
    /\ disp = [at |-> "next", slot |-> 0, resetXLink |-> FALSE]
    /\ inFlight = {}
    /\ outstanding = 0
    /\ prevEvent = None
    /\ peerAborted = FALSE

-----------------------------------------------------------------------------
(* The rings *)

\* mutant of CIRCULAR_INCREMENT: one slot too far
IncrementPastEnd(s) == IF s = MaxEvents THEN 0 ELSE s + 1

CIRCULAR_INCREMENT(s) == IF s + 1 = MaxEvents THEN 0 ELSE s + 1

\* how far slot s lies after slot start
Distance(start, s) == IF start <= s THEN s - start ELSE MaxEvents - start + s

\* the first slot of the local ring in the given state, from start on
HasState(state) == \E s \in Slots : lq[s].state = state

\* mutant of getNextElementWithState: the search forgets where it starts
FirstElementWithState(start, state) ==
    CHOOSE s \in Slots :
        lq[s].state = state /\ \A t \in Slots : lq[t].state = state => s <= t

getNextElementWithState(start, state) ==
    CHOOSE s \in Slots :
        /\ lq[s].state = state
        /\ \A t \in Slots :
                lq[t].state = state => Distance(start, s) <= Distance(start, t)

\* the first BLOCKED local event of a type, in the order of the array
Blocked(type) ==
    {s \in Slots : lq[s].state = "BLOCKED" /\ lq[s].packet.type = type}
FirstBlocked(type) ==
    CHOOSE s \in Blocked(type) : \A t \in Blocked(type) : s <= t

-----------------------------------------------------------------------------
(* Application threads: dispatcherAddEvent, dispatcherWaitEventComplete *)

EventOf(c) == lq[slot[c]].packet
IsOwn(c) == EventOf(c) # None /\ EventOf(c).client = c /\ EventOf(c).call = call[c]

NoMoreSemaphores(c) ==
    refs[c] = 0 /\ Cardinality({d \in Clients : refs[d] > 0}) >= MaxSemaphores

\* mutant of Reference: every slot counts as the first
ReferenceOnce(c) == [refs EXCEPT ![c] = 1]

\* getCurrentSem finds the thread's semaphore, or createSem makes one
Reference(c) == [refs EXCEPT ![c] = @ + 1]

\* dispatcherAddEvent has found the scheduler and seen no reset
CheckReset(c) ==
    /\ pc[c] = "idle"
    /\ call[c] < load[c]
    /\ ~disp.resetXLink
    /\ pc' = [pc EXCEPT ![c] = "checked"]
    /\ UNCHANGED <<local, remote, notify, addEventSem, sems, call, slot, load, reader, disp, peer>>

\* It returns NULL, and the caller waits before it uses that: for ever, if it still
\* has a semaphore.  Once the scheduler is gone, an assertion ends the process.
AddAfterReset(c) ==
    /\ pc[c] = "idle"
    /\ call[c] < load[c]
    /\ disp.resetXLink
    /\ pc' = [pc EXCEPT ![c] = IF refs[c] > 0 /\ disp.at # "down" THEN "asleep" ELSE "failed"]
    /\ UNCHANGED <<local, remote, notify, addEventSem, sems, call, slot, load, reader, disp, peer>>

\* The event goes into the first free slot from cur on.  The slot's new owner
\* takes a reference to its semaphore before the old owner loses one, and a
\* semaphore without references is destroyed.
dispatcherAddEvent(c, type) ==
    /\ pc[c] = "checked"
    /\ addEventSem = 1
    /\ ~NoMoreSemaphores(c)
    /\ HasState("SERVED")
    /\ LET s     == getNextElementWithState(lcur, "SERVED")
           old   == lq[s].sem
           taken == Reference(c)
           event == [client |-> c, call |-> call[c] + 1, type |-> type]
       IN  /\ lq' = [lq EXCEPT ![s].packet = event, ![s].sem = c]
           /\ lcur' = CIRCULAR_INCREMENT(s)
           /\ slot' = [slot EXCEPT ![c] = s]
           /\ refs' = IF old = None THEN taken ELSE [taken EXCEPT ![old] = @ - 1]
           /\ semVal' = [d \in Clients |-> IF refs'[d] = 0 THEN 0 ELSE semVal[d]]
    /\ call' = [call EXCEPT ![c] = @ + 1]
    /\ pc' = [pc EXCEPT ![c] = "added"]
    /\ UNCHANGED <<lproc, remote, notify, addEventSem, load, reader, disp, peer>>

\* All semaphores are in use: the function returns without posting addEventSem,
\* and its caller uses the NULL it has got.
AddEventFails(c) ==
    /\ pc[c] = "checked"
    /\ addEventSem = 1
    /\ NoMoreSemaphores(c)
    /\ addEventSem' = 0
    /\ pc' = [pc EXCEPT ![c] = "failed"]
    /\ UNCHANGED <<local, remote, notify, sems, call, slot, load, reader, disp, peer>>

\* the dispatcher is notified after the event has been added
NotifyDispatcher(c) ==
    /\ pc[c] = "added"
    /\ notify' = notify + 1
    /\ pc' = [pc EXCEPT ![c] = "waiting"]
    /\ UNCHANGED <<local, remote, addEventSem, sems, call, slot, load, reader, disp, peer>>

\* the thread sleeps on its semaphore
dispatcherWaitEventComplete(c) ==
    /\ pc[c] = "waiting"
    /\ refs[c] > 0
    /\ semVal[c] > 0
    /\ semVal' = [semVal EXCEPT ![c] = @ - 1]
    /\ pc' = [pc EXCEPT ![c] = "returning"]
    /\ UNCHANGED <<local, remote, notify, addEventSem, refs, call, slot, load, reader, disp, peer>>

\* its semaphore is gone, with the slot its event was in: it returns -1 at once
WaitEventFails(c) ==
    /\ pc[c] = "waiting"
    /\ refs[c] = 0
    /\ pc' = [pc EXCEPT ![c] = "returning"]
    /\ UNCHANGED <<local, remote, notify, addEventSem, sems, call, slot, load, reader, disp, peer>>

\* The link is down before the thread has looked its semaphore up: there is no
\* scheduler any more, which ends the process.
WaitAfterReset(c) ==
    /\ pc[c] = "waiting"
    /\ disp.at = "down"
    /\ pc' = [pc EXCEPT ![c] = "failed"]
    /\ UNCHANGED <<local, remote, notify, addEventSem, sems, call, slot, load, reader, disp, peer>>

\* XLinkWriteData, XLinkReadData, ... read the flags of the event and return
Return(c) ==
    /\ pc[c] = "returning"
    /\ pc' = [pc EXCEPT ![c] = "idle"]
    /\ UNCHANGED <<local, remote, notify, addEventSem, sems, call, slot, load, reader, disp, peer>>

-----------------------------------------------------------------------------
(* The reader thread: eventReader, dispatcherEventReceive *)

\* the peer answers a request it has been sent, in any order
ReceiveResponse ==
    /\ reader.at = "receive"
    /\ \E event \in inFlight :
        /\ inFlight' = inFlight \ {event}
        /\ reader' = [at |-> "add", packet |-> event]
    /\ UNCHANGED <<local, remote, notify, addEventSem, sems, client, disp,
                   outstanding, prevEvent, peerAborted>>

\* a thread of the peer that waits for no answer sends a request
ReceiveRequest ==
    /\ reader.at = "receive"
    /\ outstanding < load[None]
    /\ outstanding' = outstanding + 1
    /\ \E request \in RemoteRequests : reader' = [at |-> "add", packet |-> request]
    /\ UNCHANGED <<local, remote, notify, addEventSem, sems, client, disp,
                   inFlight, prevEvent, peerAborted>>

\* the peer asks for a reset, once
ReceiveResetRequest ==
    /\ reader.at = "receive"
    /\ load["reset"] = 1
    /\ reader' = [at |-> "add", packet |-> ResetRequest]
    /\ UNCHANGED <<local, remote, notify, addEventSem, sems, client, disp, peer>>

\* USBLinkRead fails: the thread ends, and nobody is told
ReadFails ==
    /\ reader.at = "receive"
    /\ load["failure"] = 1
    /\ reader' = [reader EXCEPT !.at = "ended"]
    /\ UNCHANGED <<local, remote, notify, addEventSem, sems, client, disp, peer>>

\* dispatcherAddEvent for a remote event: every slot of rQueue is SERVED, so it
\* goes to the slot at cur, whether or not that one has been processed
AddRemoteEvent ==
    /\ reader.at = "add"
    /\ addEventSem = 1
    /\ rq' = [rq EXCEPT ![rcur] = reader.packet]
    /\ rcur' = CIRCULAR_INCREMENT(rcur)
    /\ reader' = [reader EXCEPT !.at = "notify"]
    /\ UNCHANGED <<local, rproc, notify, addEventSem, sems, client, disp, peer>>

\* the thread goes on, but not after a request for a reset
NextReceive ==
    reader' = [at |-> IF reader.packet = ResetRequest THEN "ended" ELSE "receive",
               packet |-> None]

\* mutant of NotifyRemoteEvent: dispatcherEventReceive notifies as well
NotifyTwice ==
    /\ reader.at = "notify"
    /\ notify' = notify + 2
    /\ NextReceive
    /\ UNCHANGED <<local, remote, addEventSem, sems, client, disp, peer>>

NotifyRemoteEvent ==
    /\ reader.at = "notify"
    /\ notify' = notify + 1
    /\ NextReceive
    /\ UNCHANGED <<local, remote, addEventSem, sems, client, disp, peer>>

-----------------------------------------------------------------------------
(* The dispatcher thread: eventSchedulerRun, dispatcherGetNextEvent *)

AtNext == disp.at = "next"

\* a READY event is taken before anything that is queued
TakeReadyEvent ==
    /\ AtNext
    /\ HasState("READY")
    /\ disp' = [disp EXCEPT !.at = "local", !.slot = getNextElementWithState(0, "READY")]
    /\ UNCHANGED <<local, remote, notify, addEventSem, sems, client, reader, peer>>

\* a notification is consumed and the local queue has something to process: the
\* first slot from curProc on that is SERVED
TakeLocalEvent ==
    /\ AtNext
    /\ ~HasState("READY")
    /\ notify > 0
    /\ lcur # lproc
    /\ HasState("SERVED")
    /\ LET s == getNextElementWithState(lproc, "SERVED")
       IN  /\ disp' = [disp EXCEPT !.at = "local", !.slot = s]
           /\ lproc' = CIRCULAR_INCREMENT(s)
    /\ notify' = notify - 1
    /\ UNCHANGED <<lq, lcur, remote, addEventSem, sems, client, reader, peer>>

\* there is no local event: the remote queue
TakeRemoteEvent ==
    /\ AtNext
    /\ ~HasState("READY")
    /\ notify > 0
    /\ lcur = lproc
    /\ rcur # rproc
    /\ disp' = [disp EXCEPT !.at = "remote", !.slot = rproc]
    /\ rproc' = CIRCULAR_INCREMENT(rproc)
    /\ notify' = notify - 1
    /\ UNCHANGED <<local, rq, rcur, addEventSem, sems, client, reader, peer>>

\* dispatcherRequestServe, with what localGetResponse has decided

AtLocal == disp.at = "local"
Current == lq[disp.slot].packet
Mark(s, state) == lq' = [lq EXCEPT ![s].state = state]
NextEvent == disp' = [disp EXCEPT !.at = IF disp.resetXLink THEN "wake" ELSE "next"]

\* mutant of BlockEvent: the caller is woken although its event is blocked
BlockAndPost ==
    /\ AtLocal
    /\ Mark(disp.slot, "BLOCKED")
    /\ NextEvent
    /\ semVal' = [semVal EXCEPT ![lq[disp.slot].sem] = @ + 1]
    /\ UNCHANGED <<lcur, lproc, remote, notify, addEventSem, refs, client, reader, peer>>

\* a READ without a packet, a WRITE without credit
BlockEvent ==
    /\ AtLocal
    /\ Mark(disp.slot, "BLOCKED")
    /\ NextEvent
    /\ UNCHANGED <<lcur, lproc, remote, notify, addEventSem, sems, client, reader, peer>>

\* markEventServed posts the semaphore before it marks the slot
PostSemaphore(s) ==
    /\ semVal' = [semVal EXCEPT ![lq[s].sem] = @ + 1]
    /\ disp' = [disp EXCEPT !.at = "posted", !.slot = s]

\* a READ that finds a packet, a WRITE on a stream that is closed
ServeLocally ==
    /\ AtLocal
    /\ PostSemaphore(disp.slot)
    /\ UNCHANGED <<local, remote, notify, addEventSem, refs, client, reader, peer>>

\* SendRequest with the mark a sent event gets
SendMarked(state) ==
    /\ AtLocal
    /\ Current.type = "WRITE"
    /\ Mark(disp.slot, state)
    /\ inFlight' = inFlight \cup {Current}
    /\ peerAborted' = (peerAborted \/ prevEvent = Current)
    /\ prevEvent' = Current
    /\ NextEvent
    /\ UNCHANGED <<lcur, lproc, remote, notify, addEventSem, sems, client, reader,
                   outstanding>>

\* mutant of SendRequest: the event is tried again
SendReady == SendMarked("READY")

\* a WRITE with credit is PENDING and goes to the peer, whose reader thread
\* compares it with the packet it has received before (dispatcherEventReceive)
SendRequest == SendMarked("PENDING")

\* A remote event is read in place; nothing looks at its slot again afterwards.
ClearRemote == rq' = [rq EXCEPT ![disp.slot] = None]

\* remoteGetResponse for a request: one blocked event is made READY, and the
\* response goes to the peer
ServeRemoteRequest ==
    /\ disp.at = "remote"
    /\ rq[disp.slot] \in RemoteRequests
    /\ LET blocked == Wakes(rq[disp.slot])
       IN  IF Blocked(blocked) = {} THEN lq' = lq ELSE Mark(FirstBlocked(blocked), "READY")
    /\ outstanding' = outstanding - 1
    /\ prevEvent' = None
    /\ NextEvent
    /\ ClearRemote
    /\ UNCHANGED <<lcur, lproc, rcur, rproc, notify, addEventSem, sems, client, reader,
                   inFlight, peerAborted>>

\* dispatcherResponseServe: the PENDING request with the id of the response
Requests(event) == {s \in Slots : lq[s].state = "PENDING" /\ lq[s].packet = event}

ServeResponse ==
    /\ disp.at = "remote"
    /\ rq[disp.slot] \in Events
    /\ \E s \in Requests(rq[disp.slot]) :
        /\ \A t \in Requests(rq[disp.slot]) : s <= t
        /\ PostSemaphore(s)
    /\ ClearRemote
    /\ UNCHANGED <<local, rcur, rproc, notify, addEventSem, refs, client, reader, peer>>

MarkServed ==
    /\ disp.at = "posted"
    /\ Mark(disp.slot, "SERVED")
    /\ NextEvent
    /\ UNCHANGED <<lcur, lproc, remote, notify, addEventSem, sems, client, reader, peer>>

-----------------------------------------------------------------------------
(* The end of the link: dispatcherReset, run by the dispatcher thread when it has *)
(* answered a request for a reset and its reader has ended                        *)

ServeResetRequest ==
    /\ disp.at = "remote"
    /\ rq[disp.slot] = ResetRequest
    /\ disp' = [disp EXCEPT !.at = "join", !.resetXLink = TRUE]
    /\ ClearRemote
    /\ UNCHANGED <<local, rcur, rproc, notify, addEventSem, sems, client, reader, peer>>

\* one more notification, so that the drain finds nothing in the end
JoinReader ==
    /\ disp.at = "join"
    /\ reader.at = "ended"
    /\ notify' = notify + 1
    /\ disp' = [disp EXCEPT !.at = "drain"]
    /\ UNCHANGED <<local, remote, addEventSem, sems, client, reader, peer>>

\* what is queued is taken and dropped, local events first
Drain ==
    /\ disp.at = "drain"
    /\ ~HasState("READY")
    /\ notify > 0
    /\ notify' = notify - 1
    /\ IF lcur # lproc
       THEN /\ HasState("SERVED")
            /\ lproc' = CIRCULAR_INCREMENT(getNextElementWithState(lproc, "SERVED"))
            /\ UNCHANGED <<rproc, disp>>
       ELSE IF rcur # rproc
       THEN rproc' = CIRCULAR_INCREMENT(rproc) /\ UNCHANGED <<lproc, disp>>
       ELSE disp' = [disp EXCEPT !.at = "wake"] /\ UNCHANGED <<lproc, rproc>>
    /\ UNCHANGED <<lq, lcur, rq, rcur, addEventSem, sems, client, reader, peer>>

\* mutant of Wake: the threads of requests that were sent are left alone
WakeNobody ==
    /\ disp.at = "wake"
    /\ disp' = [disp EXCEPT !.at = "down"]
    /\ UNCHANGED <<local, remote, notify, addEventSem, sems, client, reader, peer>>

\* the threads that wait for a response are woken, and then there is no scheduler
Wake ==
    /\ disp.at = "wake"
    /\ IF HasState("PENDING")
       THEN PostSemaphore(getNextElementWithState(0, "PENDING"))
       ELSE disp' = [disp EXCEPT !.at = "down"] /\ UNCHANGED semVal
    /\ UNCHANGED <<local, remote, notify, addEventSem, refs, client, reader, peer>>

dispatcherReset == JoinReader \/ Drain \/ Wake

-----------------------------------------------------------------------------
ClientStep(c) ==
    \/ (\E type \in Types : dispatcherAddEvent(c, type)) \/ AddEventFails(c)
    \/ NotifyDispatcher(c)
    \/ dispatcherWaitEventComplete(c) \/ WaitEventFails(c)
    \/ Return(c)

ClientCall(c) == CheckReset(c) \/ AddAfterReset(c)

eventReader ==
    \/ ReceiveResponse \/ ReceiveRequest \/ ReceiveResetRequest \/ ReadFails
    \/ AddRemoteEvent \/ NotifyRemoteEvent

eventSchedulerRun ==
    \/ TakeReadyEvent \/ TakeLocalEvent \/ TakeRemoteEvent
    \/ BlockEvent \/ ServeLocally \/ SendRequest
    \/ ServeRemoteRequest \/ ServeResponse \/ MarkServed
    \/ ServeResetRequest \/ dispatcherReset

Next ==
    \/ \E c \in Clients : ClientCall(c) \/ ClientStep(c) \/ WaitAfterReset(c)
    \/ eventReader
    \/ eventSchedulerRun

Spec == Init /\ [][Next]_vars

\* The threads run: a client that has called goes on, the dispatcher and the
\* reader do not stop, and the peer answers what it is sent: its own requests
\* cannot go first for ever, for each of its threads waits for an answer that is
\* queued behind our request (hence the strong fairness of ReceiveResponse).
Fairness ==
    /\ \A c \in Clients : WF_vars(ClientStep(c))
    /\ SF_vars(ReceiveResponse)
    /\ WF_vars(AddRemoteEvent \/ NotifyRemoteEvent)
    /\ WF_vars(eventSchedulerRun)

FairSpec == Spec /\ Fairness

-----------------------------------------------------------------------------
(* Properties *)

\* The reference count of a thread's semaphore is the number of slots that hold
\* it: the semaphore of a slot is never destroyed, and one that no slot holds is
\* not kept (unrefSem, getCurrentSem, createSem).
SemaphoreRefs ==
    \A c \in Clients : refs[c] = Cardinality({s \in Slots : lq[s].sem = c})

\* A notification stands for an event that is queued: the dispatcher thread,
\* which uses what dispatcherGetNextEvent returns unchecked, never gets NULL.
NoNullEvent ==
    AtNext /\ ~HasState("READY") /\ notify > 0 =>
        IF lcur # lproc THEN HasState("SERVED") ELSE rcur # rproc

\* the events that wait in the local ring, oldest first
LocalQueue ==
    [i \in 1..Distance(lproc, lcur) |-> lq[(lproc + i - 1) % MaxEvents].packet]
RemoteQueue ==
    [i \in 1..Distance(rproc, rcur) |-> rq[(rproc + i - 1) % MaxEvents]]

InLocalQueue(event) == \E i \in DOMAIN LocalQueue : LocalQueue[i] = event

\* No thread waits while others go round the ring, which cur could then make
\* skip the slot of its event (module MCXLinkDispatcher has the run that does).
InOrder ==
    LET callers == {c \in Clients : load[c] > 0}
    IN  Cardinality(callers) <= 1 \/ \A c \in callers : load[c] * Cardinality(callers) <= MaxEvents

\* A client is then woken once, by the event it has added: when its semaphore is up
\* or it is reading the flags, the slot still holds its own event and that event
\* has been handled.
WokenByOwnEvent ==
    InOrder => \A c \in Clients :
        /\ semVal[c] + (IF pc[c] = "returning" THEN 1 ELSE 0) <= 1
        /\ semVal[c] > 0 \/ pc[c] = "returning" =>
            /\ IsOwn(c)
            /\ ~InLocalQueue(EventOf(c))
            /\ \/ lq[slot[c]].state = "SERVED"
               \/ disp.at = "posted" /\ disp.slot = slot[c]

\* A response finds the request that waits for it (the assertion that ends
\* dispatcherResponseServe), and exactly one.
ResponseMatched ==
    disp.at = "remote" /\ rq[disp.slot] \in Events =>
        Cardinality(Requests(rq[disp.slot])) = 1

\* So the dispatcher thread finds what it has been told of, twice unchecked.
DispatcherFindsEvents == NoNullEvent /\ ResponseMatched

\* The peer's reader thread never sees the packet it has just received a second
\* time (the assertion of dispatcherEventReceive).
PeerNeverAborts == ~peerAborted

\* Who is left behind when the link has ended: the thread whose request was sent,
\* if a read has failed, and the thread whose event was still queued, if the link
\* was reset.
LeftBehind(c) ==
    \/ reader.at = "ended" /\ ~disp.resetXLink /\ lq[slot[c]].state = "PENDING"
    \/ disp.resetXLink /\ lq[slot[c]].state = "SERVED" /\ semVal[c] = 0

\* Every call comes back then, unless its event is blocked for a packet or a credit,
\* it is left behind, or the process has died of what another thread got: a
\* reset wakes every thread that waits for a response (dispatcherReset), and a failed
\* read stops nothing that needs no response.
EveryCallServed ==
    \A c \in Clients :
        InOrder /\ pc[c] = "waiting" ~>
            \/ pc[c] # "waiting" \/ lq[slot[c]].state = "BLOCKED"
            \/ LeftBehind(c)
            \/ \E d \in Clients : pc[d] = "failed"
=============================================================================
