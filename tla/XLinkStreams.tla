---------------------------- MODULE XLinkStreams ----------------------------
(***************************************************************************)
(* Opening, using and closing the streams of a link: the stream tables of  *)
(* the two peers, the events their threads dispatch and the messages       *)
(* between them (XLink/shared/XLink.c, which runs on both peers).          *)
(*                                                                         *)
(* A peer opens a stream to write to it: the other peer creates it and     *)
(* chooses the id.  A stream that both peers open carries both directions; *)
(* it is freed when both have closed it.                                   *)
(*                                                                         *)
(* Messages arrive in the order they were sent.  The reader thread stores  *)
(* the packet of a WRITE_REQ on arrival and puts the event into rQueue;    *)
(* the dispatcher thread handles rQueue in order.  Local events are        *)
(* dispatched in any order (module XLinkDispatcher has the queues).        *)
(* Packets have size one; module XLinkFlow has their sizes, the blocking   *)
(* of a reader and the credit in bytes.  Reading and releasing a packet is *)
(* one call here.                                                          *)
(***************************************************************************)
EXTENDS Naturals, Sequences, FiniteSets

CONSTANTS
    Peers,          \* the host and the device
    Names,          \* names of streams
    ThreadsOf,      \* number of threads of each peer
    FirstOpeners,   \* peers that open streams which do not exist on their side
    Applications,   \* the ways in which the applications of a link may use it
    None            \* no stream id

\* How the applications use the link: the streams, the sizes they are opened
\* with, the peers that open streams, how many threads and calls (a bound) each
\* peer has; and whether it closes a stream only when no other thread of it has a
\* call on the stream under way, and starts none until the stream is closed, and
\* no peer opens a stream while the other one closes it.
Uses == [names : SUBSET Names, sizes : SUBSET (Nat \ {0}), openers : SUBSET Peers,
         threads : [Peers -> Nat], calls : [Peers -> Nat], exclusive : BOOLEAN]

ASSUME StreamsAssumption ==
    /\ IsFiniteSet(Peers) /\ Cardinality(Peers) = 2
    /\ ThreadsOf \in [Peers -> Nat]
    /\ FirstOpeners \subseteq Peers /\ None \notin Nat
    /\ Applications \subseteq Uses

Other(p) == CHOOSE q \in Peers : q # p
Threads == UNION {{p} \X (1..ThreadsOf[p]) : p \in Peers}

VARIABLES
    stream,   \* availableStreams of each peer, by name
    next,     \* nextUniqueStreamId of each peer
    handle,   \* the stream id each application got from XLinkOpenStream
    wire,     \* messages each peer has sent and the other has not received
    rQueue,   \* remote events each peer has received and not handled
    event,    \* the call of each thread
    calls,    \* number of calls each peer has made
    app,      \* the one of Applications that runs
    aborted   \* an assertion about a stream has failed

vars == <<stream, next, handle, wire, rQueue, event, calls, app, aborted>>

Idle == [type |-> "NONE", at |-> "idle", name |-> None, id |-> None, size |-> 0]
NoStream == [id |-> None, writeSize |-> 0, readSize |-> 0, remoteFill |-> 0,
             localFill |-> 0, unread |-> 0, held |-> 0, closing |-> FALSE, locked |-> FALSE]

Ids == 0..(app.calls[CHOOSE p \in Peers : TRUE] + app.calls[Other(CHOOSE p \in Peers : TRUE)])

\* A peer has no two streams with one id (the numbers nextUniqueStreamId gives
\* out on the two peers must not meet).
IdsDistinct ==
    \A p \in Peers, m, n \in Names :
        m # n /\ stream[p][m].id # None => stream[p][m].id # stream[p][n].id

\* Types of the variables.  Unless a stream is closed and opened again while calls
\* on it are under way, the ids of a table are distinct and the unsigned fill levels
\* do not wrap.
TypeOK ==
    /\ \A p \in Peers, n \in Names :
        LET s == stream[p][n] IN
        /\ s.id \in Ids \cup {None}
        /\ {s.writeSize, s.readSize} \subseteq app.sizes \cup {0}
        /\ {s.unread, s.held} \subseteq Nat
        /\ app.exclusive => {s.remoteFill, s.localFill} \subseteq Nat
        /\ {s.closing, s.locked} \subseteq BOOLEAN
    /\ app.exclusive => IdsDistinct
    /\ next \in [Peers -> Ids]
    /\ handle \in [Peers -> [Names -> Ids \cup {None}]]
    /\ \A t \in Threads :
        /\ event[t].type \in {"NONE", "CREATE", "WRITE", "RELEASE", "CLOSE"}
        /\ event[t].at \in {"idle", "queued", "blocked", "pending", "created"}
    /\ calls \in [Peers -> Nat] /\ app \in Applications
    /\ aborted \in BOOLEAN

Init ==
    /\ app \in Applications
    /\ stream = [p \in Peers |-> [n \in Names |-> NoStream]]
    /\ next = [p \in Peers |-> 0]
    /\ handle = [p \in Peers |-> [n \in Names |-> None]]
    /\ wire = [p \in Peers |-> <<>>]
    /\ rQueue = [p \in Peers |-> <<>>]
    /\ event = [t \in Threads |-> Idle]
    /\ calls = [p \in Peers |-> 0]
    /\ aborted = FALSE

-----------------------------------------------------------------------------
(* The table of streams *)

\* getStreamById: the names of the streams with an id
WithId(p, id) == {n \in Names : id # None /\ stream[p][n].id = id}
Exists(p, id) == WithId(p, id) # {}
getStreamById(p, id) == CHOOSE n \in WithId(p, id) : TRUE

\* mutant of SizeOrNew: the request overwrites what is set
SizeAsked(set, asked) == asked

\* a size that is asked for and not set yet; a larger one than is set is refused
SizeOrNew(set, asked) == IF set = 0 THEN asked ELSE set

\* mutant of TooLarge: the size the stream has is refused as well
NotSmaller(s, writeSize, readSize) ==
    \/ writeSize >= s.writeSize /\ s.writeSize # 0
    \/ readSize >= s.readSize /\ s.readSize # 0

TooLarge(s, writeSize, readSize) ==
    \/ writeSize > s.writeSize /\ s.writeSize # 0
    \/ readSize > s.readSize /\ s.readSize # 0

\* allocateNewStream.  A new stream takes the place of a freed one, whose packets
\* it does not clear.  A refused stream stays locked:
\* the function returns without releaseStream.
Allocated(s, writeSize, readSize, id) ==
    IF s.id = None
      THEN [s EXCEPT !.id = id, !.writeSize = writeSize, !.readSize = readSize,
                     !.remoteFill = 0, !.localFill = 0, !.closing = FALSE]
    ELSE IF TooLarge(s, writeSize, readSize)
      THEN [s EXCEPT !.locked = TRUE]
    ELSE [s EXCEPT !.writeSize = SizeOrNew(@, writeSize), !.readSize = SizeOrNew(@, readSize)]

\* mutant of NextId: the number is used and kept
SameId(p, n) == next[p]

NextId(p, n) == IF stream[p][n].id = None THEN next[p] + 1 ELSE next[p]

allocateNewStream(p, n, writeSize, readSize, forcedId) ==
    LET s  == stream[p][n]
        id == IF forcedId = None THEN next[p] ELSE forcedId
    IN  /\ ~s.locked
        /\ stream' = [stream EXCEPT ![p][n] = Allocated(s, writeSize, readSize, id)]
        /\ next' = [next EXCEPT ![p] = NextId(p, n)]

\* what allocateNewStream returns
AllocatedId(p, n, writeSize, readSize) ==
    IF stream[p][n].id = None THEN next[p]
    ELSE IF TooLarge(stream[p][n], writeSize, readSize) THEN None
    ELSE stream[p][n].id

-----------------------------------------------------------------------------
(* The application *)

\* the threads of a peer that have a call of certain types on a stream
Using(p, n, types) ==
    {t \in Threads : t[1] = p /\ event[t].name = n /\ event[t].type \in types}
Working == {"CREATE", "WRITE", "RELEASE"}

Call(t, type, n, id, size) ==
    /\ ~aborted
    /\ event[t] = Idle
    /\ n \in app.names /\ t[2] <= app.threads[t[1]]
    /\ app.exclusive => Using(t[1], n, {"CLOSE"}) = {}
    /\ calls[t[1]] < app.calls[t[1]]
    /\ calls' = [calls EXCEPT ![t[1]] = @ + 1]
    /\ event' = [event EXCEPT ![t] =
            [type |-> type, at |-> "queued", name |-> n, id |-> id, size |-> size]]
    /\ UNCHANGED app

XLinkOpenStream(t, n) ==
    /\ t[1] \in app.openers
    /\ t[1] \in FirstOpeners \/ stream[t[1]][n].id # None
    /\ app.exclusive => Using(Other(t[1]), n, {"CLOSE"}) = {}
    /\ \E size \in app.sizes : Call(t, "CREATE", n, None, size)
    /\ UNCHANGED <<stream, next, handle, wire, rQueue, aborted>>

\* it looks the stream up by its name when the event is complete
OpenReturns(t) ==
    /\ ~aborted
    /\ event[t].at = "created"
    /\ ~stream[t[1]][event[t].name].locked
    /\ handle' = [handle EXCEPT ![t[1]][event[t].name] = stream[t[1]][event[t].name].id]
    /\ event' = [event EXCEPT ![t] = Idle]
    /\ UNCHANGED <<stream, next, wire, rQueue, calls, app, aborted>>

XLinkWriteData(t, n) ==
    /\ handle[t[1]][n] # None
    /\ Call(t, "WRITE", n, handle[t[1]][n], 1)
    /\ UNCHANGED <<stream, next, handle, wire, rQueue, aborted>>

\* XLinkReadData of a packet that is there, and XLinkReleaseData
ReadAndRelease(t, n) ==
    /\ stream[t[1]][n].id # None
    /\ stream[t[1]][n].unread > 0
    /\ stream' = [stream EXCEPT ![t[1]][n].unread = @ - 1, ![t[1]][n].held = @ + 1]
    /\ Call(t, "RELEASE", n, stream[t[1]][n].id, 1)
    /\ UNCHANGED <<next, handle, wire, rQueue, aborted>>

\* the application forgets the id of a stream it closes
XLinkCloseStream(t, n) ==
    /\ handle[t[1]][n] # None
    /\ app.exclusive => /\ Using(t[1], n, Working) = {}
                        /\ Using(Other(t[1]), n, {"CREATE"}) = {}
    /\ Call(t, "CLOSE", n, handle[t[1]][n], 0)
    /\ handle' = [handle EXCEPT ![t[1]][n] = None]
    /\ UNCHANGED <<stream, next, wire, rQueue, aborted>>

-----------------------------------------------------------------------------
(* dispatcherLocalEventGetResponse *)

Request(t) == [type |-> event[t].type, kind |-> "REQ", thread |-> t, ack |-> TRUE,
               name |-> event[t].name, id |-> event[t].id, size |-> event[t].size]
Send(p, message) == wire' = [wire EXCEPT ![p] = Append(@, message)]
Becomes(t, at) == event' = [event EXCEPT ![t].at = at]

Queued(t, type) == ~aborted /\ event[t].at = "queued" /\ event[t].type = type

\* the stream of a thread's event, when the event's id has one that is free
Found(t, n) ==
    Exists(t[1], event[t].id) /\ n = getStreamById(t[1], event[t].id) /\ ~stream[t[1]][n].locked

\* the event goes to the peer and waits for its response
SendPending(t) == Send(t[1], Request(t)) /\ Becomes(t, "pending")

DispatchCreate(t) ==
    /\ Queued(t, "CREATE")
    /\ SendPending(t)
    /\ UNCHANGED <<stream, next, handle, rQueue, calls, app, aborted>>

Charge(s) == [s EXCEPT !.remoteFill = @ + 1]

isStreamSpaceEnoughFor(s) == s.remoteFill + 1 <= s.writeSize

\* refused on a stream that is closed, blocked without credit, or sent
DispatchWrite(t) ==
    /\ Queued(t, "WRITE")
    /\ \E n \in Names :
        /\ Found(t, n)
        /\ LET s == stream[t[1]][n] IN
            \/ /\ s.writeSize = 0
               /\ event' = [event EXCEPT ![t] = Idle]
               /\ UNCHANGED <<stream, wire>>
            \/ /\ s.writeSize # 0 /\ ~isStreamSpaceEnoughFor(s)
               /\ Becomes(t, "blocked")
               /\ UNCHANGED <<stream, wire>>
            \/ /\ s.writeSize # 0 /\ isStreamSpaceEnoughFor(s)
               /\ stream' = [stream EXCEPT ![t[1]][n] = Charge(@)]
               /\ SendPending(t)
    /\ UNCHANGED <<next, handle, rQueue, calls, app, aborted>>

\* releasePacketFromStream; without a packet nothing is given back, but the
\* event is sent all the same
DispatchRelease(t) ==
    /\ Queued(t, "RELEASE")
    /\ \E n \in Names :
        /\ Found(t, n)
        /\ LET s == stream[t[1]][n] IN
            stream' = [stream EXCEPT ![t[1]][n] =
                IF s.held = 0 THEN s
                ELSE [s EXCEPT !.held = @ - 1, !.localFill = @ - 1]]
    /\ SendPending(t)
    /\ UNCHANGED <<next, handle, rQueue, calls, app, aborted>>

\* mutant of MarkClosing: closeStreamInitiated is not set
MarkForgotten(s) == s

MarkClosing(s) == [s EXCEPT !.closing = TRUE]

\* mutant of DispatchClose: it does not wait for what is not released
CloseAtOnce(t) ==
    /\ Queued(t, "CLOSE")
    /\ \E n \in Names : Found(t, n)
    /\ SendPending(t)
    /\ UNCHANGED <<stream, next, handle, rQueue, calls, app, aborted>>

\* the event waits until everything written has been released
DispatchClose(t) ==
    /\ Queued(t, "CLOSE")
    /\ \E n \in Names :
        /\ Found(t, n)
        /\ \/ /\ stream[t[1]][n].remoteFill # 0
              /\ stream' = [stream EXCEPT ![t[1]][n] = MarkClosing(@)]
              /\ Becomes(t, "blocked")
              /\ UNCHANGED wire
           \/ /\ stream[t[1]][n].remoteFill = 0
              /\ SendPending(t)
              /\ UNCHANGED stream
    /\ UNCHANGED <<next, handle, rQueue, calls, app, aborted>>

\* ASSERT_X_LINK(stream): the id of the event has no stream
DispatchAborts(t) ==
    /\ \E type \in {"WRITE", "RELEASE", "CLOSE"} : Queued(t, type)
    /\ ~Exists(t[1], event[t].id)
    /\ aborted' = TRUE
    /\ UNCHANGED <<stream, next, handle, wire, rQueue, event, calls, app>>

-----------------------------------------------------------------------------
(* The reader thread: handleIncomingEvent *)

Incoming(p) == Head(wire[Other(p)])
IsRequest(message, type) == message.kind = "REQ" /\ message.type = type

\* the packet of a WRITE_REQ is stored before the event is queued
handleIncomingEvent(p) ==
    /\ ~aborted
    /\ wire[Other(p)] # <<>>
    /\ IF IsRequest(Incoming(p), "WRITE")
         THEN \E n \in WithId(p, Incoming(p).id) :
                /\ n = getStreamById(p, Incoming(p).id)
                /\ ~stream[p][n].locked
                /\ stream' = [stream EXCEPT ![p][n].unread = @ + 1, ![p][n].localFill = @ + 1]
         ELSE UNCHANGED stream
    /\ rQueue' = [rQueue EXCEPT ![p] = Append(@, Incoming(p))]
    /\ wire' = [wire EXCEPT ![Other(p)] = Tail(@)]
    /\ UNCHANGED <<next, handle, event, calls, app, aborted>>

IncomingAborts(p) ==
    /\ ~aborted
    /\ wire[Other(p)] # <<>>
    /\ IsRequest(Incoming(p), "WRITE")
    /\ ~Exists(p, Incoming(p).id)
    /\ aborted' = TRUE
    /\ UNCHANGED <<stream, next, handle, wire, rQueue, event, calls, app>>

-----------------------------------------------------------------------------
(* The dispatcher thread: dispatcherRemoteEventGetResponse *)

Remote(p) == Head(rQueue[p])
Handle(p, type) ==
    /\ ~aborted
    /\ rQueue[p] # <<>>
    /\ IsRequest(Remote(p), type)
    /\ rQueue' = [rQueue EXCEPT ![p] = Tail(@)]

Response(p, id, ack) == [Remote(p) EXCEPT !.kind = "RESP", !.id = id, !.ack = ack]
Respond(p) == Send(p, Response(p, Remote(p).id, TRUE))

\* mutant of HandleWrite: the event is handled and not answered
WriteUnanswered(p) ==
    /\ Handle(p, "WRITE")
    /\ UNCHANGED <<stream, next, handle, wire, event, calls, app, aborted>>

HandleWrite(p) ==
    /\ Handle(p, "WRITE")
    /\ Respond(p)
    /\ UNCHANGED <<stream, next, handle, event, calls, app, aborted>>

\* dispatcherUnblockEvent: one blocked event of a type and a stream
BlockedEvents(p, type, id) ==
    {t \in Threads : t[1] = p /\ event[t].at = "blocked"
                     /\ event[t].type = type /\ event[t].id = id}
Unblocked(p, type, id) ==
    IF BlockedEvents(p, type, id) = {} THEN {{}}
    ELSE {{t} : t \in BlockedEvents(p, type, id)}

\* a blocked write is tried again, and a close when there is nothing to read
HandleRelease(p) ==
    /\ Handle(p, "RELEASE")
    /\ \E n \in WithId(p, Remote(p).id) :
        LET s     == stream[p][n]
            close == s.closing /\ s.localFill = 0
        IN  /\ n = getStreamById(p, Remote(p).id)
            /\ ~s.locked
            /\ stream' = [stream EXCEPT ![p][n].remoteFill = @ - 1]
            /\ \E writes \in Unblocked(p, "WRITE", Remote(p).id) :
               \E closes \in IF close THEN Unblocked(p, "CLOSE", Remote(p).id) ELSE {{}} :
                event' = [t \in Threads |->
                    IF t \in writes \cup closes THEN [event[t] EXCEPT !.at = "queued"]
                                                ELSE event[t]]
    /\ Respond(p)
    /\ UNCHANGED <<next, handle, calls, app, aborted>>

HandleReleaseAborts(p) ==
    /\ Handle(p, "RELEASE")
    /\ ~Exists(p, Remote(p).id)
    /\ aborted' = TRUE
    /\ UNCHANGED <<stream, next, handle, wire, event, calls, app>>

\* the write size of the peer is the read size here
HandleCreate(p) ==
    /\ Handle(p, "CREATE")
    /\ allocateNewStream(p, Remote(p).name, 0, Remote(p).size, None)
    /\ Send(p, Response(p, AllocatedId(p, Remote(p).name, 0, Remote(p).size), TRUE))
    /\ UNCHANGED <<handle, event, calls, app, aborted>>

\* a stream that neither peer writes to any more is freed
Freed(s) == IF s.writeSize = 0 /\ s.readSize = 0 THEN [s EXCEPT !.id = None] ELSE s

\* deallocateStream when every packet has been released; refused otherwise
HandleClose(p) ==
    /\ Handle(p, "CLOSE")
    /\ \/ /\ ~Exists(p, Remote(p).id)
          /\ Send(p, Response(p, Remote(p).id, TRUE))
          /\ UNCHANGED stream
       \/ \E n \in WithId(p, Remote(p).id) :
            LET s == stream[p][n] IN
            /\ n = getStreamById(p, Remote(p).id)
            /\ ~s.locked
            /\ \/ /\ s.localFill = 0
                  /\ stream' = [stream EXCEPT ![p][n] = Freed(
                        [s EXCEPT !.readSize = 0,
                                  !.closing = IF s.readSize # 0 THEN FALSE ELSE @])]
                  /\ Send(p, Response(p, Remote(p).id, TRUE))
               \/ /\ s.localFill # 0
                  /\ stream' = [stream EXCEPT ![p][n] = MarkClosing(@)]
                  /\ Send(p, Response(p, Remote(p).id, FALSE))
    /\ UNCHANGED <<next, handle, event, calls, app, aborted>>

\* mutant of ClosedHere: the response changes nothing
KeptHere(s) == s

\* the peer has closed what this side wrote to
ClosedHere(s) == Freed([s EXCEPT !.writeSize = 0])

\* A response completes the call that waits for it.  CREATE and CLOSE change
\* the stream first, CLOSE even when it was refused.
HandleResponse(p) ==
    /\ ~aborted
    /\ rQueue[p] # <<>>
    /\ Remote(p).kind = "RESP"
    /\ rQueue' = [rQueue EXCEPT ![p] = Tail(@)]
    /\ \/ /\ Remote(p).type \in {"WRITE", "RELEASE"}
          /\ UNCHANGED <<stream, next>>
       \/ /\ Remote(p).type = "CREATE"
          /\ allocateNewStream(p, Remote(p).name, Remote(p).size, 0, Remote(p).id)
       \/ /\ Remote(p).type = "CLOSE"
          /\ IF Exists(p, Remote(p).id)
               THEN LET n == getStreamById(p, Remote(p).id) IN
                    /\ ~stream[p][n].locked
                    /\ stream' = [stream EXCEPT ![p][n] = ClosedHere(@)]
               ELSE UNCHANGED stream
          /\ UNCHANGED next
    /\ LET t == Remote(p).thread IN
        event' = [event EXCEPT ![t] =
            IF @.type = "CREATE" THEN [@ EXCEPT !.at = "created"] ELSE Idle]
    /\ UNCHANGED <<handle, wire, calls, app, aborted>>

-----------------------------------------------------------------------------
Application(t) ==
    \/ \E n \in Names : \/ XLinkOpenStream(t, n) \/ XLinkWriteData(t, n)
                        \/ ReadAndRelease(t, n)  \/ XLinkCloseStream(t, n)
    \/ OpenReturns(t)

Dispatch(t) ==
    \/ DispatchCreate(t) \/ DispatchWrite(t) \/ DispatchRelease(t)
    \/ DispatchClose(t) \/ DispatchAborts(t)

Remotely(p) ==
    \/ handleIncomingEvent(p) \/ IncomingAborts(p)
    \/ HandleWrite(p) \/ HandleRelease(p) \/ HandleReleaseAborts(p)
    \/ HandleCreate(p) \/ HandleClose(p) \/ HandleResponse(p)

Next ==
    \/ \E t \in Threads : Application(t) \/ Dispatch(t)
    \/ \E p \in Peers : Remotely(p)

Spec == Init /\ [][Next]_vars

\* one peer alone opens streams
OneWay == Cardinality(app.openers) = 1

\* The threads of both peers run, and a peer reads what it has been sent.  It is
\* stated of the links that CloseReturns speaks of.
Fairness ==
    /\ \A t \in Threads : WF_vars(OneWay /\ (OpenReturns(t) \/ Dispatch(t)))
    /\ \A p \in Peers : WF_vars(OneWay /\ Remotely(p))
    /\ \A p \in Peers : WF_vars(OneWay /\ \E t \in Threads, n \in Names :
                                    t[1] = p /\ ReadAndRelease(t, n))

FairSpec == Spec /\ Fairness

-----------------------------------------------------------------------------
(* Properties *)

\* No event refers to a stream that its receiver, or its sender when it is
\* dispatched, does not have, as long as applications do not close a stream that
\* they use: ASSERT_X_LINK(stream) never ends the process.
NoAbort == app.exclusive => ~aborted

\* No message of the stream is under way and no call on it waits for one.
Quiet(n) ==
    /\ \A p \in Peers : \A i \in DOMAIN wire[p] : wire[p][i].name # n
    /\ \A p \in Peers : \A i \in DOMAIN rQueue[p] : rQueue[p][i].name # n

\* When nothing is under way, the two peers agree on a stream: its id, the size
\* each may write and the other holds, and the packets that are charged.
StreamsAgree ==
    app.exclusive => \A n \in Names : Quiet(n) =>
        \A p, q \in Peers : p # q =>
            /\ stream[p][n].id = stream[q][n].id
            /\ stream[p][n].writeSize = stream[q][n].readSize
            /\ stream[p][n].remoteFill = stream[q][n].unread + stream[q][n].held

\* A close that is blocked has a release to wait for: the last one wakes it
\* (closeStreamInitiated, "with every released packet check if the stream is
\* already marked for close").
CloseNotForgotten ==
    \A t \in Threads :
        event[t].type = "CLOSE" /\ event[t].at = "blocked" =>
            \A n \in WithId(t[1], event[t].id) : stream[t[1]][n].remoteFill > 0

\* A peer has let go of a stream only when it has nothing more to read from it
\* and nothing is on its way: closing loses no packet.
ClosedStreamEmpty ==
    app.exclusive => \A p \in Peers, n \in Names :
        stream[p][n].readSize = 0 =>
            /\ stream[p][n].unread = 0 /\ stream[p][n].held = 0
            /\ \A i \in DOMAIN wire[Other(p)] :
                    ~(IsRequest(wire[Other(p)][i], "WRITE") /\ wire[Other(p)][i].name = n)

\* Opening a stream again never leaves its semaphore taken.
NoStreamLocked == \A p \in Peers, n \in Names : ~stream[p][n].locked

\* A call that waits for the peer has one request or response under way, and no
\* other call has: a response finds its request, whatever became of the stream.
Messages(t) ==
    UNION {{<<"wire", p, i>> : i \in {j \in DOMAIN wire[p] : wire[p][j].thread = t}} \cup
           {<<"rQueue", p, i>> : i \in {j \in DOMAIN rQueue[p] : rQueue[p][j].thread = t}}
           : p \in Peers}
AnswerOnItsWay ==
    ~aborted => \A t \in Threads :
        Cardinality(Messages(t)) = IF event[t].at = "pending" THEN 1 ELSE 0

\* Every close of a stream that one peer writes and the other reads returns.
CloseReturns ==
    \A t \in Threads : OneWay /\ event[t].type = "CLOSE" ~> event[t] = Idle
=============================================================================
