----------------------------- MODULE XLinkFlow -----------------------------
(***************************************************************************)
(* Credit-based flow control of one direction of one XLink stream          *)
(* (XLink/shared/XLink.c).                                                 *)
(*                                                                         *)
(* The sending peer may have at most MaxPackets packets and WriteSize      *)
(* bytes outstanding.  It counts what it has sent in remoteFillLevel and   *)
(* remoteFillPacketLevel, and gets the credit back when the application    *)
(* of the other peer has released a packet and the READ_REL request for it *)
(* has come back.  A write without credit, and a read without a packet,    *)
(* stay BLOCKED in their dispatcher's queue until a remote request         *)
(* unblocks them.                                                          *)
(*                                                                         *)
(* Every peer has three kinds of threads: application threads (Writers,    *)
(* Readers), the reader thread (handleIncomingEvent) and the dispatcher.   *)
(* A dispatcher handles one event at a time, so each handler below is one  *)
(* action.  Which queued event comes next is left open: the rings of       *)
(* XLinkDispatcher.c are the subject of module XLinkDispatcher.            *)
(***************************************************************************)
EXTENDS Naturals, Sequences, FiniteSets

CONSTANTS
    Writers,     \* application threads that write to the stream
    Readers,     \* application threads of the other peer that read it
    Sizes,       \* the sizes of the packets they write, in bytes
    WriteSize,   \* the writeSize the stream was created with
    MaxPackets   \* USB_LINK_MAX_PACKETS_PER_STREAM

\* USB_LINK_MAX_PACKETS_PER_STREAM is positive, WriteSize is a buffer size
ASSUME SizeAssumption ==
    /\ WriteSize \in Nat
    /\ MaxPackets \in Nat \ {0}

\* a packet has data and fits the stream it is written to
ASSUME FitAssumption == Sizes \subseteq 1..WriteSize

\* the threads of a process are finitely many
ASSUME ThreadAssumption == IsFiniteSet(Writers) /\ IsFiniteSet(Readers)

VARIABLES
    (* the sending peer *)
    wpc,                    \* where each writer's WRITE_REQ event is
    wsize,                  \* the size of the packet it writes
    remoteFillLevel,        \* bytes sent and not known to be released
    remoteFillPacketLevel,  \* packets sent and not known to be released
    (* between the peers *)
    writeWire,              \* WRITE_REQs and their data, sent and not received
    relWire,                \* READ_REL_REQs sent by the receiver's dispatcher
    (* the receiving peer *)
    rQueue,                 \* WRITE_REQ events the reader thread has queued
    available,              \* packets received and not read
    held,                   \* packets read and not released (blockedPackets)
    localFillLevel,         \* bytes received and not released
    rpc                     \* where each reader's READ or READ_REL event is

sender   == <<wpc, wsize, remoteFillLevel, remoteFillPacketLevel>>
receiver == <<rQueue, available, held, localFillLevel, rpc>>
vars     == <<sender, writeWire, relWire, receiver>>

\* states of a writer: idle (no call), its event waiting for the dispatcher,
\* BLOCKED, READY, PENDING (sent), and PENDING with the response on its way
WriterStates == {"idle", "queued", "blocked", "ready", "pending", "acked"}

\* states of a reader: no call and no packet; a READ_REQ that waits, is BLOCKED
\* or READY; a packet in hand; a READ_REL_REQ that waits, is PENDING, is answered
ReaderStates == {"idle", "queued", "blocked", "ready", "holding",
                 "relQueued", "relPending", "relAcked"}

TypeOK ==
    /\ wpc \in [Writers -> WriterStates]
    /\ wsize \in [Writers -> Sizes \cup {0}]
    /\ \A w \in Writers : wpc[w] # "idle" => wsize[w] \in Sizes
    /\ remoteFillLevel \in Nat
    /\ remoteFillPacketLevel \in Nat
    /\ writeWire \in Seq([writer : Writers, size : Sizes])
    /\ relWire \in Seq([reader : Readers, size : Sizes])
    /\ rQueue \in Seq(Writers)
    /\ available \in Seq(Sizes)
    /\ held \in Seq(Sizes)
    /\ localFillLevel \in Nat
    /\ rpc \in [Readers -> ReaderStates]

Init ==
    /\ wpc = [w \in Writers |-> "idle"]
    /\ wsize = [w \in Writers |-> 0]
    /\ remoteFillLevel = 0
    /\ remoteFillPacketLevel = 0
    /\ writeWire = <<>>
    /\ relWire = <<>>
    /\ rQueue = <<>>
    /\ available = <<>>
    /\ held = <<>>
    /\ localFillLevel = 0
    /\ rpc = [r \in Readers |-> "idle"]

(***************************************************************************)
(* dispatcherUnblockEvent(-1, ...): the first BLOCKED event of the type    *)
(* becomes READY, if there is one.  Which one is first depends on where    *)
(* the events lie in the ring, so any of them may be.                      *)
(***************************************************************************)
\* MUTANTS: nobody is woken
NoUnblockWrite == wpc' = wpc
NoUnblockRead == rpc' = rpc

UnblockWrite ==
    IF \E w \in Writers : wpc[w] = "blocked"
    THEN \E w \in Writers : wpc[w] = "blocked" /\ wpc' = [wpc EXCEPT ![w] = "ready"]
    ELSE wpc' = wpc

UnblockRead ==
    IF \E r \in Readers : rpc[r] = "blocked"
    THEN \E r \in Readers : rpc[r] = "blocked" /\ rpc' = [rpc EXCEPT ![r] = "ready"]
    ELSE rpc' = rpc

\* MUTANT: one packet too many fits
SpaceForOneMore(size) ==
    /\ remoteFillPacketLevel <= MaxPackets
    /\ remoteFillLevel + size <= WriteSize

isStreamSpaceEnoughFor(size) ==
    /\ remoteFillPacketLevel < MaxPackets
    /\ remoteFillLevel + size <= WriteSize

-----------------------------------------------------------------------------
(* The sending peer *)

\* an application thread queues a WRITE_REQ and waits for it to be served
XLinkWriteData(w, size) ==
    /\ wpc[w] = "idle"
    /\ wpc' = [wpc EXCEPT ![w] = "queued"]
    /\ wsize' = [wsize EXCEPT ![w] = size]
    /\ UNCHANGED <<remoteFillLevel, remoteFillPacketLevel, writeWire, relWire, receiver>>

\* MUTANT: the bytes are not charged
SendUncharged(w) ==
    /\ wpc[w] \in {"queued", "ready"}
    /\ isStreamSpaceEnoughFor(wsize[w])
    /\ remoteFillPacketLevel' = remoteFillPacketLevel + 1
    /\ writeWire' = Append(writeWire, [writer |-> w, size |-> wsize[w]])
    /\ wpc' = [wpc EXCEPT ![w] = "pending"]
    /\ UNCHANGED <<wsize, remoteFillLevel, relWire, receiver>>

\* the dispatcher takes a new or READY WRITE_REQ and there is credit: it is
\* charged to the stream and the header and the data are sent
SendWrite(w) ==
    /\ wpc[w] \in {"queued", "ready"}
    /\ isStreamSpaceEnoughFor(wsize[w])
    /\ remoteFillLevel' = remoteFillLevel + wsize[w]
    /\ remoteFillPacketLevel' = remoteFillPacketLevel + 1
    /\ writeWire' = Append(writeWire, [writer |-> w, size |-> wsize[w]])
    /\ wpc' = [wpc EXCEPT ![w] = "pending"]
    /\ UNCHANGED <<wsize, relWire, receiver>>

\* there is no credit: the event is BLOCKED
BlockWrite(w) ==
    /\ wpc[w] \in {"queued", "ready"}
    /\ ~isStreamSpaceEnoughFor(wsize[w])
    /\ wpc' = [wpc EXCEPT ![w] = "blocked"]
    /\ UNCHANGED <<wsize, remoteFillLevel, remoteFillPacketLevel,
                   writeWire, relWire, receiver>>

\* MUTANT: only the bytes are given back
ReleaseBytesOnly ==
    /\ relWire # <<>>
    /\ remoteFillLevel' = remoteFillLevel - Head(relWire).size
    /\ relWire' = Tail(relWire)
    /\ UnblockWrite
    /\ rpc' = [rpc EXCEPT ![Head(relWire).reader] = "relAcked"]
    /\ UNCHANGED <<wsize, remoteFillPacketLevel, writeWire, rQueue, available, held,
                   localFillLevel>>

\* the dispatcher handles a READ_REL_REQ of the peer: the credit comes back,
\* one blocked write is woken, and the READ_REL_RESP is sent
RemoteRelease ==
    /\ relWire # <<>>
    /\ remoteFillLevel' = remoteFillLevel - Head(relWire).size
    /\ remoteFillPacketLevel' = remoteFillPacketLevel - 1
    /\ relWire' = Tail(relWire)
    /\ UnblockWrite
    /\ rpc' = [rpc EXCEPT ![Head(relWire).reader] = "relAcked"]
    /\ UNCHANGED <<wsize, writeWire, rQueue, available, held, localFillLevel>>

\* the WRITE_RESP is matched with the request and the writer returns
WriteResponse(w) ==
    /\ wpc[w] = "acked"
    /\ wpc' = [wpc EXCEPT ![w] = "idle"]
    /\ wsize' = [wsize EXCEPT ![w] = 0]
    /\ UNCHANGED <<remoteFillLevel, remoteFillPacketLevel, writeWire, relWire, receiver>>

-----------------------------------------------------------------------------
(* The receiving peer *)

\* the reader thread: the packet is stored before the event is queued.  That
\* addNewPacketToStream finds a free place (it is followed by an assert(0)
\* otherwise) is the invariant NoStreamOverflow.
handleIncomingWrite ==
    /\ writeWire # <<>>
    /\ localFillLevel' = localFillLevel + Head(writeWire).size
    /\ available' = Append(available, Head(writeWire).size)
    /\ rQueue' = Append(rQueue, Head(writeWire).writer)
    /\ writeWire' = Tail(writeWire)
    /\ UNCHANGED <<sender, relWire, held, rpc>>

\* the dispatcher handles the queued WRITE_REQ: it wakes one blocked read and
\* sends the WRITE_RESP
RemoteWrite ==
    /\ rQueue # <<>>
    /\ rQueue' = Tail(rQueue)
    /\ UnblockRead
    /\ wpc' = [wpc EXCEPT ![Head(rQueue)] = "acked"]
    /\ UNCHANGED <<wsize, remoteFillLevel, remoteFillPacketLevel,
                   writeWire, relWire, available, held, localFillLevel>>

\* an application thread queues a READ_REQ and waits for it to be served
XLinkReadData(r) ==
    /\ rpc[r] = "idle"
    /\ rpc' = [rpc EXCEPT ![r] = "queued"]
    /\ UNCHANGED <<sender, writeWire, relWire, rQueue, available, held, localFillLevel>>

\* MUTANT: the newest packet is served
ServeNewest(r) ==
    /\ rpc[r] \in {"queued", "ready"}
    /\ available # <<>>
    /\ held' = Append(held, available[Len(available)])
    /\ available' = SubSeq(available, 1, Len(available) - 1)
    /\ rpc' = [rpc EXCEPT ![r] = "holding"]
    /\ UNCHANGED <<sender, writeWire, relWire, rQueue, localFillLevel>>

\* the dispatcher serves a READ_REQ with the oldest packet nobody has read
ServeRead(r) ==
    /\ rpc[r] \in {"queued", "ready"}
    /\ available # <<>>
    /\ held' = Append(held, Head(available))
    /\ available' = Tail(available)
    /\ rpc' = [rpc EXCEPT ![r] = "holding"]
    /\ UNCHANGED <<sender, writeWire, relWire, rQueue, localFillLevel>>

\* there is none: the event is BLOCKED
BlockRead(r) ==
    /\ rpc[r] \in {"queued", "ready"}
    /\ available = <<>>
    /\ rpc' = [rpc EXCEPT ![r] = "blocked"]
    /\ UNCHANGED <<sender, writeWire, relWire, rQueue, available, held, localFillLevel>>

\* a thread that has read a packet queues a READ_REL_REQ
XLinkReleaseData(r) ==
    /\ rpc[r] = "holding"
    /\ rpc' = [rpc EXCEPT ![r] = "relQueued"]
    /\ UNCHANGED <<sender, writeWire, relWire, rQueue, available, held, localFillLevel>>

\* MUTANT: the local fill level keeps the released packet
ReleaseUncounted(r) ==
    /\ rpc[r] = "relQueued"
    /\ held # <<>>
    /\ relWire' = Append(relWire, [reader |-> r, size |-> Head(held)])
    /\ held' = Tail(held)
    /\ rpc' = [rpc EXCEPT ![r] = "relPending"]
    /\ UNCHANGED <<sender, localFillLevel, writeWire, rQueue, available>>

\* the dispatcher frees the oldest packet that is read and not released,
\* whoever read it, and sends the READ_REL_REQ with its size.  That there is one
\* (releasePacketFromStream sends an uninitialised size otherwise) is the
\* invariant ReleaseHasPacket.
ServeRelease(r) ==
    /\ rpc[r] = "relQueued"
    /\ held # <<>>
    /\ localFillLevel' = localFillLevel - Head(held)
    /\ relWire' = Append(relWire, [reader |-> r, size |-> Head(held)])
    /\ held' = Tail(held)
    /\ rpc' = [rpc EXCEPT ![r] = "relPending"]
    /\ UNCHANGED <<sender, writeWire, rQueue, available>>

\* the READ_REL_RESP is matched with the request and the thread returns
ReleaseResponse(r) ==
    /\ rpc[r] = "relAcked"
    /\ rpc' = [rpc EXCEPT ![r] = "idle"]
    /\ UNCHANGED <<sender, writeWire, relWire, rQueue, available, held, localFillLevel>>

-----------------------------------------------------------------------------
SenderStep(w) == SendWrite(w) \/ BlockWrite(w) \/ WriteResponse(w)

ReaderStep(r) ==
    ServeRead(r) \/ BlockRead(r) \/ ServeRelease(r) \/ ReleaseResponse(r)

Next ==
    \/ \E w \in Writers, size \in Sizes : XLinkWriteData(w, size)
    \/ \E w \in Writers : SenderStep(w)
    \/ RemoteRelease
    \/ handleIncomingWrite
    \/ RemoteWrite
    \/ \E r \in Readers : XLinkReadData(r) \/ XLinkReleaseData(r) \/ ReaderStep(r)

Spec == Init /\ [][Next]_vars

\* The dispatcher and reader threads of both peers run for ever and serve every
\* event they are given; the receiving application reads and releases in a loop.
Fairness ==
    /\ \A w \in Writers : WF_vars(SenderStep(w))
    /\ WF_vars(handleIncomingWrite)
    /\ WF_vars(RemoteWrite)
    /\ WF_vars(RemoteRelease)
    /\ \A r \in Readers :
        /\ WF_vars(ReaderStep(r))
        /\ WF_vars(XLinkReadData(r))
        /\ WF_vars(XLinkReleaseData(r))

FairSpec == Spec /\ Fairness

-----------------------------------------------------------------------------
(* Properties *)

\* What the sender believes to be outstanding is exactly what is on its way,
\* in the receiver's stream, or released with the credit on its way back.
PacketCredit ==
    remoteFillPacketLevel
        = Len(writeWire) + Len(available) + Len(held) + Len(relWire)

\* A request under way belongs to one thread, which is waiting for its response:
\* the response finds a PENDING event to serve (dispatcherResponseServe aborts
\* with "no request for this response" otherwise), and no thread is answered
\* twice.
RequestsPending ==
    /\ \A i \in DOMAIN writeWire : wpc[writeWire[i].writer] = "pending"
    /\ \A i \in DOMAIN rQueue : wpc[rQueue[i]] = "pending"
    /\ \A i \in DOMAIN relWire : rpc[relWire[i].reader] = "relPending"
    /\ \A i, j \in DOMAIN writeWire :
            writeWire[i].writer = writeWire[j].writer => i = j
    /\ \A i, j \in DOMAIN rQueue : rQueue[i] = rQueue[j] => i = j
    /\ \A i \in DOMAIN writeWire, j \in DOMAIN rQueue : writeWire[i].writer # rQueue[j]
    /\ \A i, j \in DOMAIN relWire : relWire[i].reader = relWire[j].reader => i = j

\* The fill levels, unsigned in the code, never wrap, and the sender never
\* believes that less is stored at the receiver than there is.
FillLevelsInRange ==
    /\ 0 <= localFillLevel
    /\ localFillLevel <= remoteFillLevel
    /\ remoteFillLevel <= WriteSize

\* A packet that arrives finds a free place in packets[]: the assert(0) after
\* addNewPacketToStream in handleIncomingEvent is never reached.
NoStreamOverflow ==
    writeWire # <<>> => Len(available) + Len(held) < MaxPackets

\* A READ_REL_REQ finds a packet to release: releasePacketFromStream never
\* takes its "There is no packet to release" path, which leaves the size that
\* is sent to the peer uninitialised.
ReleaseHasPacket ==
    \A r \in Readers : rpc[r] = "relQueued" => held # <<>>

\* The accounts of the two sides: credit is neither lost nor made, no fill level
\* wraps, every response finds its request and every release its packet.
Accounted == PacketCredit /\ FillLevelsInRange /\ RequestsPending /\ ReleaseHasPacket

\* No lost wake-up of a write: while one is BLOCKED another is already READY, or
\* credit is still to come back whose READ_REL_REQ will wake one.
WriterWakeup ==
    (\E w \in Writers : wpc[w] = "blocked") =>
        \/ \E w \in Writers : wpc[w] = "ready"
        \/ remoteFillPacketLevel > 0

\* No lost wake-up of a read: while one is BLOCKED, every packet it could have
\* is announced by a WRITE_REQ the dispatcher has still to handle, or is the
\* one a READY read was woken for.
ReaderWakeup ==
    (\E r \in Readers : rpc[r] = "blocked") =>
        Len(available) <= Len(rQueue) + Cardinality({r \in Readers : rpc[r] = "ready"})

\* No lost wake-up of either kind.
NoLostWakeups == WriterWakeup /\ ReaderWakeup

\* A write that is BLOCKED does not stop the stream: some write completes.
WriteProgress ==
    (\E w \in Writers : wpc[w] = "blocked") ~> (\E w \in Writers : wpc[w] = "acked")

\* A read that is BLOCKED when a packet comes in is not forgotten: some thread
\* gets a packet.
ReadProgress ==
    (available # <<>> /\ \E r \in Readers : rpc[r] = "blocked")
        ~> (\E r \in Readers : rpc[r] = "holding")

\* Both ways, the stream goes on.
Progress == WriteProgress /\ ReadProgress
=============================================================================
