----------------------------- MODULE XLinkPipe -----------------------------
(***************************************************************************)
(* What one direction of an XLink stream promises its applications: a      *)
(* bounded pipe.  Packets come out in the order they went in, none is lost *)
(* or invented, and the packets that are in the pipe or in a reader's      *)
(* hands never exceed the receive buffer the stream was created with.      *)
(***************************************************************************)
EXTENDS Naturals, Sequences

CONSTANTS
    Sizes,       \* the sizes of packets
    WriteSize,   \* bytes of the receive buffer
    MaxPackets   \* packets of the receive buffer

VARIABLES
    unread,      \* packets written and not read, oldest first
    reading      \* packets read and not released, oldest first

Bytes(packets) ==
    LET sum[n \in 0..Len(packets)] == IF n = 0 THEN 0 ELSE sum[n - 1] + packets[n]
    IN  sum[Len(packets)]

PipeInit == unread = <<>> /\ reading = <<>>

Write(size) ==
    /\ Len(unread) + Len(reading) < MaxPackets
    /\ Bytes(unread) + Bytes(reading) + size <= WriteSize
    /\ unread' = Append(unread, size)
    /\ UNCHANGED reading

Read ==
    /\ unread # <<>>
    /\ reading' = Append(reading, Head(unread))
    /\ unread' = Tail(unread)

\* packets are released in the order in which they were read
Release ==
    /\ reading # <<>>
    /\ reading' = Tail(reading)
    /\ UNCHANGED unread

PipeNext == (\E size \in Sizes : Write(size)) \/ Read \/ Release

PipeSpec == PipeInit /\ [][PipeNext]_<<unread, reading>>
=============================================================================
