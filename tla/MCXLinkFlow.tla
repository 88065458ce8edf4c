---------------------------- MODULE MCXLinkFlow ----------------------------
(***************************************************************************)
(* TLC instances of XLinkFlow, the properties that add up bytes, and the   *)
(* refinement of the bounded pipe XLinkPipe.                               *)
(***************************************************************************)
EXTENDS XLinkFlow

sizesOf(messages) == [i \in 1..Len(messages) |-> messages[i].size]

\* The packets a reader has still to get: those the receiver has stored are
\* older than those on the wire.
Pipe == INSTANCE XLinkPipe WITH
            unread  <- available \o sizesOf(writeWire),
            reading <- held

\* A stream behaves as a bounded pipe towards its applications, whatever the
\* order in which the two dispatchers and the reader threads run.
ImplementsPipe == Pipe!PipeSpec

\* The fill levels of both peers count bytes exactly: localFillLevel those the
\* receiver stores, remoteFillLevel those and all that are under way in either
\* direction.  Neither counter, unsigned in the code, can wrap.
ByteCredit ==
    /\ localFillLevel = Pipe!Bytes(available) + Pipe!Bytes(held)
    /\ remoteFillLevel = localFillLevel + Pipe!Bytes(sizesOf(writeWire))
                                        + Pipe!Bytes(sizesOf(relWire))
    /\ remoteFillLevel <= WriteSize
=============================================================================
