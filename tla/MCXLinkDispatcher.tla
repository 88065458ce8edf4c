------------------------- MODULE MCXLinkDispatcher -------------------------
(* XLinkDispatcher on small instances, and its refinement of XLinkEventQueues. *)
EXTENDS XLinkDispatcher, TLC

CONSTANTS c1, c2, c3

Symmetry == Permutations(Clients)

MCCalls(n) == [c \in Clients |-> n]

Up == "failure" :> 0 @@ "reset" :> 0
Ends == "failure" :> 1 @@ "reset" :> 1

\* Two threads that make two calls each and a thread of the peer.
MCPair == {MCCalls(2) @@ None :> 1 @@ Up}

\* Two threads that go round the ring.
MCFour == {MCCalls(4) @@ None :> 0 @@ Up}

\* One thread that goes round the ring; one that goes round it while another waits;
\* three, more than there are semaphores; two on a link that ends.
MCRing ==
    {c1 :> 6 @@ None :> 1 @@ MCCalls(0) @@ Up,
     c1 :> 4 @@ c2 :> 1 @@ None :> 0 @@ MCCalls(0) @@ Up,
     None :> 0 @@ MCCalls(1) @@ Up,
     c1 :> 2 @@ c2 :> 1 @@ None :> 0 @@ MCCalls(0) @@ Ends}

\* the rings seen as queues, the slots in a state as the set of their events
InState(states) == {lq[s].packet : s \in {t \in Slots : lq[t].state \in states}}

Queues == INSTANCE XLinkEventQueues WITH
    LocalEvents <- Events,
    localQ  <- IF InOrder THEN LocalQueue ELSE <<>>,
    remoteQ <- IF InOrder THEN RemoteQueue ELSE <<>>,
    ResetRequests <- {ResetRequest},
    current <- IF ~InOrder \/ AtNext \/ disp.resetXLink THEN None
               ELSE IF disp.at = "remote" THEN rq[disp.slot]
               ELSE Current,
    down    <- InOrder /\ disp.resetXLink,
    parked  <- IF InOrder THEN InState({"BLOCKED", "READY"}) ELSE {},
    sent    <- IF InOrder THEN InState({"PENDING"}) ELSE {}

\* As long as no thread waits while others go round the ring, the rings behave
\* as two first-in first-out queues: an event is dispatched once, in the order it
\* was added, local ones first, and a response only for a request that waits for
\* it (getNextQueueElemToProc, addNextQueueElemToProc).
ImplementsQueues == Queues!Spec
=============================================================================
