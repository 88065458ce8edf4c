-------------------------- MODULE XLinkEventQueues --------------------------
(***************************************************************************)
(* What the rings, cursors and slot states of XLinkDispatcher are to give  *)
(* the control functions: two first-in first-out queues, of which the      *)
(* local one goes first.  An event is taken from its queue once; it is     *)
(* handled again only while it is parked (blocked, or ready to be tried    *)
(* again); and a response is handled only for a request that was sent.     *)
(* Once the link is reset, nothing more is handled.                        *)
(***************************************************************************)
EXTENDS Sequences

CONSTANTS LocalEvents, RemoteRequests, ResetRequests, None

VARIABLES
    localQ, remoteQ,   \* what has been added and not taken
    current,           \* what is being handled
    parked,            \* local events that were blocked
    sent,              \* local events that wait for the peer's response
    down               \* the link is reset

vars == <<localQ, remoteQ, current, parked, sent, down>>

Init ==
    /\ localQ = <<>> /\ remoteQ = <<>>
    /\ current = None
    /\ parked = {} /\ sent = {}
    /\ down = FALSE

AddLocal ==
    /\ \E event \in LocalEvents : localQ' = Append(localQ, event)
    /\ UNCHANGED <<remoteQ, current, parked, sent, down>>

AddRemote ==
    /\ \E event \in RemoteRequests \cup ResetRequests \cup sent : remoteQ' = Append(remoteQ, event)
    /\ UNCHANGED <<localQ, current, parked, sent, down>>

TakeLocal ==
    /\ current = None /\ ~down
    /\ localQ # <<>>
    /\ current' = Head(localQ)
    /\ localQ' = Tail(localQ)
    /\ UNCHANGED <<remoteQ, parked, sent, down>>

TakeRemote ==
    /\ current = None /\ ~down
    /\ localQ = <<>>
    /\ remoteQ # <<>>
    /\ current' = Head(remoteQ)
    /\ remoteQ' = Tail(remoteQ)
    /\ UNCHANGED <<localQ, parked, sent, down>>

Resume ==
    /\ current = None /\ ~down
    /\ current' \in parked
    /\ UNCHANGED <<localQ, remoteQ, parked, sent, down>>

\* the event is done with, parked, or sent to the peer
Finish ==
    /\ current \notin ResetRequests \cup {None}
    /\ current' = None
    /\ LET rest == parked \ {current}
           wait == sent \ {current}
       IN  \/ parked' = rest /\ sent' = wait
           \/ parked' = rest \cup {current} /\ sent' = sent
           \/ parked' = rest /\ sent' = sent \cup {current}
    /\ current \in RemoteRequests => UNCHANGED <<parked, sent>>
    /\ UNCHANGED <<localQ, remoteQ, down>>

\* the request for a reset is the last event that is handled
Reset ==
    /\ current \in ResetRequests
    /\ current' = None
    /\ down' = TRUE
    /\ UNCHANGED <<localQ, remoteQ, parked, sent>>

\* what was queued is dropped, in order, and who was sent a request is given up
Drop ==
    /\ down
    /\ \/ /\ localQ # <<>> /\ localQ' = Tail(localQ)
          /\ UNCHANGED <<remoteQ, sent>>
       \/ /\ localQ = <<>> /\ remoteQ # <<>> /\ remoteQ' = Tail(remoteQ)
          /\ UNCHANGED <<localQ, sent>>
       \/ /\ \E event \in sent : sent' = sent \ {event}
          /\ UNCHANGED <<localQ, remoteQ>>
    /\ UNCHANGED <<current, parked, down>>

Next ==
    \/ AddLocal \/ AddRemote \/ TakeLocal \/ TakeRemote \/ Resume \/ Finish
    \/ Reset \/ Drop

Spec == Init /\ [][Next]_vars
=============================================================================
