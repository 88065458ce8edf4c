------------------------ MODULE XLinkDispatcher_proofs ------------------------
(***************************************************************************)
(* Proofs about the event scheduler of XLinkDispatcher, for any number of  *)
(* threads, of calls and of slots, also when the rings are overrun: every  *)
(* variable keeps its type, reference counts count the slots that hold a   *)
(* semaphore, and a response finds the one request that waits for it.      *)
(* As long as the rings are used in order, a thread is woken by its own    *)
(* event and no request is sent twice; and if they are never full the      *)
(* dispatcher thread finds an event for every notification and the rings   *)
(* are two first-in first-out queues.                                      *)
(***************************************************************************)
EXTENDS MCXLinkDispatcher, Counting, SequenceTheorems

SlotRecords == [state : {"PENDING", "BLOCKED", "READY", "SERVED"},
                packet : Events \cup {None}, sem : Clients \cup {None}]

\* Types, without the bounds that the other parts imply.
TypesOf ==
    /\ lq \in [Slots -> SlotRecords]
    /\ lcur \in Slots /\ lproc \in Slots /\ rcur \in Slots /\ rproc \in Slots
    /\ rq \in [Slots -> Packets]
    /\ notify \in Nat
    /\ addEventSem \in {0, 1}
    /\ refs \in [Clients -> Nat]
    /\ semVal \in [Clients -> Nat]
    /\ pc \in [Clients -> {"idle", "checked", "added", "waiting", "returning", "asleep",
                         "failed"}]
    /\ load \in Loads
    /\ call \in [Clients -> Nat]
    /\ slot \in [Clients -> Slots]
    /\ reader \in [at : {"receive", "add", "notify", "ended"}, packet : Packets]
    /\ disp \in [at : {"next", "local", "remote", "posted", "join", "drain", "wake", "down"},
                 slot : Slots, resetXLink : BOOLEAN]
    /\ inFlight \in SUBSET Events
    /\ outstanding \in 0..load[None]
    /\ prevEvent \in Events \cup {None}
    /\ peerAborted \in BOOLEAN

\* A slot in use holds the event and the semaphore of one thread, and no two
\* slots the same call: a thread numbers its calls.
SlotsHoldCalls ==
    /\ \A s \in Slots :
        /\ lq[s].packet = None => lq[s].sem = None
        /\ lq[s].packet # None => /\ lq[s].sem = lq[s].packet.client
                                  /\ lq[s].packet.call <= call[lq[s].packet.client]
    /\ \A s, t \in Slots : lq[s].packet # None /\ lq[t].packet # None
                           /\ lq[s].packet.client = lq[t].packet.client
                           /\ lq[s].packet.call = lq[t].packet.call => s = t
    /\ \A c \in Clients : /\ call[c] <= load[c]
                          /\ pc[c] = "checked" => call[c] < load[c]

\* On its first way round the ring, cur has used the slots behind it, and what
\* lies ahead of curProc is untouched.
FirstRound ==
    /\ lproc <= lcur
    /\ \A s \in Slots : /\ lq[s].packet # None <=> s < lcur
                        /\ s >= lproc => lq[s].state = "SERVED"
    /\ disp.at = "local" => disp.slot < lproc
Rounds == FirstRound \/ \A s \in Slots : lq[s].packet # None

\* Where the dispatcher thread can be, before and after a reset, and that an
\* event it handles has not been sent.
DispatcherAt ==
    /\ disp.at \in {"local", "remote", "next"} => ~disp.resetXLink
    /\ disp.at \in {"join", "drain", "wake", "down"} => disp.resetXLink
    /\ disp.at = "local" => lq[disp.slot].state # "PENDING"

\* The peer's requests that it waits for are no fewer than those on their way.
Requested == {s \in Slots : rq[s] \in RemoteRequests}
RequestsQueued ==
    outstanding >= Cardinality(Requested)
                     + (IF reader.at = "add" /\ reader.packet \in RemoteRequests THEN 1 ELSE 0)

\* The slots of rQueue that are read: from curProc on to cur, and the one in hand.
Live(s) == \/ Distance(rproc, s) < Distance(rproc, rcur)
           \/ disp.at = "remote" /\ s = disp.slot
Received(event) == reader.at = "add" /\ reader.packet = event
Waits(event) == \E s \in Slots : /\ lq[s].state = "PENDING" /\ lq[s].packet = event
                                 /\ ~(disp.at = "posted" /\ disp.slot = s)

\* Until a reset, a request that was sent waits until its response is served,
\* and what stands for it is in one place: with the peer, with the reader
\* thread, or in a slot of rQueue that will be read.
ResponsesOnce ==
    ~disp.resetXLink =>
    /\ \A event \in inFlight : Waits(event) /\ ~Received(event)
    /\ reader.at = "add" /\ reader.packet \in Events => Waits(reader.packet)
    /\ \A s \in Slots : Live(s) /\ rq[s] \in Events =>
        /\ Waits(rq[s]) /\ rq[s] \notin inFlight /\ ~Received(rq[s])
        /\ \A t \in Slots : Live(t) /\ rq[t] = rq[s] => t = s

IInv == TypesOf /\ SemaphoreRefs /\ SlotsHoldCalls /\ Rounds /\ DispatcherAt
        /\ RequestsQueued /\ ResponsesOnce

-----------------------------------------------------------------------------
(* The rings                                                                *)

\* The slots are MaxEvents numbers.
LEMMA SlotNumbers ==
    /\ MaxEvents \in Nat /\ MaxEvents > 1
    /\ Slots \subseteq Nat /\ IsFiniteSet(Slots) /\ Cardinality(Slots) = MaxEvents
    /\ \A s \in Slots : s < MaxEvents /\ s >= 0
<1>1. MaxEvents \in Nat /\ MaxEvents > 1
  BY DispatcherAssumption
<1>2. IsFiniteSet(Slots) /\ Cardinality(Slots) = MaxEvents
  BY <1>1, FS_Interval DEF Slots
<1>. QED
  BY <1>1, <1>2 DEF Slots

\* The slots in the order in which they are met from one of them on.
LEMMA RingOrder ==
    ASSUME NEW a \in Slots
    PROVE  /\ CIRCULAR_INCREMENT(a) \in Slots
           /\ Distance(a, a) = 0
           /\ \A s \in Slots : Distance(a, s) \in Nat
           /\ \A s, t \in Slots : Distance(a, s) = Distance(a, t) => s = t
  BY SlotNumbers DEF Distance, CIRCULAR_INCREMENT, Slots

\* A step of cur adds its slot to those from curProc on.
LEMMA CurMoves ==
    ASSUME NEW a \in Slots, NEW b \in Slots, NEW s \in Slots,
           Distance(a, s) < Distance(a, CIRCULAR_INCREMENT(b))
    PROVE  Distance(a, s) < Distance(a, b) \/ s = b
  BY SlotNumbers DEF Distance, CIRCULAR_INCREMENT

\* A step of curProc takes the slot it has been at from them.
LEMMA CurProcMoves ==
    ASSUME NEW a \in Slots, NEW b \in Slots, a # b
    PROVE  /\ Distance(a, a) < Distance(a, b)
           /\ \A s \in Slots : LET n == CIRCULAR_INCREMENT(a) IN
                Distance(n, s) < Distance(n, b) => Distance(a, s) < Distance(a, b) /\ s # a
  BY SlotNumbers DEF Distance, CIRCULAR_INCREMENT

\* getNextElementWithState finds the nearest slot in the state, if there is one.
LEMMA NextElement ==
    ASSUME NEW start \in Slots, NEW state, HasState(state)
    PROVE  LET s == getNextElementWithState(start, state) IN
           /\ s \in Slots /\ lq[s].state = state
           /\ \A t \in Slots : lq[t].state = state => Distance(start, s) <= Distance(start, t)
<1> DEFINE Far == {Distance(start, s) : s \in {t \in Slots : lq[t].state = state}}
<1>1. Far \subseteq Nat /\ Far # {}
  BY RingOrder DEF HasState
<1>2. PICK d \in Far : \A e \in Far : d <= e
  BY <1>1, LeastOfNumbers
<1>3. PICK s \in Slots : lq[s].state = state /\ d = Distance(start, s)
  OBVIOUS
<1>4. \A t \in Slots : lq[t].state = state => Distance(start, s) <= Distance(start, t)
  BY <1>2, <1>3
<1>. QED
  BY <1>3, <1>4 DEF getNextElementWithState

\* remoteGetResponse finds the first blocked event of a type, if there is one.
LEMMA FirstBlockedElement ==
    ASSUME NEW type, Blocked(type) # {}
    PROVE  FirstBlocked(type) \in Blocked(type)
<1>1. Blocked(type) \subseteq Nat
  BY SlotNumbers DEF Blocked
<1>2. \E s \in Blocked(type) : \A t \in Blocked(type) : s <= t
  BY <1>1, LeastOfNumbers
<1>. QED
  BY <1>2 DEF FirstBlocked

-----------------------------------------------------------------------------
(* How the records change                                                   *)

\* Marking a slot changes its state and nothing else.
LEMMA Marked ==
    ASSUME TypesOf, NEW s \in Slots, NEW state \in {"PENDING", "BLOCKED", "READY", "SERVED"},
           Mark(s, state)
    PROVE  /\ lq' \in [Slots -> SlotRecords]
           /\ \A t \in Slots : /\ lq'[t].packet = lq[t].packet /\ lq'[t].sem = lq[t].sem
                               /\ lq'[t].state = IF t = s THEN state ELSE lq[t].state
<1>1. lq \in [Slots -> SlotRecords]
  BY DEF TypesOf
<1> DEFINE new == [lq[s] EXCEPT !.state = state]
<1>2. lq' = [lq EXCEPT ![s] = new]
  BY DEF Mark
<1>3. lq[s] \in SlotRecords
  BY <1>1
<1>4. /\ new \in SlotRecords
      /\ new.packet = lq[s].packet /\ new.sem = lq[s].sem /\ new.state = state
  BY <1>3 DEF SlotRecords
<1>. HIDE DEF new
<1>. QED
  BY <1>1, <1>2, <1>4

Fill(s, event, c) == lq' = [lq EXCEPT ![s].packet = event, ![s].sem = c]
\* An event and its semaphore take a slot, whose state they leave as it is.
LEMMA Filled ==
    ASSUME TypesOf, NEW s \in Slots, NEW event \in Events, NEW c \in Clients,
           Fill(s, event, c)
    PROVE  /\ lq' \in [Slots -> SlotRecords]
           /\ lq'[s].packet = event /\ lq'[s].sem = c
           /\ \A t \in Slots : lq'[t].state = lq[t].state /\ (t # s => lq'[t] = lq[t])
<1>1. lq \in [Slots -> SlotRecords]
  BY DEF TypesOf
<1> DEFINE first == [lq[s] EXCEPT !.packet = event]
           new   == [first EXCEPT !.sem = c]
<1>2. lq' = [lq EXCEPT ![s] = new]
  BY DEF Fill
<1>3. lq[s] \in SlotRecords
  BY <1>1
<1>4. new \in SlotRecords
  BY <1>3 DEF SlotRecords
<1>5. first.packet = event /\ first.state = lq[s].state /\ first \in SlotRecords
  BY <1>3 DEF SlotRecords
<1>6. new.packet = event /\ new.sem = c /\ new.state = lq[s].state
  BY <1>5 DEF SlotRecords
<1>. HIDE DEF first, new
<1>. QED
  BY <1>1, <1>2, <1>4, <1>6

DispRecords ==
    [at : {"next", "local", "remote", "posted", "join", "drain", "wake", "down"},
     slot : Slots, resetXLink : BOOLEAN]

\* The record of the dispatcher thread, when it goes on to another slot ...
LEMMA DispatcherMoves ==
    ASSUME disp \in DispRecords,
           NEW at \in {"next", "local", "remote", "posted", "join", "drain", "wake", "down"},
           NEW s \in Slots
    PROVE  [disp EXCEPT !.at = at, !.slot = s] \in DispRecords
  BY DEF DispRecords

\* ... and when it goes on with the slot it has, or begins a reset.
LEMMA DispatcherStays ==
    ASSUME disp \in DispRecords,
           NEW at \in {"next", "local", "remote", "posted", "join", "drain", "wake", "down"}
    PROVE  /\ [disp EXCEPT !.at = at] \in DispRecords
           /\ [disp EXCEPT !.at = at, !.resetXLink = TRUE] \in DispRecords
  BY DEF DispRecords

\* After an event the dispatcher thread looks for the next, or goes on with a reset.
LEMMA NextEventMoves ==
    ASSUME TypesOf, NextEvent
    PROVE  /\ disp' \in DispRecords
           /\ disp'.at = (IF disp.resetXLink THEN "wake" ELSE "next")
           /\ disp'.slot = disp.slot /\ disp'.resetXLink = disp.resetXLink
  BY DEF NextEvent, DispRecords, TypesOf

\* Posting a semaphore, also one that no slot refers to, leaves numbers.
LEMMA PostMoves ==
    ASSUME TypesOf, NEW s \in Slots, PostSemaphore(s)
    PROVE  /\ disp' \in DispRecords
           /\ disp'.at = "posted" /\ disp'.slot = s /\ disp'.resetXLink = disp.resetXLink
           /\ semVal' \in [Clients -> Nat]
<1>1. disp' \in DispRecords
  <2>1. disp \in DispRecords
    BY DEF TypesOf, DispRecords
  <2>2. disp' = [disp EXCEPT !.at = "posted", !.slot = s]
    BY DEF PostSemaphore
  <2>3. [disp EXCEPT !.at = "posted", !.slot = s] \in DispRecords
    BY <2>1, DispatcherMoves
  <2>. QED
    BY <2>2, <2>3
<1>2. disp'.at = "posted" /\ disp'.slot = s /\ disp'.resetXLink = disp.resetXLink
  BY DEF PostSemaphore, TypesOf
<1>3. semVal' \in [Clients -> Nat]
  <2> DEFINE owner == lq[s].sem
  <2>1. semVal \in [Clients -> Nat] /\ semVal' = [semVal EXCEPT ![owner] = semVal[owner] + 1]
    BY DEF PostSemaphore, TypesOf
  <2>. HIDE DEF owner
  <2>2. CASE owner \in Clients
    BY <2>1, <2>2
  <2>3. CASE owner \notin Clients
    <3>1. semVal' = semVal
      BY <2>1, <2>3
    <3>. QED
      BY <2>1, <3>1
  <2>. QED
    BY <2>2, <2>3
<1>. QED
  BY <1>1, <1>2, <1>3

\* The kinds of packets have no packet in common.
LEMMA PacketKinds ==
    /\ Events \subseteq Packets /\ RemoteRequests \subseteq Packets
    /\ ResetRequest \in Packets /\ None \in Packets
    /\ \A event \in Events : event \notin RemoteRequests \cup {ResetRequest, None}
    /\ \A request \in RemoteRequests : request \notin {ResetRequest, None}
    /\ ResetRequest # None
<1>1. \A event \in Events : event.client \in Clients
  BY DEF Events
<1>2. \A request \in RemoteRequests :
        /\ request.client = None /\ request.type \in {"WRITE_REQ", "READ_REL_REQ"}
  BY DEF RemoteRequests
<1>3. ResetRequest.client = None /\ ResetRequest.type = "RESET_REQ"
  BY DEF ResetRequest
<1>. QED
  BY <1>1, <1>2, <1>3, DispatcherAssumption, NoneIsNoPacket DEF Packets

\* The calls of an application, and the requests of the peer, are bounded.
LEMMA LoadBounds ==
    ASSUME load \in Loads
    PROVE  /\ MaxCalls \in Nat
           /\ \A c \in Clients \cup {None} : load[c] \in 0..MaxCalls
  BY DispatcherAssumption

\* The peer's requests in rQueue are finitely many.
LEMMA RequestsCounted == Cardinality(Requested) \in Nat
  BY SlotNumbers, CountOfPart DEF Requested

\* The event the dispatcher thread handles is one that was added.
LEMMA CurrentIsEvent ==
    ASSUME IInv, AtLocal PROVE disp.slot \in Slots /\ Current \in Events
<1>1. disp.slot \in Slots /\ disp.slot \in Nat /\ lproc \in Nat /\ lcur \in Nat
  BY SlotNumbers DEF IInv, TypesOf
<1>2. Current # None
  BY <1>1 DEF IInv, Rounds, FirstRound, AtLocal, Current
<1>. QED
  BY <1>2 DEF IInv, TypesOf, SlotRecords, Current

\* Rounds when the dispatcher thread marks a slot, or none.
LEMMA RoundsKept ==
    ASSUME TypesOf, Rounds, UNCHANGED <<lcur, lproc>>, disp'.at # "local",
           \A t \in Slots : lq'[t].packet = lq[t].packet,
           FirstRound => \A t \in Slots : t >= lproc => lq'[t].state = lq[t].state
    PROVE  Rounds'
<1>1. CASE FirstRound
  <2>1. FirstRound'
    BY <1>1 DEF FirstRound
  <2>. QED
    BY <2>1 DEF Rounds
<1>2. CASE \A t \in Slots : lq[t].packet # None
  BY <1>2 DEF Rounds
<1>. QED
  BY <1>1 DEF Rounds

\* A slot in the state is the nearest to itself.
LEMMA NearestIsFirst ==
    ASSUME NEW a \in Slots, NEW s \in Slots, Distance(a, s) <= Distance(a, a)
    PROVE  s = a
<1>1. Distance(a, s) \in Nat /\ Distance(a, a) = 0
  BY RingOrder
<1>2. Distance(a, s) = Distance(a, a)
  BY <1>1
<1>. QED
  BY RingOrder

\* Only the thread moves.
LEMMA CheckResetIInv ==
    ASSUME IInv, NEW c \in Clients, CheckReset(c) PROVE IInv'
<1> USE DEF IInv, CheckReset, local, remote, sems, peer
<1>1. TypesOf'
  BY DEF TypesOf
<1>2. SemaphoreRefs'
  BY DEF SemaphoreRefs
<1>3. SlotsHoldCalls'
  BY DEF SlotsHoldCalls
<1>4. Rounds'
  BY DEF Rounds, FirstRound
<1>5. DispatcherAt'
  BY DEF DispatcherAt
<1>6. RequestsQueued'
  BY DEF RequestsQueued, Requested
<1>7. ResponsesOnce'
  BY DEF ResponsesOnce, Live, Received, Waits
<1>. QED
  BY <1>1, <1>2, <1>3, <1>4, <1>5, <1>6, <1>7

\* Only the thread moves.
LEMMA AddAfterResetIInv ==
    ASSUME IInv, NEW c \in Clients, AddAfterReset(c) PROVE IInv'
<1> USE DEF IInv, AddAfterReset, local, remote, sems, peer
<1>1. TypesOf'
  BY DEF TypesOf
<1>2. SemaphoreRefs'
  BY DEF SemaphoreRefs
<1>3. SlotsHoldCalls'
  BY DEF SlotsHoldCalls
<1>4. Rounds'
  BY DEF Rounds, FirstRound
<1>5. DispatcherAt'
  BY DEF DispatcherAt
<1>6. RequestsQueued'
  BY DEF RequestsQueued, Requested
<1>7. ResponsesOnce'
  BY DEF ResponsesOnce
<1>. QED
  BY <1>1, <1>2, <1>3, <1>4, <1>5, <1>6, <1>7

\* The one step that moves a reference count: the event's slot has one semaphore less
\* and one more. The event is a new one, for the thread has just numbered it, and in
\* the first round its slot is cur.
LEMMA DispatcherAddEventIInv ==
    ASSUME IInv, NEW c \in Clients, NEW type \in Types, dispatcherAddEvent(c, type) PROVE IInv'
<1> USE DEF IInv, dispatcherAddEvent, HasState, Reference, NoMoreSemaphores,
           remote, client, peer
<1> DEFINE s     == getNextElementWithState(lcur, "SERVED")
           old   == lq[s].sem
           event == [client |-> c, call |-> call[c] + 1, type |-> type]
<1>1. /\ s \in Slots /\ lq[s].state = "SERVED"
      /\ \A t \in Slots : lq[t].state = "SERVED" => Distance(lcur, s) <= Distance(lcur, t)
  BY NextElement DEF TypesOf
<1>2. event \in Events /\ event # None /\ event.client = c /\ event.call = call[c] + 1
  <2>1. call[c] + 1 \in 1..MaxCalls
    BY LoadBounds DEF TypesOf, SlotsHoldCalls
  <2>. QED
    BY <2>1, PacketKinds DEF Events
<1>3. /\ lq' \in [Slots -> SlotRecords]
      /\ lq'[s].packet = event /\ lq'[s].sem = c
      /\ \A t \in Slots : lq'[t].state = lq[t].state /\ (t # s => lq'[t] = lq[t])
  <2>1. Fill(s, event, c)
    BY DEF Fill
  <2>. HIDE DEF s, event, dispatcherAddEvent
  <2>. QED
    BY <1>1, <1>2, <2>1, Filled
<1>4. \A d \in Clients :
        /\ refs'[d] = refs[d] + (IF d = c THEN 1 ELSE 0) - (IF d = old THEN 1 ELSE 0)
        /\ semVal'[d] \in Nat
  <2>1. CASE old = None
    BY DispatcherAssumption DEF TypesOf
  <2>2. CASE old # None
    <3>1. old \in Clients
      BY <1>1 DEF TypesOf, SlotRecords
    <3>. QED
      BY <2>2 DEF TypesOf
  <2>. QED
    BY <2>1, <2>2
<1>5. refs' = [d \in Clients |-> refs'[d]] /\ semVal' = [d \in Clients |-> semVal'[d]]
  BY DEF TypesOf
<1>6. lcur' = CIRCULAR_INCREMENT(s) /\ slot' = [slot EXCEPT ![c] = s]
  OBVIOUS
<1>. HIDE DEF s, old, event, dispatcherAddEvent
<1>7. ASSUME NEW d \in Clients
      PROVE  refs'[d] = Cardinality({t \in Slots : lq'[t].sem = d}) /\ refs'[d] \in Nat
  <2> DEFINE S == {t \in Slots : lq[t].sem = d}
             T == {t \in Slots : lq'[t].sem = d}
  <2>1. /\ S \in SUBSET Slots /\ T \in SUBSET Slots
        /\ \A t \in Slots \ {s} : t \in S <=> t \in T
        /\ s \in S <=> old = d
        /\ s \in T <=> c = d
    BY <1>1, <1>3 DEF old
  <2>2. refs[d] = Cardinality(S)
    BY DEF SemaphoreRefs
  <2>. HIDE DEF S, T
  <2>3. /\ Cardinality(S) \in Nat /\ Cardinality(T) \in Nat
        /\ (s \in S <=> s \in T) => Cardinality(T) = Cardinality(S)
        /\ s \notin S /\ s \in T => Cardinality(T) = Cardinality(S) + 1
        /\ s \in S /\ s \notin T => Cardinality(T) = Cardinality(S) - 1
    <3>1. IsFiniteSet(Slots)
      BY SlotNumbers
    <3>. QED
      BY <1>1, <2>1, <3>1, CountOneMoves
  <2>4. refs'[d] = Cardinality(T) /\ refs'[d] \in Nat
    BY <1>4, <2>1, <2>2, <2>3
  <2>. QED
    BY <2>4 DEF T
<1>8. TypesOf'
  <2>1. /\ refs' \in [Clients -> Nat] /\ semVal' \in [Clients -> Nat]
        /\ lcur' \in Slots /\ slot' \in [Clients -> Slots]
    BY <1>1, <1>4, <1>5, <1>6, <1>7, RingOrder DEF TypesOf
  <2>. QED
    BY <1>3, <2>1 DEF TypesOf, dispatcherAddEvent
<1>9. SemaphoreRefs'
  BY <1>7 DEF SemaphoreRefs
<1>10. SlotsHoldCalls'
  <2>1. pc[c] = "checked" /\ call' = [call EXCEPT ![c] = @ + 1] /\ pc' = [pc EXCEPT ![c] = "added"]
        /\ load' = load
    BY DEF dispatcherAddEvent
  <2>2. \A t \in Slots : lq[t].packet # None => lq[t].packet.call \in Nat /\ lq[t].packet.client \in Clients
    BY DEF TypesOf, SlotRecords, Events
  <2>3. \A d \in Clients : call'[d] >= call[d] /\ call[d] \in Nat
    BY <2>1 DEF TypesOf
  <2>4. \A t \in Slots : /\ lq'[t].packet = None => lq'[t].sem = None
                         /\ lq'[t].packet # None => /\ lq'[t].sem = lq'[t].packet.client
                                                    /\ lq'[t].packet.call <= call'[lq'[t].packet.client]
    <3>1. \A t \in Slots \ {s} : lq[t].packet # None => lq[t].packet.call <= call'[lq[t].packet.client]
      BY <2>1, <2>2, <2>3 DEF SlotsHoldCalls
    <3>2. event.call <= call'[c]
      BY <1>2, <2>1 DEF TypesOf
    <3>. QED
      BY <1>2, <1>3, <3>1, <3>2 DEF SlotsHoldCalls
  <2>5. \A t \in Slots : lq[t].packet # None /\ lq[t].packet.client = c => lq[t].packet.call # event.call
    <3>1. call[c] \in Nat
      BY DEF TypesOf
    <3>. QED
      BY <1>2, <2>2, <3>1 DEF SlotsHoldCalls
  <2>6. \A t, u \in Slots : lq'[t].packet # None /\ lq'[u].packet # None
                              /\ lq'[t].packet.client = lq'[u].packet.client
                              /\ lq'[t].packet.call = lq'[u].packet.call => t = u
    BY <1>2, <1>3, <2>5 DEF SlotsHoldCalls
  <2>7. \A d \in Clients : call'[d] <= load[d] /\ (pc'[d] = "checked" => call'[d] < load[d])
    BY <2>1, LoadBounds DEF SlotsHoldCalls, TypesOf
  <2>. QED
    BY <2>1, <2>4, <2>6, <2>7 DEF SlotsHoldCalls
<1>11. Rounds'
  <2>1. lproc' = lproc /\ disp' = disp
    BY DEF dispatcherAddEvent
  <2>2. CASE \A t \in Slots : lq[t].packet # None
    BY <1>2, <1>3, <2>2 DEF Rounds
  <2>3. CASE FirstRound
    <3>1. s = lcur
      <4>1. lcur \in Slots /\ lcur \in Nat /\ lproc \in Nat
        BY SlotNumbers DEF TypesOf
      <4>2. lq[lcur].state = "SERVED"
        BY <2>3, <4>1 DEF FirstRound
      <4>3. Distance(lcur, s) <= 0 /\ Distance(lcur, s) \in Nat /\ Distance(lcur, lcur) = 0
        BY <1>1, <4>1, <4>2, RingOrder
      <4>. QED
        BY <1>1, <4>1, <4>3, RingOrder
    <3>2. CASE s + 1 = MaxEvents
      <4>1. \A t \in Slots : lq'[t].packet # None
        BY <1>1, <1>2, <1>3, <2>3, <3>1, <3>2, SlotNumbers DEF FirstRound
      <4>. QED
        BY <4>1 DEF Rounds
    <3>3. CASE s + 1 # MaxEvents
      <4>1. lcur' = lcur + 1
        BY <1>6, <3>1, <3>3 DEF CIRCULAR_INCREMENT
      <4>2. lcur \in Nat /\ lproc \in Nat
        BY SlotNumbers DEF TypesOf
      <4>3. \A t \in Slots : t \in Nat /\ (lq'[t].packet # None <=> t < lcur + 1)
        BY <1>2, <1>3, <2>3, <3>1, <4>2, SlotNumbers DEF FirstRound
      <4>4. \A t \in Slots : t >= lproc => lq'[t].state = "SERVED"
        BY <1>3, <2>3 DEF FirstRound
      <4>. QED
        BY <2>1, <2>3, <4>1, <4>2, <4>3, <4>4 DEF FirstRound, Rounds
    <3>. QED
      BY <3>2, <3>3
  <2>. QED
    BY <2>2, <2>3 DEF Rounds
<1>12. DispatcherAt'
  BY DEF DispatcherAt, TypesOf, dispatcherAddEvent
<1>13. RequestsQueued'
  <2>1. UNCHANGED <<rq, outstanding, reader>>
    BY DEF dispatcherAddEvent
  <2>. QED
    BY <2>1 DEF RequestsQueued, Requested
<1>14. ResponsesOnce'
  <2>1. UNCHANGED <<rq, rcur, rproc, disp, reader, inFlight>>
    BY DEF dispatcherAddEvent
  <2>2. ASSUME NEW e, Waits(e) PROVE Waits(e)'
    BY <1>1, <1>3, <2>1, <2>2 DEF Waits
  <2>. QED
    BY <2>1, <2>2 DEF ResponsesOnce, Live, Received
<1>. QED
  BY <1>8, <1>9, <1>10, <1>11, <1>12, <1>13, <1>14

\* The caller keeps addEventSem; the rings stay as they are.
LEMMA AddEventFailsIInv ==
    ASSUME IInv, NEW c \in Clients, AddEventFails(c) PROVE IInv'
<1> USE DEF IInv, AddEventFails, NoMoreSemaphores, local, remote, sems, peer
<1>1. TypesOf'
  BY DEF TypesOf
<1>2. SemaphoreRefs'
  BY DEF SemaphoreRefs
<1>3. SlotsHoldCalls'
  BY DEF SlotsHoldCalls
<1>4. Rounds'
  BY DEF Rounds, FirstRound
<1>5. DispatcherAt'
  BY DEF DispatcherAt
<1>6. RequestsQueued'
  BY DEF RequestsQueued, Requested
<1>7. ResponsesOnce'
  BY DEF ResponsesOnce, Live, Received, Waits
<1>. QED
  BY <1>1, <1>2, <1>3, <1>4, <1>5, <1>6, <1>7

\* Only the thread and the number of notifications change.
LEMMA NotifyDispatcherIInv ==
    ASSUME IInv, NEW c \in Clients, NotifyDispatcher(c) PROVE IInv'
<1> USE DEF IInv, NotifyDispatcher, local, remote, sems, peer
<1>1. TypesOf'
  BY DEF TypesOf
<1>2. SemaphoreRefs'
  BY DEF SemaphoreRefs
<1>3. SlotsHoldCalls'
  BY DEF SlotsHoldCalls
<1>4. Rounds'
  BY DEF Rounds, FirstRound
<1>5. DispatcherAt'
  BY DEF DispatcherAt
<1>6. RequestsQueued'
  BY DEF RequestsQueued, Requested
<1>7. ResponsesOnce'
  BY DEF ResponsesOnce, Live, Received, Waits
<1>. QED
  BY <1>1, <1>2, <1>3, <1>4, <1>5, <1>6, <1>7

\* The thread has been posted; the slots and their counts stay.
LEMMA DispatcherWaitEventCompleteIInv ==
    ASSUME IInv, NEW c \in Clients, dispatcherWaitEventComplete(c) PROVE IInv'
<1> USE DEF IInv, dispatcherWaitEventComplete, local, remote, peer
<1>1. TypesOf'
  BY DEF TypesOf
<1>2. SemaphoreRefs'
  BY DEF SemaphoreRefs
<1>3. SlotsHoldCalls'
  BY DEF SlotsHoldCalls
<1>4. Rounds'
  BY DEF Rounds, FirstRound
<1>5. DispatcherAt'
  BY DEF DispatcherAt
<1>6. RequestsQueued'
  BY DEF RequestsQueued, Requested
<1>7. ResponsesOnce'
  BY DEF ResponsesOnce, Live, Received, Waits
<1>. QED
  BY <1>1, <1>2, <1>3, <1>4, <1>5, <1>6, <1>7

\* Only the thread moves.
LEMMA WaitEventFailsIInv ==
    ASSUME IInv, NEW c \in Clients, WaitEventFails(c) PROVE IInv'
<1> USE DEF IInv, WaitEventFails, local, remote, sems, peer
<1>1. TypesOf'
  BY DEF TypesOf
<1>2. SemaphoreRefs'
  BY DEF SemaphoreRefs
<1>3. SlotsHoldCalls'
  BY DEF SlotsHoldCalls
<1>4. Rounds'
  BY DEF Rounds, FirstRound
<1>5. DispatcherAt'
  BY DEF DispatcherAt
<1>6. RequestsQueued'
  BY DEF RequestsQueued, Requested
<1>7. ResponsesOnce'
  BY DEF ResponsesOnce, Live, Received, Waits
<1>. QED
  BY <1>1, <1>2, <1>3, <1>4, <1>5, <1>6, <1>7

\* Only the thread moves.
LEMMA WaitAfterResetIInv ==
    ASSUME IInv, NEW c \in Clients, WaitAfterReset(c) PROVE IInv'
<1> USE DEF IInv, WaitAfterReset, local, remote, sems, peer
<1>1. TypesOf'
  BY DEF TypesOf
<1>2. SemaphoreRefs'
  BY DEF SemaphoreRefs
<1>3. SlotsHoldCalls'
  BY DEF SlotsHoldCalls
<1>4. Rounds'
  BY DEF Rounds, FirstRound
<1>5. DispatcherAt'
  BY DEF DispatcherAt
<1>6. RequestsQueued'
  BY DEF RequestsQueued, Requested
<1>7. ResponsesOnce'
  BY DEF ResponsesOnce, DispatcherAt
<1>. QED
  BY <1>1, <1>2, <1>3, <1>4, <1>5, <1>6, <1>7

\* Only the thread moves.
LEMMA ReturnIInv ==
    ASSUME IInv, NEW c \in Clients, Return(c) PROVE IInv'
<1> USE DEF IInv, Return, local, remote, sems, peer
<1>1. TypesOf'
  BY DEF TypesOf
<1>2. SemaphoreRefs'
  BY DEF SemaphoreRefs
<1>3. SlotsHoldCalls'
  BY DEF SlotsHoldCalls
<1>4. Rounds'
  BY DEF Rounds, FirstRound
<1>5. DispatcherAt'
  BY DEF DispatcherAt
<1>6. RequestsQueued'
  BY DEF RequestsQueued, Requested
<1>7. ResponsesOnce'
  BY DEF ResponsesOnce, Live, Received, Waits
<1>. QED
  BY <1>1, <1>2, <1>3, <1>4, <1>5, <1>6, <1>7

\* The response passes from the peer to the reader thread.
LEMMA ReceiveResponseIInv ==
    ASSUME IInv, ReceiveResponse PROVE IInv'
<1> USE DEF IInv, ReceiveResponse, local, remote, sems, client
<1>1. PICK event \in inFlight : /\ inFlight' = inFlight \ {event}
                                /\ reader' = [at |-> "add", packet |-> event]
  OBVIOUS
<1>2. event \in Events /\ event \in Packets /\ event \notin RemoteRequests
  BY PacketKinds DEF TypesOf
<1>3. TypesOf'
  BY <1>1, <1>2 DEF TypesOf
<1>4. SemaphoreRefs'
  BY DEF SemaphoreRefs
<1>5. SlotsHoldCalls'
  BY DEF SlotsHoldCalls
<1>6. Rounds'
  BY DEF Rounds, FirstRound
<1>7. DispatcherAt'
  BY DEF DispatcherAt
<1>8. RequestsQueued'
  <2>1. Requested' = Requested /\ outstanding' = outstanding /\ reader.at # "add"
    BY DEF Requested
  <2>. HIDE DEF ReceiveResponse
  <2>. QED
    BY <1>1, <1>2, <2>1 DEF RequestsQueued
<1>9. ResponsesOnce'
  BY DEF ResponsesOnce, Live, Received, Waits
<1>. QED
  BY <1>3, <1>4, <1>5, <1>6, <1>7, <1>8, <1>9

\* A request of the peer is counted as it is received.
LEMMA ReceiveRequestIInv ==
    ASSUME IInv, ReceiveRequest PROVE IInv'
<1> USE DEF IInv, ReceiveRequest, local, remote, sems, client
<1>1. PICK request \in RemoteRequests : reader' = [at |-> "add", packet |-> request]
  OBVIOUS
<1>2. request \in Packets /\ request \notin Events
  BY PacketKinds
<1>3. TypesOf'
  BY <1>1, <1>2, LoadBounds DEF TypesOf
<1>4. SemaphoreRefs'
  BY DEF SemaphoreRefs
<1>5. SlotsHoldCalls'
  BY DEF SlotsHoldCalls
<1>6. Rounds'
  BY DEF Rounds, FirstRound
<1>7. DispatcherAt'
  BY DEF DispatcherAt
<1>8. RequestsQueued'
  <2>1. /\ Requested' = Requested /\ outstanding' = outstanding + 1 /\ outstanding \in Nat
        /\ reader.at # "add"
    BY DEF Requested, TypesOf
  <2>. HIDE DEF ReceiveRequest
  <2>. QED
    BY <2>1, RequestsCounted DEF RequestsQueued
<1>9. ResponsesOnce'
  <2>1. \A e \in Events : ~Received(e)'
    BY <1>1, <1>2 DEF Received
  <2>2. UNCHANGED <<lq, rq, rcur, rproc, disp, inFlight>> /\ inFlight \subseteq Events
    BY DEF TypesOf
  <2>. QED
    BY <1>1, <1>2, <2>1, <2>2 DEF ResponsesOnce, Live, Waits
<1>. QED
  BY <1>3, <1>4, <1>5, <1>6, <1>7, <1>8, <1>9

\* A reset request is neither a response nor counted.
LEMMA ReceiveResetRequestIInv ==
    ASSUME IInv, ReceiveResetRequest PROVE IInv'
<1> USE DEF IInv, ReceiveResetRequest, local, remote, sems, client, peer
<1>1. reader' = [at |-> "add", packet |-> ResetRequest]
  OBVIOUS
<1>2. ResetRequest \in Packets /\ ResetRequest \notin Events \cup RemoteRequests
  BY PacketKinds
<1>3. TypesOf'
  BY <1>2 DEF TypesOf
<1>4. SemaphoreRefs'
  BY DEF SemaphoreRefs
<1>5. SlotsHoldCalls'
  BY DEF SlotsHoldCalls
<1>6. Rounds'
  BY DEF Rounds, FirstRound
<1>7. DispatcherAt'
  BY DEF DispatcherAt
<1>8. RequestsQueued'
  <2>1. Requested' = Requested /\ outstanding' = outstanding /\ reader.at # "add"
    BY DEF Requested
  <2>. HIDE DEF ReceiveResetRequest
  <2>. QED
    BY <1>1, <1>2, <2>1 DEF RequestsQueued
<1>9. ResponsesOnce'
  <2>1. \A e \in Events : ~Received(e)'
    BY <1>2 DEF Received
  <2>2. UNCHANGED <<lq, rq, rcur, rproc, disp, inFlight>> /\ inFlight \subseteq Events
    BY DEF TypesOf
  <2>. QED
    BY <1>2, <2>1, <2>2 DEF ResponsesOnce, Live, Waits
<1>. QED
  BY <1>3, <1>4, <1>5, <1>6, <1>7, <1>8, <1>9

\* The reader thread ends and leaves nothing behind.
LEMMA ReadFailsIInv ==
    ASSUME IInv, ReadFails PROVE IInv'
<1> USE DEF IInv, ReadFails, local, remote, sems, client, peer
<1>1. TypesOf'
  BY DEF TypesOf
<1>2. SemaphoreRefs'
  BY DEF SemaphoreRefs
<1>3. SlotsHoldCalls'
  BY DEF SlotsHoldCalls
<1>4. Rounds'
  BY DEF Rounds, FirstRound
<1>5. DispatcherAt'
  BY DEF DispatcherAt
<1>6. RequestsQueued'
  BY DEF RequestsQueued, Requested
<1>7. ResponsesOnce'
  BY DEF ResponsesOnce, Live, Received, Waits
<1>. QED
  BY <1>1, <1>2, <1>3, <1>4, <1>5, <1>6, <1>7

\* The packet passes from the reader thread to a slot of rQueue, perhaps over one that
\* has not been read.
LEMMA AddRemoteEventIInv ==
    ASSUME IInv, AddRemoteEvent PROVE IInv'
<1> USE DEF IInv, AddRemoteEvent, local, sems, client, peer
<1>1. /\ reader.at = "add" /\ reader' = [at |-> "notify", packet |-> reader.packet]
      /\ reader.packet \in Packets
  BY DEF TypesOf
<1>2. rq' = [rq EXCEPT ![rcur] = reader.packet] /\ rcur' = CIRCULAR_INCREMENT(rcur)
  OBVIOUS
<1>3. TypesOf'
  BY RingOrder DEF TypesOf
<1>4. SemaphoreRefs'
  BY DEF SemaphoreRefs
<1>5. SlotsHoldCalls'
  BY DEF SlotsHoldCalls
<1>6. Rounds'
  BY DEF Rounds, FirstRound
<1>7. DispatcherAt'
  BY DEF DispatcherAt
<1>8. RequestsQueued'
  <2>1. /\ Requested \in SUBSET Slots /\ Requested' \in SUBSET Slots
        /\ \A t \in Slots \ {rcur} : t \in Requested <=> t \in Requested'
        /\ rcur \in Slots
        /\ rcur \in Requested' <=> reader.packet \in RemoteRequests
    BY DEF Requested, TypesOf
  <2>2. IsFiniteSet(Slots)
    BY SlotNumbers
  <2>3. /\ Cardinality(Requested) \in Nat /\ Cardinality(Requested') \in Nat
        /\ Cardinality(Requested') <= Cardinality(Requested) + 1
        /\ reader.packet \notin RemoteRequests => Cardinality(Requested') <= Cardinality(Requested)
    BY <2>1, <2>2, CountOneMoves
  <2>4. outstanding' = outstanding /\ outstanding \in Nat
    BY DEF TypesOf
  <2>. HIDE DEF AddRemoteEvent
  <2>. QED
    BY <1>1, <2>3, <2>4 DEF RequestsQueued
<1>9. ResponsesOnce'
  <2>1. /\ UNCHANGED <<lq, rproc, disp, inFlight>> /\ inFlight \subseteq Events
        /\ rcur \in Slots /\ rproc \in Slots /\ rq \in [Slots -> Packets]
    BY DEF TypesOf
  <2>2. \A e : ~Received(e)'
    BY DEF Received
  <2>3. \A e : Waits(e)' <=> Waits(e)
    BY DEF Waits
  <2>4. ASSUME NEW t \in Slots, Live(t)', t # rcur PROVE Live(t) /\ rq'[t] = rq[t]
    BY <2>1, <2>4, CurMoves DEF Live
  <2>5. rq'[rcur] = reader.packet
    BY <2>1
  <2>. HIDE DEF AddRemoteEvent
  <2>6. ASSUME ~disp.resetXLink, NEW t \in Slots, Live(t)', rq'[t] \in Events
        PROVE  /\ Waits(rq'[t]) /\ rq'[t] \notin inFlight
               /\ \A u \in Slots : Live(u)' /\ rq'[u] = rq'[t] => u = t
    BY <1>1, <2>4, <2>5, <2>6 DEF ResponsesOnce, Received
  <2>. QED
    BY <1>1, <2>1, <2>2, <2>3, <2>6 DEF ResponsesOnce
<1>. QED
  BY <1>3, <1>4, <1>5, <1>6, <1>7, <1>8, <1>9

\* The reader thread is ready for the next packet.
LEMMA NotifyRemoteEventIInv ==
    ASSUME IInv, NotifyRemoteEvent PROVE IInv'
<1> USE DEF IInv, NotifyRemoteEvent, NextReceive, local, remote, sems, client, peer
<1>1. TypesOf'
  BY PacketKinds DEF TypesOf
<1>2. SemaphoreRefs'
  BY DEF SemaphoreRefs
<1>3. SlotsHoldCalls'
  BY DEF SlotsHoldCalls
<1>4. Rounds'
  BY DEF Rounds, FirstRound
<1>5. DispatcherAt'
  BY DEF DispatcherAt
<1>6. RequestsQueued'
  BY DEF RequestsQueued, Requested
<1>7. ResponsesOnce'
  BY DEF ResponsesOnce, Live, Received, Waits
<1>. QED
  BY <1>1, <1>2, <1>3, <1>4, <1>5, <1>6, <1>7

\* A READY event is one that was added, so its slot has been used.
LEMMA TakeReadyEventIInv ==
    ASSUME IInv, TakeReadyEvent PROVE IInv'
<1> USE DEF IInv, TakeReadyEvent, AtNext, HasState, local, remote, sems, client,
           peer
<1> DEFINE s == getNextElementWithState(0, "READY")
<1>1. s \in Slots /\ lq[s].state = "READY" /\ disp.at = "next"
  <2>1. 0 \in Slots
    BY SlotNumbers DEF Slots
  <2>. QED
    BY <2>1, NextElement
<1>. HIDE DEF s
<1>2. /\ disp' \in DispRecords
      /\ disp'.at = "local" /\ disp'.slot = s /\ disp'.resetXLink = disp.resetXLink
  <2>1. disp' = [disp EXCEPT !.at = "local", !.slot = s]
    BY DEF s
  <2>2. disp \in DispRecords
    BY DEF TypesOf, DispRecords
  <2>3. [disp EXCEPT !.at = "local", !.slot = s] \in DispRecords
    BY <1>1, <2>2, DispatcherMoves
  <2>4. disp'.at = "local" /\ disp'.slot = s /\ disp'.resetXLink = disp.resetXLink
    BY <2>1, <2>2 DEF DispRecords
  <2>. QED
    BY <2>3, <2>4
<1>3. TypesOf'
  BY <1>2 DEF TypesOf, DispRecords
<1>4. SemaphoreRefs'
  BY DEF SemaphoreRefs
<1>5. SlotsHoldCalls'
  BY DEF SlotsHoldCalls
<1>6. Rounds'
  <2>1. FirstRound => s < lproc
    BY <1>1, SlotNumbers DEF FirstRound, TypesOf
  <2>. QED
    BY <1>2, <2>1 DEF Rounds, FirstRound
<1>7. DispatcherAt'
  BY <1>1, <1>2 DEF DispatcherAt
<1>8. RequestsQueued'
  BY DEF RequestsQueued, Requested
<1>9. ResponsesOnce'
  BY DEF ResponsesOnce, Live, Received, Waits
<1>. QED
  BY <1>3, <1>4, <1>5, <1>6, <1>7, <1>8, <1>9

\* The SERVED slot found from curProc is the one that cur has filled, or the rings
\* have been overrun and every slot has been used.
LEMMA TakeLocalEventIInv ==
    ASSUME IInv, TakeLocalEvent PROVE IInv'
<1> USE DEF IInv, TakeLocalEvent, AtNext, HasState, local, remote, sems, client,
           peer
<1> DEFINE s == getNextElementWithState(lproc, "SERVED")
<1>1. /\ s \in Slots /\ lq[s].state = "SERVED" /\ disp.at = "next" /\ lcur # lproc
      /\ \A t \in Slots : lq[t].state = "SERVED" => Distance(lproc, s) <= Distance(lproc, t)
  BY NextElement DEF TypesOf
<1>. HIDE DEF s
<1>2. /\ disp' \in DispRecords
      /\ disp'.at = "local" /\ disp'.slot = s /\ disp'.resetXLink = disp.resetXLink
  <2>1. disp' = [disp EXCEPT !.at = "local", !.slot = s]
    BY DEF s
  <2>2. disp \in DispRecords
    BY DEF TypesOf, DispRecords
  <2>3. [disp EXCEPT !.at = "local", !.slot = s] \in DispRecords
    BY <1>1, <2>2, DispatcherMoves
  <2>4. disp'.at = "local" /\ disp'.slot = s /\ disp'.resetXLink = disp.resetXLink
    BY <2>1, <2>2 DEF DispRecords
  <2>. QED
    BY <2>3, <2>4
<1>3. lproc' = CIRCULAR_INCREMENT(s) /\ lproc' \in Slots
  BY <1>1, RingOrder DEF s
<1>4. TypesOf'
  BY <1>2, <1>3 DEF TypesOf, DispRecords
<1>5. SemaphoreRefs'
  BY DEF SemaphoreRefs
<1>6. SlotsHoldCalls'
  BY DEF SlotsHoldCalls
<1>7. Rounds'
  <2>1. CASE FirstRound
    <3>1. /\ lproc \in Slots /\ lproc \in Nat /\ lcur \in Nat
          /\ lcur < MaxEvents /\ MaxEvents \in Nat
      BY SlotNumbers DEF TypesOf
    <3>2. lproc < lcur /\ lq[lproc].state = "SERVED"
      BY <2>1, <3>1 DEF FirstRound
    <3>3. s = lproc
      BY <1>1, <3>1, <3>2, NearestIsFirst
    <3>. HIDE DEF TakeLocalEvent
    <3>4. lproc' = lproc + 1
      BY <1>3, <3>1, <3>2, <3>3 DEF CIRCULAR_INCREMENT
    <3>. QED
      BY <1>2, <3>1, <3>3, <3>4, SlotNumbers DEF FirstRound, Rounds, TakeLocalEvent
  <2>2. CASE \A t \in Slots : lq[t].packet # None
    BY <2>2 DEF Rounds
  <2>. QED
    BY <2>1 DEF Rounds
<1>8. DispatcherAt'
  BY <1>1, <1>2 DEF DispatcherAt
<1>9. RequestsQueued'
  BY DEF RequestsQueued, Requested
<1>10. ResponsesOnce'
  BY DEF ResponsesOnce, Live, Received, Waits
<1>. QED
  BY <1>4, <1>5, <1>6, <1>7, <1>8, <1>9, <1>10

\* The slot leaves the ring with the dispatcher thread.
LEMMA TakeRemoteEventIInv ==
    ASSUME IInv, TakeRemoteEvent PROVE IInv'
<1> USE DEF IInv, TakeRemoteEvent, AtNext, HasState, local, remote, sems, client,
           peer
<1>1. /\ rproc \in Slots /\ rcur \in Slots /\ rcur # rproc /\ disp.at = "next"
      /\ rproc' = CIRCULAR_INCREMENT(rproc) /\ rproc' \in Slots
  BY RingOrder DEF TypesOf
<1>2. /\ disp' \in DispRecords
      /\ disp'.at = "remote" /\ disp'.slot = rproc /\ disp'.resetXLink = disp.resetXLink
  <2>1. disp \in DispRecords
    BY DEF TypesOf, DispRecords
  <2>2. [disp EXCEPT !.at = "remote", !.slot = rproc] \in DispRecords
    BY <1>1, <2>1, DispatcherMoves
  <2>3. disp'.at = "remote" /\ disp'.slot = rproc /\ disp'.resetXLink = disp.resetXLink
    BY <2>1 DEF DispRecords
  <2>. QED
    BY <2>2
<1>3. TypesOf'
  BY <1>1, <1>2 DEF TypesOf, DispRecords
<1>4. SemaphoreRefs'
  BY DEF SemaphoreRefs
<1>5. SlotsHoldCalls'
  BY DEF SlotsHoldCalls
<1>6. Rounds'
  BY DEF Rounds, FirstRound
<1>7. DispatcherAt'
  BY DEF DispatcherAt
<1>8. RequestsQueued'
  BY DEF RequestsQueued, Requested
<1>9. ResponsesOnce'
  <2>1. UNCHANGED <<lq, rq, rcur, reader, inFlight>>
    OBVIOUS
  <2>2. \A e : Waits(e)' <=> Waits(e)
    BY DEF Waits
  <2>3. \A e : Received(e)' <=> Received(e)
    BY DEF Received
  <2>4. \A t \in Slots : Live(t)' => Live(t)
    BY <1>1, CurProcMoves DEF Live
  <2>. HIDE DEF TakeRemoteEvent
  <2>. QED
    BY <1>2, <2>1, <2>2, <2>3, <2>4 DEF ResponsesOnce
<1>. QED
  BY <1>3, <1>4, <1>5, <1>6, <1>7, <1>8, <1>9

\* A slot is marked that the dispatcher thread has.
LEMMA BlockEventIInv ==
    ASSUME IInv, BlockEvent PROVE IInv'
<1> USE DEF IInv, BlockEvent, AtLocal, local, remote, sems, client, peer
<1>1. disp.slot \in Slots /\ disp.slot \in Nat /\ disp.at = "local"
  BY SlotNumbers DEF TypesOf
<1>2. /\ lq' \in [Slots -> SlotRecords]
      /\ \A t \in Slots : /\ lq'[t].packet = lq[t].packet /\ lq'[t].sem = lq[t].sem
                          /\ lq'[t].state = IF t = disp.slot THEN "BLOCKED" ELSE lq[t].state
  BY <1>1, Marked
<1>3. /\ disp' \in DispRecords
      /\ disp'.at \in {"wake", "next"} /\ (disp'.at = "wake" <=> disp.resetXLink)
      /\ disp'.slot = disp.slot /\ disp'.resetXLink = disp.resetXLink
  BY NextEventMoves
<1>4. TypesOf'
  BY <1>2, <1>3 DEF TypesOf, DispRecords
<1>5. SemaphoreRefs'
  BY <1>2 DEF SemaphoreRefs
<1>6. SlotsHoldCalls'
  BY <1>2 DEF SlotsHoldCalls
<1>7. Rounds'
  <2>1. FirstRound => \A t \in Slots : t >= lproc => t # disp.slot
    BY SlotNumbers DEF FirstRound, TypesOf
  <2>. QED
    BY <1>2, <1>3, <2>1, RoundsKept
<1>8. DispatcherAt'
  BY <1>3 DEF DispatcherAt
<1>9. RequestsQueued'
  BY DEF RequestsQueued, Requested
<1>10. ResponsesOnce'
  <2>1. \A e : Waits(e) => Waits(e)'
    BY <1>2, <1>3 DEF Waits, DispatcherAt
  <2>2. \A t \in Slots : Live(t)' => Live(t)
    BY <1>3 DEF Live
  <2>3. \A e : Received(e)' <=> Received(e)
    BY DEF Received
  <2>. QED
    BY <1>3, <2>1, <2>2, <2>3 DEF ResponsesOnce
<1>. QED
  BY <1>4, <1>5, <1>6, <1>7, <1>8, <1>9, <1>10

\* The event's thread is posted before its slot is marked.
LEMMA ServeLocallyIInv ==
    ASSUME IInv, ServeLocally PROVE IInv'
<1> USE DEF IInv, ServeLocally, AtLocal, local, remote, client, peer
<1>1. disp.slot \in Slots /\ disp.at = "local"
  BY DEF TypesOf
<1>2. /\ disp' \in DispRecords /\ semVal' \in [Clients -> Nat]
      /\ disp'.at = "posted" /\ disp'.slot = disp.slot /\ disp'.resetXLink = disp.resetXLink
  BY <1>1, PostMoves
<1>3. TypesOf'
  BY <1>2 DEF TypesOf, DispRecords
<1>4. SemaphoreRefs'
  BY DEF SemaphoreRefs
<1>5. SlotsHoldCalls'
  BY DEF SlotsHoldCalls
<1>6. Rounds'
  BY <1>2 DEF Rounds, FirstRound
<1>7. DispatcherAt'
  BY <1>2 DEF DispatcherAt
<1>8. RequestsQueued'
  BY DEF RequestsQueued, Requested
<1>9. ResponsesOnce'
  BY <1>2 DEF ResponsesOnce, Live, Received, Waits, DispatcherAt
<1>. QED
  BY <1>3, <1>4, <1>5, <1>6, <1>7, <1>8, <1>9

\* The event becomes PENDING as it goes to the peer: it has not been sent before.
LEMMA SendRequestIInv ==
    ASSUME IInv, SendRequest PROVE IInv'
<1> USE DEF IInv, SendRequest, SendMarked, AtLocal, local, remote, sems, client
<1>1. PICK event \in Events : event = Current
  BY CurrentIsEvent
<1>2. /\ disp.slot \in Slots /\ disp.at = "local" /\ ~disp.resetXLink
      /\ event = lq[disp.slot].packet
  BY <1>1 DEF TypesOf, Current, DispatcherAt
<1>3. /\ lq' \in [Slots -> SlotRecords]
      /\ \A t \in Slots : /\ lq'[t].packet = lq[t].packet /\ lq'[t].sem = lq[t].sem
                          /\ lq'[t].state = IF t = disp.slot THEN "PENDING" ELSE lq[t].state
  BY <1>2, Marked
<1>4. /\ disp' \in DispRecords
      /\ disp'.at = "next" /\ disp'.slot = disp.slot /\ disp'.resetXLink = disp.resetXLink
  BY <1>2, NextEventMoves
<1>5. /\ inFlight' = inFlight \cup {event} /\ prevEvent' = event /\ peerAborted' \in BOOLEAN
      /\ UNCHANGED <<lcur, lproc, remote, notify, addEventSem, sems, client, reader, outstanding>>
  <2>1. peerAborted' \in BOOLEAN
    OBVIOUS
  <2>. QED
    BY <1>1
<1>. HIDE DEF SendRequest, SendMarked
<1>6. TypesOf'
  BY <1>3, <1>4, <1>5 DEF TypesOf, DispRecords
<1>7. SemaphoreRefs'
  BY <1>3, <1>5 DEF SemaphoreRefs
<1>8. SlotsHoldCalls'
  BY <1>3, <1>5 DEF SlotsHoldCalls
<1>9. Rounds'
  <2>1. FirstRound => \A t \in Slots : t >= lproc => t # disp.slot
    BY <1>2, SlotNumbers DEF FirstRound, TypesOf
  <2>. QED
    BY <1>3, <1>4, <1>5, <2>1, RoundsKept
<1>10. DispatcherAt'
  BY <1>2, <1>4 DEF DispatcherAt
<1>11. RequestsQueued'
  BY <1>5 DEF RequestsQueued, Requested
<1>12. ResponsesOnce'
  <2>1. ~Waits(event)
    BY <1>2, PacketKinds DEF Waits, SlotsHoldCalls, DispatcherAt
  <2>2. \E s \in Slots : /\ lq'[s].state = "PENDING" /\ lq'[s].packet = event
                         /\ ~(disp'.at = "posted" /\ disp'.slot = s)
    BY <1>2, <1>3, <1>4
  <2>3. ASSUME NEW e, Waits(e) \/ e = event
        PROVE  \E s \in Slots : /\ lq'[s].state = "PENDING" /\ lq'[s].packet = e
                                /\ ~(disp'.at = "posted" /\ disp'.slot = s)
    BY <1>3, <1>4, <2>2, <2>3 DEF Waits
  <2>4. \A s \in Slots : Live(s)' => Live(s)
    BY <1>4, <1>5 DEF Live
  <2>5. ~Received(event) /\ \A s \in Slots : Live(s) => rq[s] # event
    BY <1>2, <2>1 DEF ResponsesOnce, Received
  <2>6. \A e : Received(e)' <=> Received(e)
    BY <1>5 DEF Received
  <2>7. \A e : Waits(e)' <=> \E s \in Slots : /\ lq'[s].state = "PENDING" /\ lq'[s].packet = e
                                             /\ ~(disp'.at = "posted" /\ disp'.slot = s)
    BY DEF Waits
  <2>. QED
    BY <1>4, <1>5, <2>3, <2>4, <2>5, <2>6, <2>7 DEF ResponsesOnce
<1>. QED
  BY <1>6, <1>7, <1>8, <1>9, <1>10, <1>11, <1>12

\* A request of the peer is answered once, and may unblock an event.
LEMMA ServeRemoteRequestIInv ==
    ASSUME IInv, ServeRemoteRequest PROVE IInv'
<1> USE DEF IInv, ServeRemoteRequest, ClearRemote, Wakes, Blocked, remote, sems,
           client
<1>1. disp.slot \in Slots /\ disp.at = "remote" /\ ~disp.resetXLink
  BY DEF TypesOf, DispatcherAt
<1>2. /\ lq' \in [Slots -> SlotRecords]
      /\ \A t \in Slots :
            /\ lq'[t].packet = lq[t].packet /\ lq'[t].sem = lq[t].sem
            /\ \/ lq'[t].state = lq[t].state
               \/ lq[t].state = "BLOCKED" /\ lq'[t].state = "READY"
  <2> DEFINE type  == Wakes(rq[disp.slot])
             first == FirstBlocked(type)
  <2>1. CASE Blocked(type) = {}
    BY <2>1 DEF TypesOf
  <2>2. CASE Blocked(type) # {}
    <3>1. first \in Slots /\ lq[first].state = "BLOCKED"
      BY <2>2, FirstBlockedElement
    <3>2. Mark(first, "READY")
      BY <2>2
    <3>. HIDE DEF first
    <3>3. /\ lq' \in [Slots -> SlotRecords]
          /\ \A t \in Slots : /\ lq'[t].packet = lq[t].packet /\ lq'[t].sem = lq[t].sem
                              /\ lq'[t].state = IF t = first THEN "READY" ELSE lq[t].state
      BY <3>1, <3>2, Marked
    <3>. QED
      BY <3>1, <3>3
  <2>. QED
    BY <2>1, <2>2
<1>3. /\ disp' \in DispRecords
      /\ disp'.at = "next" /\ disp'.slot = disp.slot /\ disp'.resetXLink = disp.resetXLink
  BY <1>1, NextEventMoves
<1>4. /\ rq' = [rq EXCEPT ![disp.slot] = None] /\ rq[disp.slot] \in RemoteRequests
      /\ outstanding' = outstanding - 1
      /\ UNCHANGED <<lcur, lproc, rcur, rproc, notify, addEventSem, sems, client, reader,
                     inFlight, peerAborted>>
      /\ prevEvent' = None
  OBVIOUS
<1>. HIDE DEF ServeRemoteRequest
<1>5. Cardinality(Requested)' = Cardinality(Requested) - 1 /\ Cardinality(Requested)' \in Nat
  <2>1. /\ Requested \in SUBSET Slots /\ Requested' \in SUBSET Slots
        /\ \A t \in Slots \ {disp.slot} : t \in Requested <=> t \in Requested'
        /\ disp.slot \in Requested /\ disp.slot \notin Requested'
    BY <1>4, PacketKinds DEF Requested, TypesOf
  <2>2. IsFiniteSet(Slots)
    BY SlotNumbers
  <2>. QED
    BY <2>1, <2>2, CountOneMoves
<1>6. TypesOf'
  <2>1. outstanding' \in 0..load[None]
    BY <1>4, <1>5, LoadBounds, RequestsCounted DEF TypesOf, RequestsQueued
  <2>2. rq' \in [Slots -> Packets]
    BY <1>4, PacketKinds DEF TypesOf
  <2>. QED
    BY <1>2, <1>3, <1>4, <2>1, <2>2 DEF TypesOf, DispRecords
<1>7. SemaphoreRefs'
  BY <1>2, <1>4 DEF SemaphoreRefs
<1>8. SlotsHoldCalls'
  BY <1>2, <1>4 DEF SlotsHoldCalls
<1>9. Rounds'
  <2>1. FirstRound => \A t \in Slots : t >= lproc => lq'[t].state = lq[t].state
    BY <1>2 DEF FirstRound
  <2>. QED
    BY <1>2, <1>3, <1>4, <2>1, RoundsKept
<1>10. DispatcherAt'
  BY <1>1, <1>3 DEF DispatcherAt
<1>11. RequestsQueued'
  BY <1>4, <1>5, RequestsCounted DEF RequestsQueued, TypesOf
<1>12. ResponsesOnce'
  <2>1. \A e : Waits(e) => Waits(e)'
    BY <1>2, <1>3 DEF Waits
  <2>2. \A t \in Slots : Live(t)' => Live(t)
    BY <1>3, <1>4 DEF Live
  <2>3. \A t \in Slots : rq'[t] \in Events => rq'[t] = rq[t]
    BY <1>4, PacketKinds
  <2>4. \A e : Received(e)' <=> Received(e)
    BY <1>4 DEF Received
  <2>. QED
    BY <1>3, <1>4, <2>1, <2>2, <2>3, <2>4 DEF ResponsesOnce
<1>. QED
  BY <1>6, <1>7, <1>8, <1>9, <1>10, <1>11, <1>12

\* The slot that is found is the only one that waits, and waits no more.
LEMMA ServeResponseIInv ==
    ASSUME IInv, ServeResponse PROVE IInv'
<1> USE DEF IInv, ServeResponse, ClearRemote, Requests, local, remote, client, peer
<1>1. PICK s \in Requests(rq[disp.slot]) : PostSemaphore(s)
  OBVIOUS
<1>2. /\ s \in Slots /\ disp.slot \in Slots /\ disp.at = "remote"
      /\ lq[s].state = "PENDING" /\ lq[s].packet = rq[disp.slot]
  BY DEF TypesOf
<1>3. /\ disp' \in DispRecords /\ semVal' \in [Clients -> Nat]
      /\ disp'.at = "posted" /\ disp'.slot = s /\ disp'.resetXLink = disp.resetXLink
  BY <1>1, PostMoves
<1>4. rq' = [rq EXCEPT ![disp.slot] = None] /\ rq[disp.slot] \in Events
  OBVIOUS
<1>5. TypesOf'
  BY <1>3, PacketKinds DEF TypesOf, DispRecords
<1>6. SemaphoreRefs'
  BY DEF SemaphoreRefs
<1>7. SlotsHoldCalls'
  BY DEF SlotsHoldCalls
<1>8. Rounds'
  BY <1>3 DEF Rounds, FirstRound
<1>9. DispatcherAt'
  BY <1>3 DEF DispatcherAt
<1>10. RequestsQueued'
  <2>1. Requested' = Requested
    BY PacketKinds DEF Requested
  <2>. QED
    BY <2>1 DEF RequestsQueued
<1>11. ResponsesOnce'
  <2>1. \A e : e # rq[disp.slot] /\ Waits(e) => Waits(e)'
    BY <1>3 DEF Waits
  <2>2. \A t \in Slots : Live(t)' => Live(t)
    BY <1>3 DEF Live
  <2>3. Live(disp.slot)
    BY DEF Live
  <2>4. \A t \in Slots : rq'[t] \in Events => t # disp.slot /\ rq'[t] = rq[t]
    BY PacketKinds DEF TypesOf
  <2>5. \A e : Received(e)' <=> Received(e)
    BY DEF Received
  <2>6. UNCHANGED <<reader, inFlight>>
    OBVIOUS
  <2>. HIDE DEF ServeResponse, Requests, ClearRemote
  <2>. QED
    BY <1>2, <1>3, <1>4, <2>1, <2>2, <2>3, <2>4, <2>6 DEF ResponsesOnce, Received
<1>. QED
  BY <1>5, <1>6, <1>7, <1>8, <1>9, <1>10, <1>11

\* The slot was not waiting since it was posted.
LEMMA MarkServedIInv ==
    ASSUME IInv, MarkServed PROVE IInv'
<1> USE DEF IInv, MarkServed, remote, sems, client, peer
<1>1. disp.slot \in Slots /\ disp.slot \in Nat /\ disp.at = "posted"
  BY SlotNumbers DEF TypesOf
<1>2. /\ lq' \in [Slots -> SlotRecords]
      /\ \A t \in Slots : /\ lq'[t].packet = lq[t].packet /\ lq'[t].sem = lq[t].sem
                          /\ lq'[t].state = IF t = disp.slot THEN "SERVED" ELSE lq[t].state
  BY <1>1, Marked
<1>3. /\ disp' \in DispRecords
      /\ disp'.at \in {"wake", "next"} /\ (disp'.at = "wake" <=> disp.resetXLink)
      /\ disp'.slot = disp.slot /\ disp'.resetXLink = disp.resetXLink
  BY NextEventMoves
<1>4. TypesOf'
  BY <1>2, <1>3 DEF TypesOf, DispRecords
<1>5. SemaphoreRefs'
  BY <1>2 DEF SemaphoreRefs
<1>6. SlotsHoldCalls'
  BY <1>2 DEF SlotsHoldCalls
<1>7. Rounds'
  BY <1>2, <1>3 DEF Rounds, FirstRound
<1>8. DispatcherAt'
  BY <1>3 DEF DispatcherAt
<1>9. RequestsQueued'
  BY DEF RequestsQueued, Requested
<1>10. ResponsesOnce'
  BY <1>2, <1>3 DEF ResponsesOnce, Live, Received, Waits
<1>. QED
  BY <1>4, <1>5, <1>6, <1>7, <1>8, <1>9, <1>10

\* From here on resetXLink is set, and responses are no longer served.
LEMMA ServeResetRequestIInv ==
    ASSUME IInv, ServeResetRequest PROVE IInv'
<1> USE DEF IInv, ServeResetRequest, ClearRemote, local, remote, sems, client, peer
<1>1. /\ disp' \in DispRecords
      /\ disp'.at = "join" /\ disp'.slot = disp.slot /\ disp'.resetXLink
  <2>1. disp \in DispRecords
    BY DEF TypesOf, DispRecords
  <2>2. [disp EXCEPT !.at = "join", !.resetXLink = TRUE] \in DispRecords
    BY <2>1, DispatcherStays
  <2>3. disp'.at = "join" /\ disp'.slot = disp.slot /\ disp'.resetXLink
    BY <2>1 DEF DispRecords
  <2>. QED
    BY <2>2
<1>2. rq' = [rq EXCEPT ![disp.slot] = None] /\ rq[disp.slot] = ResetRequest /\ disp.slot \in Slots
  BY DEF TypesOf
<1>3. TypesOf'
  BY <1>1, PacketKinds DEF TypesOf, DispRecords
<1>4. SemaphoreRefs'
  BY DEF SemaphoreRefs
<1>5. SlotsHoldCalls'
  BY DEF SlotsHoldCalls
<1>6. Rounds'
  BY DEF Rounds, FirstRound
<1>7. DispatcherAt'
  BY DEF DispatcherAt
<1>8. RequestsQueued'
  <2>1. Requested' = Requested /\ UNCHANGED <<outstanding, reader>>
    BY PacketKinds DEF Requested
  <2>. HIDE DEF ServeResetRequest
  <2>. QED
    BY <2>1 DEF RequestsQueued
<1>9. ResponsesOnce'
  BY DEF ResponsesOnce
<1>. QED
  BY <1>3, <1>4, <1>5, <1>6, <1>7, <1>8, <1>9

\* The reset goes on.
LEMMA JoinReaderIInv ==
    ASSUME IInv, JoinReader PROVE IInv'
<1> USE DEF IInv, JoinReader, local, remote, sems, client, peer
<1>1. /\ disp' \in DispRecords
      /\ disp'.at = "drain" /\ disp'.slot = disp.slot /\ disp'.resetXLink = disp.resetXLink
  <2>1. disp \in DispRecords
    BY DEF TypesOf, DispRecords
  <2>2. [disp EXCEPT !.at = "drain"] \in DispRecords
    BY <2>1, DispatcherStays
  <2>3. disp'.at = "drain" /\ disp'.slot = disp.slot /\ disp'.resetXLink = disp.resetXLink
    BY <2>1 DEF DispRecords
  <2>. QED
    BY <2>2
<1>2. TypesOf'
  BY DEF TypesOf
<1>3. SemaphoreRefs'
  BY DEF SemaphoreRefs
<1>4. SlotsHoldCalls'
  BY DEF SlotsHoldCalls
<1>5. Rounds'
  BY DEF Rounds, FirstRound
<1>6. DispatcherAt'
  BY DEF DispatcherAt
<1>7. RequestsQueued'
  BY DEF RequestsQueued, Requested
<1>8. ResponsesOnce'
  BY DEF ResponsesOnce, DispatcherAt
<1>. QED
  BY <1>2, <1>3, <1>4, <1>5, <1>6, <1>7, <1>8

\* The reset goes past what is left in the rings.
LEMMA DrainIInv ==
    ASSUME IInv, Drain PROVE IInv'
<1> USE DEF IInv, Drain, HasState, sems, client, peer
<1>1. /\ disp' \in DispRecords /\ disp'.at \in {"drain", "wake"}
      /\ disp.at = "drain" /\ disp'.slot = disp.slot /\ disp'.resetXLink = disp.resetXLink
  <2>1. disp \in DispRecords
    BY DEF TypesOf, DispRecords
  <2>2. [disp EXCEPT !.at = "wake"] \in DispRecords
    BY <2>1, DispatcherStays
  <2>3. /\ [disp EXCEPT !.at = "wake"].at = "wake" /\ [disp EXCEPT !.at = "wake"].slot = disp.slot
        /\ [disp EXCEPT !.at = "wake"].resetXLink = disp.resetXLink
    BY <2>1 DEF DispRecords
  <2>4. disp' \in {disp, [disp EXCEPT !.at = "wake"]} /\ disp.at = "drain"
    OBVIOUS
  <2>. HIDE DEF Drain
  <2>. QED
    BY <2>1, <2>2, <2>3, <2>4
<1>2. /\ UNCHANGED <<lq, lcur, rq, rcur, addEventSem, sems, client, reader, peer>>
      /\ rproc' \in Slots /\ notify' \in Nat
  BY RingOrder DEF TypesOf
<1> DEFINE s == getNextElementWithState(lproc, "SERVED")
<1>3. \/ lproc' = lproc
      \/ /\ lcur # lproc
         /\ s \in Slots /\ lq[s].state = "SERVED" /\ lproc' = CIRCULAR_INCREMENT(s) /\ lproc' \in Slots
         /\ \A t \in Slots : lq[t].state = "SERVED" => Distance(lproc, s) <= Distance(lproc, t)
  BY NextElement, RingOrder DEF TypesOf
<1>. HIDE DEF s, Drain
<1>4. TypesOf'
  BY <1>1, <1>2, <1>3 DEF TypesOf, DispRecords
<1>5. SemaphoreRefs'
  BY <1>2 DEF SemaphoreRefs
<1>6. SlotsHoldCalls'
  BY <1>2 DEF SlotsHoldCalls
<1>7. Rounds'
  <2>1. CASE FirstRound /\ lproc' # lproc
    <3>1. /\ lproc \in Slots /\ lproc \in Nat /\ lcur \in Nat
          /\ lcur < MaxEvents /\ MaxEvents \in Nat
      BY SlotNumbers DEF TypesOf
    <3>2. lproc < lcur /\ lq[lproc].state = "SERVED"
      BY <1>3, <2>1, <3>1 DEF FirstRound
    <3>3. s = lproc
      BY <1>3, <2>1, <3>1, <3>2, NearestIsFirst
    <3>4. lproc' = lproc + 1
      BY <1>3, <2>1, <3>1, <3>2, <3>3 DEF CIRCULAR_INCREMENT
    <3>. QED
      BY <1>1, <1>2, <2>1, <3>1, <3>2, <3>4, SlotNumbers DEF FirstRound, Rounds
  <2>2. CASE FirstRound /\ lproc' = lproc
    BY <1>1, <1>2, <2>2 DEF Rounds, FirstRound
  <2>3. CASE \A t \in Slots : lq[t].packet # None
    BY <1>2, <2>3 DEF Rounds
  <2>. QED
    BY <2>1, <2>2, <2>3 DEF Rounds
<1>8. DispatcherAt'
  BY <1>1 DEF DispatcherAt
<1>9. RequestsQueued'
  BY <1>2 DEF RequestsQueued, Requested
<1>10. ResponsesOnce'
  BY <1>1 DEF ResponsesOnce, DispatcherAt
<1>. QED
  BY <1>4, <1>5, <1>6, <1>7, <1>8, <1>9, <1>10

\* The reset posts the semaphore of one waiting event, or has posted them all.
LEMMA WakeIInv ==
    ASSUME IInv, Wake PROVE IInv'
<1> USE DEF IInv, Wake, HasState, local, remote, client, peer
<1>1. /\ disp' \in DispRecords /\ disp'.at \in {"posted", "down"} /\ disp.at = "wake"
      /\ disp'.resetXLink = disp.resetXLink /\ semVal' \in [Clients -> Nat]
  <2>1. CASE HasState("PENDING")
    <3> DEFINE s == getNextElementWithState(0, "PENDING")
    <3>1. 0 \in Slots
      BY SlotNumbers DEF Slots
    <3>2. s \in Slots /\ PostSemaphore(s)
      BY <2>1, <3>1, NextElement
    <3>. HIDE DEF s
    <3>. QED
      BY <3>2, PostMoves
  <2>2. CASE ~HasState("PENDING")
    <3>1. disp \in DispRecords
      BY DEF TypesOf, DispRecords
    <3>2. disp' = [disp EXCEPT !.at = "down"] /\ semVal' = semVal
      BY <2>2
    <3>3. [disp EXCEPT !.at = "down"] \in DispRecords
      BY <3>1, DispatcherStays
    <3>4. disp'.at = "down" /\ disp'.resetXLink = disp.resetXLink
      BY <3>1, <3>2 DEF DispRecords
    <3>. QED
      BY <3>2, <3>3 DEF TypesOf
  <2>. QED
    BY <2>1, <2>2
<1>2. UNCHANGED <<local, remote, notify, addEventSem, refs, client, reader, peer>>
  OBVIOUS
<1>. HIDE DEF Wake
<1>3. TypesOf'
  BY <1>1, <1>2 DEF TypesOf, DispRecords
<1>4. SemaphoreRefs'
  BY <1>2 DEF SemaphoreRefs
<1>5. SlotsHoldCalls'
  BY <1>2 DEF SlotsHoldCalls
<1>6. Rounds'
  BY <1>1, <1>2 DEF Rounds, FirstRound
<1>7. DispatcherAt'
  BY <1>1 DEF DispatcherAt
<1>8. RequestsQueued'
  BY <1>2 DEF RequestsQueued, Requested
<1>9. ResponsesOnce'
  BY <1>1 DEF ResponsesOnce, DispatcherAt
<1>. QED
  BY <1>3, <1>4, <1>5, <1>6, <1>7, <1>8, <1>9

-----------------------------------------------------------------------------
(* The invariant                                                            *)

\* Empty rings, and nobody in the scheduler.
LEMMA InitIInv == Init => IInv
<1> SUFFICES ASSUME Init PROVE IInv
  OBVIOUS
<1> USE DEF Init
<1>1. \A s \in Slots : lq[s].packet = None /\ lq[s].sem = None /\ lq[s].state = "SERVED"
  OBVIOUS
<1>2. 0 \in Slots /\ \A s \in Slots : s \in Nat /\ ~(s < 0)
  BY SlotNumbers DEF Slots
<1>3. disp.at = "next" /\ ~disp.resetXLink /\ reader.at = "receive"
  OBVIOUS
<1>4. TypesOf
  <2>1. lq \in [Slots -> SlotRecords] /\ rq \in [Slots -> Packets] /\ reader.packet \in Packets
    BY PacketKinds DEF SlotRecords
  <2>2. disp \in [at : {"next", "local", "remote", "posted", "join", "drain", "wake", "down"},
                  slot : Slots, resetXLink : BOOLEAN]
    BY <1>2
  <2>3. outstanding \in 0..load[None]
    BY LoadBounds
  <2>. QED
    BY <2>1, <2>2, <2>3 DEF TypesOf
<1>5. SemaphoreRefs
  <2>1. ASSUME NEW c \in Clients PROVE {s \in Slots : lq[s].sem = c} = {}
    BY DispatcherAssumption
  <2>2. \A c \in Clients : refs[c] = 0
    OBVIOUS
  <2>. QED
    BY <2>1, FS_EmptySet DEF SemaphoreRefs
<1>6. SlotsHoldCalls
  BY LoadBounds DEF SlotsHoldCalls
<1>7. Rounds
  BY <1>2 DEF Rounds, FirstRound
<1>8. DispatcherAt
  BY DEF DispatcherAt
<1>9. RequestsQueued
  <2>1. Requested = {}
    BY PacketKinds DEF Requested
  <2>2. Cardinality(Requested) = 0
    BY <2>1, FS_EmptySet
  <2>. QED
    BY <2>2 DEF RequestsQueued
<1>10. ResponsesOnce
  BY PacketKinds DEF ResponsesOnce
<1>. QED
  BY <1>4, <1>5, <1>6, <1>7, <1>8, <1>9, <1>10 DEF IInv

\* A stutter.
LEMMA UnchangedIInv ==
    ASSUME IInv, UNCHANGED vars PROVE IInv'
<1> USE DEF IInv, vars, local, remote, sems, client, peer
<1>1. TypesOf'
  BY DEF TypesOf
<1>2. SemaphoreRefs' /\ SlotsHoldCalls'
  BY DEF SemaphoreRefs, SlotsHoldCalls
<1>3. Rounds' /\ DispatcherAt'
  BY DEF Rounds, FirstRound, DispatcherAt
<1>4. RequestsQueued'
  BY DEF RequestsQueued, Requested
<1>5. ResponsesOnce'
  BY DEF ResponsesOnce, Live, Received, Waits
<1>. QED
  BY <1>1, <1>2, <1>3, <1>4, <1>5

\* Every step of a thread keeps the invariant.
LEMMA NextIInv ==
    ASSUME IInv, [Next]_vars PROVE IInv'
<1>1. ASSUME NEW c \in Clients, ClientCall(c) \/ ClientStep(c) \/ WaitAfterReset(c)
      PROVE  IInv'
  <2>1. CASE ClientCall(c)
    BY <2>1, CheckResetIInv, AddAfterResetIInv DEF ClientCall
  <2>2. CASE ClientStep(c)
    BY <2>2, DispatcherAddEventIInv, AddEventFailsIInv, NotifyDispatcherIInv,
       DispatcherWaitEventCompleteIInv, WaitEventFailsIInv, ReturnIInv
       DEF ClientStep
  <2>. QED
    BY <1>1, <2>1, <2>2, WaitAfterResetIInv
<1>2. CASE eventReader
  BY <1>2, ReceiveResponseIInv, ReceiveRequestIInv, ReceiveResetRequestIInv,
     ReadFailsIInv, AddRemoteEventIInv, NotifyRemoteEventIInv
     DEF eventReader
<1>3. CASE eventSchedulerRun
  <2>1. CASE dispatcherReset
    BY <2>1, JoinReaderIInv, DrainIInv, WakeIInv DEF dispatcherReset
  <2>2. CASE TakeReadyEvent \/ TakeLocalEvent \/ TakeRemoteEvent
    BY <2>2, TakeReadyEventIInv, TakeLocalEventIInv, TakeRemoteEventIInv
  <2>3. CASE BlockEvent \/ ServeLocally \/ SendRequest \/ MarkServed
    BY <2>3, BlockEventIInv, ServeLocallyIInv, SendRequestIInv, MarkServedIInv
  <2>4. CASE ServeRemoteRequest \/ ServeResponse \/ ServeResetRequest
    BY <2>4, ServeRemoteRequestIInv, ServeResponseIInv, ServeResetRequestIInv
  <2>. QED
    BY <1>3, <2>1, <2>2, <2>3, <2>4 DEF eventSchedulerRun
<1>. QED
  BY <1>1, <1>2, <1>3, UnchangedIInv DEF Next

\* The invariant holds in every state, however many threads there are and
\* however often they go round the rings.
THEOREM DispatcherInvariant == Spec => []IInv
<1>1. Init => IInv
  BY InitIInv
<1>2. IInv /\ [Next]_vars => IInv'
  BY NextIInv
<1>. QED
  BY <1>1, <1>2, PTL DEF Spec

-----------------------------------------------------------------------------
(* What follows from it                                                     *)

\* Every variable keeps its type: no slot number leaves its ring, what is sent
\* to the peer is an event that was added, and it answers no more requests than
\* its peer has made.
THEOREM TypeCorrect == Spec => []TypeOK
<1>1. ASSUME IInv PROVE TypeOK
  <2> USE <1>1 DEF IInv, TypesOf
  <2>1. refs \in [Clients -> 0..MaxEvents]
    <3>1. ASSUME NEW c \in Clients PROVE refs[c] \in 0..MaxEvents
      <4> DEFINE S == {s \in Slots : lq[s].sem = c}
      <4>1. S \in SUBSET Slots
        OBVIOUS
      <4>2. Cardinality(S) \in 0..Cardinality(Slots)
        BY SlotNumbers, CountOfPart
      <4>. QED
        BY <4>2, SlotNumbers DEF SemaphoreRefs
    <3>. QED
      BY <3>1
  <2>2. \A c \in Clients : call[c] \in 0..load[c]
    BY DEF SlotsHoldCalls
  <2>. QED
    BY <2>1, <2>2 DEF TypeOK, SlotRecords
<1>. QED
  BY <1>1, DispatcherInvariant, PTL

\* The reference count of a thread's semaphore is the number of slots that hold
\* it, so that no slot holds one that unrefSem has destroyed.
THEOREM SemaphoresAreCounted == Spec => []SemaphoreRefs
<1>1. IInv => SemaphoreRefs
  BY DEF IInv
<1>. QED
  BY <1>1, DispatcherInvariant, PTL

\* The assertion that ends dispatcherResponseServe holds, the second half of
\* DispatcherFindsEvents: a response finds one request that waits for it, even
\* when the rings have been overrun and events were lost.
THEOREM ResponsesAreMatched == Spec => []ResponseMatched
<1>1. ASSUME IInv PROVE ResponseMatched
  <2> SUFFICES ASSUME disp.at = "remote", rq[disp.slot] \in Events
               PROVE  Cardinality(Requests(rq[disp.slot])) = 1
    BY DEF ResponseMatched
  <2> USE <1>1 DEF IInv
  <2>1. disp.slot \in Slots /\ Live(disp.slot) /\ ~disp.resetXLink
    BY DEF TypesOf, Live, DispatcherAt
  <2>2. Waits(rq[disp.slot]) /\ rq[disp.slot] # None
    BY <2>1, PacketKinds DEF ResponsesOnce
  <2>3. PICK s \in Slots : lq[s].state = "PENDING" /\ lq[s].packet = rq[disp.slot]
    BY <2>2 DEF Waits
  <2>4. Requests(rq[disp.slot]) = {s}
    BY <2>2, <2>3 DEF Requests, SlotsHoldCalls
  <2>. QED
    BY <2>4, FS_Singleton
<1>. QED
  BY <1>1, DispatcherInvariant, PTL

-----------------------------------------------------------------------------
(* Links whose rings are used in order                                      *)

\* The slots of the local ring that are queued, and all those whose event is not done
\* with: it is queued, in hand, blocked, ready or sent, and its thread not yet posted.
Queued(s) == Distance(lproc, s) < Distance(lproc, lcur)
InHand(s) == disp.at = "local" /\ disp.slot = s
Posted(s) == disp.at = "posted" /\ disp.slot = s
Undone(s) == Queued(s) \/ InHand(s) \/ (lq[s].state # "SERVED" /\ ~Posted(s))

\* The threads that have called and have not been woken.
Under(c) == pc[c] \in {"added", "waiting", "failed"}
Asleep(c) == Under(c) /\ semVal[c] = 0

\* A slot that is not done with holds the last event of its thread, which sleeps; what is
\* queued is SERVED, which is how the dispatcher thread finds it, and is not in hand.
SlotsInOrder ==
    \A s \in Slots :
        /\ Queued(s) => lq[s].state = "SERVED" /\ ~InHand(s)
        /\ Undone(s) => \E c \in Clients : slot[c] = s /\ lq[s].packet # None /\ IsOwn(c) /\ Asleep(c)

\* The event of a thread's last call keeps its slot, and wakes it once.
CallsInOrder ==
    \A c \in Clients :
        /\ pc[c] \in {"added", "waiting", "returning"} \/ semVal[c] > 0 => call[c] > 0
        /\ call[c] > 0 => IsOwn(c)
        /\ semVal[c] <= 1 /\ (semVal[c] > 0 => Under(c))

\* A thread that is the only one to call adds its event just behind its last one; the one
\* that is posted is that one, or it has already added another.
AloneInOrder ==
    \A c \in Clients : (\A d \in Clients \ {c} : load[d] = 0) /\ call[c] > 0 =>
        /\ lcur = CIRCULAR_INCREMENT(slot[c])
        /\ disp.at = "posted" => disp.slot = slot[c] \/ Asleep(c)

Orderly == SlotsInOrder /\ CallsInOrder /\ AloneInOrder
OrderInv == InOrder => Orderly

\* The threads that call, and rings that are never full: a slot is left for every thread
\* that calls, every request that the peer can have sent and one for a reset.
Callers == {c \in Clients : load[c] > 0}
NeverFull == Cardinality(Callers) + load[None] + load["reset"] < MaxEvents

\* What is queued in the remote ring: no slot is left empty, the one in hand lies just
\* behind, and a request for a reset is the last packet the reader thread receives.
RemoteQueued(s) == Distance(rproc, s) < Distance(rproc, rcur)
PacketsQueued ==
    /\ reader.at = "add" => reader.packet # None
    /\ \A s \in Slots : RemoteQueued(s) => rq[s] # None
    /\ disp.at = "remote" => rproc = CIRCULAR_INCREMENT(disp.slot)
ResetIsLast ==
    /\ reader.at = "add" /\ reader.packet = ResetRequest => load["reset"] = 1
    /\ (\E s \in Slots : RemoteQueued(s) /\ rq[s] = ResetRequest) =>
            reader.at = "ended" \/ (reader.at = "notify" /\ reader.packet = ResetRequest)

\* A notification stands, or is about to be made, for each slot that is queued.
Added == {c \in Clients : pc[c] = "added"}
LocallyQueued == {s \in Slots : Queued(s)}
RemotelyQueued == {s \in Slots : RemoteQueued(s)}
Notified ==
    notify + Cardinality(Added) + (IF reader.at = "notify" THEN 1 ELSE 0)
        = Cardinality(LocallyQueued) + Cardinality(RemotelyQueued)

\* Until a reset.
Counted == PacketsQueued /\ ResetIsLast /\ Notified
NotifyInv == InOrder /\ NeverFull /\ ~disp.resetXLink => Counted

\* What cur and curProc leave queued when they step.
LEMMA RingGrows ==
    ASSUME NEW a \in Slots, NEW b \in Slots
    PROVE  LET n == CIRCULAR_INCREMENT(b) IN
           /\ ~(Distance(a, b) < Distance(a, b))
           /\ n # a => \A s \in Slots : Distance(a, s) < Distance(a, n) <=>
                                            Distance(a, s) < Distance(a, b) \/ s = b
           /\ n = a => \A s \in Slots : Distance(a, s) < Distance(a, b) \/ s = b
           /\ n = a => \A s \in Slots : ~(Distance(a, s) < Distance(a, n))
           /\ n # b
  BY SlotNumbers DEF Distance, CIRCULAR_INCREMENT

LEMMA RingShrinks ==
    ASSUME NEW a \in Slots, NEW b \in Slots, a # b
    PROVE  LET n == CIRCULAR_INCREMENT(a) IN
           /\ Distance(a, a) < Distance(a, b)
           /\ \A s \in Slots : Distance(n, s) < Distance(n, b) <=> Distance(a, s) < Distance(a, b) /\ s # a
  BY SlotNumbers DEF Distance, CIRCULAR_INCREMENT

\* Only a thread itself moves, and sleeps on if it did.
LEMMA ThreadOrderly ==
    ASSUME TypesOf, TypesOf', Orderly, NEW c \in Clients,
           UNCHANGED <<lq, lcur, lproc, disp, slot, call, load>>,
           \A d \in Clients \ {c} : pc'[d] = pc[d] /\ semVal'[d] = semVal[d],
           Asleep(c) => Asleep(c)',
           pc'[c] \in {"added", "waiting", "returning"} \/ semVal'[c] > 0 => call[c] > 0,
           semVal'[c] <= 1 /\ (semVal'[c] > 0 => Under(c)')
    PROVE  Orderly'
<1>1. \A d \in Clients : Asleep(d) => Asleep(d)'
  BY DEF Asleep, Under
<1>2. SlotsInOrder'
  BY <1>1 DEF Orderly, SlotsInOrder, Queued, InHand, Posted, Undone, IsOwn, EventOf
<1>3. CallsInOrder'
  <2>. SUFFICES ASSUME NEW d \in Clients
                PROVE  /\ pc'[d] \in {"added", "waiting", "returning"} \/ semVal'[d] > 0 => call'[d] > 0
                       /\ call'[d] > 0 => IsOwn(d)'
                       /\ semVal'[d] <= 1 /\ (semVal'[d] > 0 => Under(d)')
    BY DEF CallsInOrder
  <2>. QED
    BY DEF Orderly, CallsInOrder, Under, IsOwn, EventOf
<1>4. AloneInOrder'
  BY <1>1 DEF Orderly, AloneInOrder
<1>. QED
  BY <1>2, <1>3, <1>4 DEF Orderly

\* Neither a thread nor what the dispatcher thread looks at changes.
LEMMA SameOrderly ==
    ASSUME Orderly, UNCHANGED <<lq, lcur, lproc, disp, slot, call, load, pc, semVal>>
    PROVE  Orderly'
  BY DEF Orderly, SlotsInOrder, CallsInOrder, AloneInOrder, Queued, InHand, Posted, Undone,
         IsOwn, EventOf, Asleep, Under

\* The dispatcher thread goes on and posts nobody.
LEMMA DispatcherOrderly ==
    ASSUME Orderly, UNCHANGED <<lcur, slot, call, load, pc, semVal>>,
           \A t \in Slots : lq'[t].packet = lq[t].packet,
           \A t \in Slots : Queued(t)' => lq'[t].state = "SERVED" /\ ~InHand(t)',
           \A t \in Slots : Undone(t)' => Undone(t),
           slot \in [Clients -> Slots],
           disp'.at = "posted" => disp.at = "posted" /\ disp'.slot = disp.slot
    PROVE  Orderly'
<1>1. \A d \in Clients : IsOwn(d)' <=> IsOwn(d)
  BY DEF IsOwn, EventOf
<1>2. \A d \in Clients : Asleep(d)' <=> Asleep(d)
  BY DEF Asleep, Under
<1>3. SlotsInOrder'
  BY <1>1, <1>2 DEF Orderly, SlotsInOrder
<1>4. CallsInOrder'
  BY <1>1 DEF Orderly, CallsInOrder, Under
<1>5. AloneInOrder'
  BY <1>2 DEF Orderly, AloneInOrder
<1>. QED
  BY <1>3, <1>4, <1>5 DEF Orderly

\* The thread of an event that is in hand or was sent is posted.
LEMMA PostingOrderly ==
    ASSUME TypesOf, SlotsHoldCalls, Orderly, NEW s \in Slots, Undone(s), ~Queued(s), PostSemaphore(s),
           UNCHANGED <<lq, lcur, lproc, slot, call, load, pc>>, disp.at # "posted"
    PROVE  Orderly'
<1>1. PICK c \in Clients : slot[c] = s /\ lq[s].packet # None /\ IsOwn(c) /\ Asleep(c)
  BY DEF Orderly, SlotsInOrder
<1>2. lq[s].sem = c
  BY <1>1 DEF SlotsHoldCalls, IsOwn, EventOf
<1>3. /\ semVal'[c] = 1 /\ \A d \in Clients \ {c} : semVal'[d] = semVal[d]
      /\ disp'.at = "posted" /\ disp'.slot = s
  <2>1. semVal' = [semVal EXCEPT ![c] = semVal[c] + 1]
    BY <1>2 DEF PostSemaphore
  <2>2. semVal \in [Clients -> Nat] /\ semVal[c] = 0
    BY <1>1 DEF TypesOf, Asleep
  <2>. QED
    BY <2>1, <2>2, PostMoves
<1>4. \A d \in Clients : IsOwn(d)' <=> IsOwn(d)
  BY DEF IsOwn, EventOf
<1>5. \A d \in Clients \ {c} : Asleep(d)' <=> Asleep(d)
  BY <1>3 DEF Asleep, Under
<1>6. SlotsInOrder'
  <2>. SUFFICES ASSUME NEW t \in Slots
                PROVE  /\ Queued(t)' => lq'[t].state = "SERVED" /\ ~InHand(t)'
                       /\ Undone(t)' => \E d \in Clients : slot'[d] = t /\ lq'[t].packet # None /\ IsOwn(d)' /\ Asleep(d)'
    BY DEF SlotsInOrder
  <2>1. Queued(t)' <=> Queued(t)
    BY DEF Queued
  <2>2. ASSUME Undone(t)'
        PROVE  \E d \in Clients : slot'[d] = t /\ lq'[t].packet # None /\ IsOwn(d)' /\ Asleep(d)'
    <3>1. t # s /\ Undone(t)
      BY <1>3, <2>1, <2>2 DEF Undone, InHand, Posted
    <3>2. PICK d \in Clients : slot[d] = t /\ lq[t].packet # None /\ IsOwn(d) /\ Asleep(d)
      BY <3>1 DEF Orderly, SlotsInOrder
    <3>3. d # c
      BY <1>1, <3>1, <3>2
    <3>. QED
      BY <1>4, <1>5, <3>2, <3>3
  <2>. QED
    BY <1>3, <2>1, <2>2 DEF Orderly, SlotsInOrder, InHand
<1>7. CallsInOrder'
  <2>. SUFFICES ASSUME NEW d \in Clients
                PROVE  /\ pc'[d] \in {"added", "waiting", "returning"} \/ semVal'[d] > 0 => call'[d] > 0
                       /\ call'[d] > 0 => IsOwn(d)'
                       /\ semVal'[d] <= 1 /\ (semVal'[d] > 0 => Under(d)')
    BY DEF CallsInOrder
  <2>1. CASE d = c
    <3>1. call[c] > 0
      <4>1. EventOf(c) \in Events /\ EventOf(c).call = call[c]
        BY <1>1 DEF IsOwn, EventOf, TypesOf, SlotRecords
      <4>. QED
        BY <4>1 DEF Events
    <3>. QED
      BY <1>1, <1>3, <1>4, <2>1, <3>1 DEF Asleep, Under
  <2>2. CASE d # c
    BY <1>3, <1>4, <2>2 DEF Orderly, CallsInOrder, Under
  <2>. QED
    BY <2>1, <2>2
<1>8. AloneInOrder'
  <2>. SUFFICES ASSUME NEW d \in Clients, \A e \in Clients \ {d} : load[e] = 0, call[d] > 0
                PROVE  lcur = CIRCULAR_INCREMENT(slot[d]) /\ s = slot[d]
    BY <1>3 DEF AloneInOrder, CIRCULAR_INCREMENT
  <2>1. lcur = CIRCULAR_INCREMENT(slot[d])
    BY DEF Orderly, AloneInOrder
  <2>2. load[c] # 0
    <3>1. EventOf(c) \in Events /\ EventOf(c).call = call[c]
      BY <1>1 DEF IsOwn, EventOf, TypesOf, SlotRecords
    <3>2. call[c] > 0 /\ call[c] <= load[c] /\ load[c] \in Nat /\ call[c] \in Nat
      BY <3>1, LoadBounds DEF Events, SlotsHoldCalls, TypesOf
    <3>. QED
      BY <3>2
  <2>3. c = d
    BY <2>2
  <2>. QED
    BY <1>1, <2>1, <2>3
<1>. QED
  BY <1>6, <1>7, <1>8 DEF Orderly

\* The steps of a thread in a call, but the one that adds an event.
LEMMA ThreadSteps ==
    ASSUME IInv, IInv', Orderly, NEW c \in Clients,
           CheckReset(c) \/ AddAfterReset(c) \/ AddEventFails(c) \/ NotifyDispatcher(c)
             \/ dispatcherWaitEventComplete(c) \/ WaitEventFails(c) \/ WaitAfterReset(c) \/ Return(c)
    PROVE  Orderly'
<1>1. TypesOf /\ TypesOf'
  BY DEF IInv
<1>2. UNCHANGED <<lq, lcur, lproc, disp, slot, call, load>>
  BY DEF CheckReset, AddAfterReset, AddEventFails, NotifyDispatcher, dispatcherWaitEventComplete,
         WaitEventFails, WaitAfterReset, Return, local, client
<1>3. /\ pc[c] \in {"added", "waiting", "returning"} \/ semVal[c] > 0 => call[c] > 0
      /\ call[c] > 0 => IsOwn(c)
      /\ semVal[c] <= 1 /\ (semVal[c] > 0 => Under(c)) /\ semVal[c] \in Nat
  BY <1>1 DEF Orderly, CallsInOrder, TypesOf
<1>4. pc \in [Clients -> {"idle", "checked", "added", "waiting", "returning", "asleep", "failed"}]
      /\ semVal \in [Clients -> Nat]
  BY <1>1 DEF TypesOf
<1>5. CASE dispatcherWaitEventComplete(c)
  <2>1. /\ \A d \in Clients \ {c} : pc'[d] = pc[d] /\ semVal'[d] = semVal[d]
        /\ semVal[c] > 0 /\ semVal'[c] = semVal[c] - 1 /\ pc[c] = "waiting" /\ pc'[c] = "returning"
    BY <1>4, <1>5 DEF dispatcherWaitEventComplete
  <2>2. ~Asleep(c)
    BY <2>1 DEF Asleep
  <2>. QED
    BY <1>1, <1>2, <1>3, <2>1, <2>2, ThreadOrderly
<1>6. ~WaitEventFails(c)
  <2>. SUFFICES ASSUME pc[c] = "waiting" PROVE refs[c] # 0
    BY DEF WaitEventFails
  <2>1. IsOwn(c) /\ slot[c] \in Slots
    BY <1>1, <1>3 DEF TypesOf
  <2>2. lq[slot[c]].sem = c
    BY <2>1 DEF IInv, SlotsHoldCalls, IsOwn, EventOf
  <2>3. {s \in Slots : lq[s].sem = c} # {} /\ {s \in Slots : lq[s].sem = c} \in SUBSET Slots
    BY <2>1, <2>2
  <2>. QED
    BY <2>3, SlotNumbers, CountOfPart DEF IInv, SemaphoreRefs
<1>7. ASSUME CheckReset(c) \/ AddAfterReset(c) \/ AddEventFails(c) \/ NotifyDispatcher(c)
               \/ WaitAfterReset(c) \/ Return(c)
      PROVE  Orderly'
  <2>1. semVal' = semVal /\ \A d \in Clients \ {c} : pc'[d] = pc[d]
    BY <1>4, <1>7 DEF CheckReset, AddAfterReset, AddEventFails, NotifyDispatcher, WaitAfterReset, Return, sems
  <2>2. /\ Under(c) => pc'[c] \in {"added", "waiting", "failed"}
        /\ pc'[c] \in {"added", "waiting", "returning"} => pc[c] \in {"added", "waiting", "returning"}
    BY <1>4, <1>7 DEF CheckReset, AddAfterReset, AddEventFails, NotifyDispatcher, WaitAfterReset, Return, Under
  <2>3. Asleep(c) => Asleep(c)'
    BY <2>1, <2>2 DEF Asleep, Under
  <2>4. semVal'[c] <= 1 /\ (semVal'[c] > 0 => Under(c)')
    BY <1>3, <2>1, <2>2 DEF Under
  <2>. QED
    BY <1>1, <1>2, <1>3, <2>1, <2>2, <2>3, <2>4, ThreadOrderly
<1>. QED
  BY <1>5, <1>6, <1>7

\* A link has one caller, or no more calls than slots.
LEMMA OneOrFew ==
    ASSUME TypesOf, InOrder
    PROVE  \/ \A c, d \in Callers : c = d
           \/ \A c \in Callers : load[c] * Cardinality(Callers) <= MaxEvents
<1>1. Callers \subseteq Clients /\ IsFiniteSet(Callers)
  BY DispatcherAssumption, FS_Subset DEF Callers
<1>2. CASE Cardinality(Callers) <= 1
  <2>1. CASE Cardinality(Callers) = 0
    BY <1>1, <2>1, FS_EmptySet
  <2>2. CASE Cardinality(Callers) = 1
    BY <1>1, <2>2, FS_Singleton
  <2>3. Cardinality(Callers) \in Nat
    BY <1>1, FS_CardinalityType
  <2>. QED
    BY <1>2, <2>1, <2>2, <2>3
<1>3. CASE \A c \in Callers : load[c] * Cardinality(Callers) <= MaxEvents
  BY <1>3
<1>. QED
  BY <1>2, <1>3 DEF InOrder, Callers

\* With no more calls than slots a thread that adds an event goes round the ring for the
\* first time: its event is none of those in the ring, so they are fewer than slots.
LEMMA FewStayFirst ==
    ASSUME TypesOf, SlotsHoldCalls, Rounds, NEW c \in Clients, pc[c] = "checked",
           \A d \in Callers : load[d] * Cardinality(Callers) <= MaxEvents
    PROVE  FirstRound
<1>. SUFFICES ASSUME \A s \in Slots : lq[s].packet # None PROVE FALSE
  BY DEF Rounds
<1>1. Callers \subseteq Clients /\ IsFiniteSet(Callers) /\ Cardinality(Callers) \in Nat
  BY DispatcherAssumption, FS_Subset, FS_CardinalityType DEF Callers
<1>2. /\ \A d \in Clients : call[d] \in Nat /\ load[d] \in Nat /\ call[d] <= load[d] /\ load[d] <= MaxCalls
      /\ call[c] < load[c] /\ c \in Callers /\ MaxCalls \in Nat
  BY LoadBounds DEF TypesOf, SlotsHoldCalls, Callers
<1>3. PICK m \in Callers : \A d \in Callers : load[d] <= load[m]
  <2> DEFINE T == {MaxCalls - load[d] : d \in Callers}
  <2>1. T \subseteq Nat /\ T # {}
    BY <1>1, <1>2
  <2>2. PICK x \in T : \A y \in T : x <= y
    BY <2>1, LeastOfNumbers
  <2>3. PICK d \in Callers : x = MaxCalls - load[d]
    BY <2>2
  <2>4. \A e \in Callers : MaxCalls - load[d] <= MaxCalls - load[e]
    BY <2>2, <2>3
  <2>. QED
    BY <1>1, <1>2, <2>3, <2>4
<1>. DEFINE L == load[m]
            P == Callers \X (1..L)
            mine == <<c, call[c] + 1>>
            used == P \ {mine}
            f == [s \in Slots |-> <<lq[s].packet.client, lq[s].packet.call>>]
<1>4. L \in Nat /\ L * Cardinality(Callers) <= MaxEvents
  BY <1>1, <1>2, <1>3
<1>5. IsFiniteSet(P) /\ Cardinality(P) = Cardinality(Callers) * L
  <2>1. IsFiniteSet(1..L) /\ Cardinality(1..L) = L
    BY <1>4, FS_Interval
  <2>. QED
    BY <1>1, <2>1, FS_Product
<1>6. mine \in P
  <2>1. call[c] + 1 \in 1..L
    BY <1>1, <1>2, <1>3
  <2>. QED
    BY <1>2, <2>1
<1>7. f \in Injection(Slots, used)
  <2>1. ASSUME NEW s \in Slots PROVE f[s] \in used
    <3>1. /\ lq[s].packet \in Events /\ lq[s].packet.client \in Clients /\ lq[s].packet.call \in Nat \ {0}
          /\ lq[s].packet.call <= call[lq[s].packet.client]
      BY DEF TypesOf, SlotRecords, Events, SlotsHoldCalls
    <3>2. lq[s].packet.client \in Callers /\ lq[s].packet.call \in 1..L
      BY <1>2, <1>3, <3>1 DEF Callers
    <3>3. f[s] # mine
      BY <1>2, <3>1
    <3>. QED
      BY <3>2, <3>3
  <2>2. ASSUME NEW s \in Slots, NEW t \in Slots, f[s] = f[t] PROVE s = t
    <3>1. /\ lq[s].packet.client = lq[t].packet.client
          /\ lq[s].packet.call = lq[t].packet.call
      BY <2>2
    <3>. QED
      BY <3>1 DEF SlotsHoldCalls
  <2>3. f \in [Slots -> used]
    BY <2>1
  <2>. HIDE DEF f, used
  <2>. QED
    BY <2>2, <2>3 DEF Injection, IsInjective
<1>8. IsFiniteSet(used) /\ Cardinality(used) = Cardinality(P) - 1
  BY <1>5, <1>6, FS_RemoveElement
<1>9. Cardinality(Slots) <= Cardinality(used)
  BY <1>7, <1>8, SlotNumbers, FS_Injection DEF ExistsInjection
<1>. QED
  BY <1>1, <1>4, <1>5, <1>8, <1>9, SlotNumbers

\* An event is added at cur, to a slot that nothing refers to.
LEMMA AddsAtCur ==
    ASSUME IInv, InOrder, Orderly, NEW c \in Clients, NEW type \in Types, dispatcherAddEvent(c, type)
    PROVE  /\ getNextElementWithState(lcur, "SERVED") = lcur /\ lq[lcur].state = "SERVED"
           /\ ~Undone(lcur)
           /\ \A d \in Clients \ {c} : call[d] > 0 => slot[d] # lcur
<1>1. /\ pc[c] = "checked" /\ lcur \in Slots /\ HasState("SERVED") /\ c \in Callers
      /\ TypesOf /\ SlotsHoldCalls /\ Rounds
  <2>1. pc[c] = "checked" /\ HasState("SERVED")
    BY DEF dispatcherAddEvent
  <2>2. TypesOf /\ SlotsHoldCalls /\ Rounds
    BY DEF IInv
  <2>3. call[c] \in Nat /\ load[c] \in Nat /\ call[c] < load[c]
    BY <2>1, <2>2, LoadBounds DEF TypesOf, SlotsHoldCalls
  <2>. QED
    BY <2>1, <2>2, <2>3 DEF TypesOf, Callers
<1>2. lq[lcur].state = "SERVED" => getNextElementWithState(lcur, "SERVED") = lcur
  <2>. DEFINE s == getNextElementWithState(lcur, "SERVED")
  <2>1. s \in Slots /\ \A t \in Slots : lq[t].state = "SERVED" => Distance(lcur, s) <= Distance(lcur, t)
    BY <1>1, NextElement
  <2>. HIDE DEF s
  <2>2. lq[lcur].state = "SERVED" => s = lcur
    BY <1>1, <2>1, NearestIsFirst
  <2>. QED
    BY <2>2 DEF s
<1>3. CASE FirstRound
  <2>1. lq[lcur].state = "SERVED" /\ lq[lcur].packet = None
    BY <1>1, <1>3, SlotNumbers DEF FirstRound, TypesOf
  <2>2. ~InHand(lcur)
    BY <1>1, <1>3, SlotNumbers DEF FirstRound, TypesOf, InHand
  <2>3. ~Queued(lcur)
    BY <1>1, RingGrows DEF Queued, TypesOf
  <2>4. \A d \in Clients : call[d] > 0 => slot[d] # lcur
    BY <2>1 DEF Orderly, CallsInOrder, IsOwn, EventOf
  <2>. QED
    BY <1>2, <2>1, <2>2, <2>3, <2>4 DEF Undone
<1>4. CASE ~FirstRound
  <2>1. \A d \in Callers : d = c
    BY <1>1, <1>4, OneOrFew, FewStayFirst
  <2>2. /\ \A d \in Clients \ {c} : load[d] = 0 /\ call[d] = 0
        /\ \A s \in Slots : lq[s].packet # None /\ lq[s].packet.client = c
        /\ call[c] > 0
    <3>1. \A d \in Clients : call[d] \in Nat /\ load[d] \in Nat /\ call[d] <= load[d]
      BY <1>1, LoadBounds DEF TypesOf, SlotsHoldCalls
    <3>2. \A d \in Clients \ {c} : load[d] = 0 /\ call[d] = 0
      BY <2>1, <3>1 DEF Callers
    <3>3. \A s \in Slots : lq[s].packet # None
      BY <1>1, <1>4 DEF Rounds
    <3>4. \A s \in Slots : /\ lq[s].packet.client \in Clients /\ lq[s].packet.call \in Nat \ {0}
                           /\ lq[s].packet.call <= call[lq[s].packet.client]
      BY <1>1, <3>3 DEF TypesOf, SlotRecords, Events, SlotsHoldCalls
    <3>5. \A s \in Slots : lq[s].packet.client = c
      BY <3>1, <3>2, <3>4
    <3>. QED
      BY <1>1, <3>1, <3>2, <3>3, <3>4, <3>5
  <2>3. \A s \in Slots : ~Undone(s)
    <3>. SUFFICES ASSUME NEW s \in Slots, Undone(s) PROVE FALSE
      OBVIOUS
    <3>1. PICK d \in Clients : slot[d] = s /\ IsOwn(d) /\ Asleep(d)
      BY DEF Orderly, SlotsInOrder
    <3>2. d = c
      BY <2>2, <3>1 DEF IsOwn, EventOf
    <3>. QED
      BY <1>1, <3>1, <3>2 DEF Asleep, Under
  <2>4. lcur = CIRCULAR_INCREMENT(slot[c]) /\ (disp.at = "posted" => disp.slot = slot[c])
    BY <1>1, <2>2 DEF Orderly, AloneInOrder, Asleep, Under
  <2>5. slot[c] # lcur
    BY <1>1, <2>4, RingGrows DEF TypesOf
  <2>6. lq[lcur].state = "SERVED"
    BY <1>1, <2>3, <2>4, <2>5 DEF Undone, Posted
  <2>. QED
    BY <1>1, <1>2, <2>2, <2>3, <2>5, <2>6
<1>. QED
  BY <1>3, <1>4

\* So the event is added behind all others.
LEMMA AddOrderly ==
    ASSUME IInv, IInv', InOrder, Orderly, NEW c \in Clients, NEW type \in Types, dispatcherAddEvent(c, type)
    PROVE  Orderly'
<1>. DEFINE event == [client |-> c, call |-> call[c] + 1, type |-> type]
<1>1. /\ getNextElementWithState(lcur, "SERVED") = lcur /\ lq[lcur].state = "SERVED" /\ ~Undone(lcur)
      /\ \A d \in Clients \ {c} : call[d] > 0 => slot[d] # lcur
  BY AddsAtCur
<1>2. /\ TypesOf /\ TypesOf' /\ SlotsHoldCalls /\ SlotsHoldCalls' /\ SemaphoreRefs'
      /\ lcur \in Slots /\ lproc \in Slots
  BY DEF IInv, TypesOf
<1>3. /\ pc[c] = "checked" /\ pc' = [pc EXCEPT ![c] = "added"]
      /\ call' = [call EXCEPT ![c] = @ + 1] /\ slot' = [slot EXCEPT ![c] = lcur]
      /\ lcur' = CIRCULAR_INCREMENT(lcur) /\ Fill(lcur, event, c)
      /\ \A d \in Clients : semVal'[d] = IF refs'[d] = 0 THEN 0 ELSE semVal[d]
      /\ UNCHANGED <<lproc, disp, load>>
  BY <1>1 DEF dispatcherAddEvent, Fill, client
<1>4. event \in Events /\ event.client = c /\ event.call = call[c] + 1
  <2>1. call[c] + 1 \in 1..MaxCalls
    BY <1>2, <1>3, LoadBounds DEF TypesOf, SlotsHoldCalls
  <2>. QED
    BY <2>1 DEF Events
<1>. HIDE DEF event
<1>5. /\ lq'[lcur].packet = event /\ lq'[lcur].sem = c
      /\ \A t \in Slots : lq'[t].state = lq[t].state /\ (t # lcur => lq'[t] = lq[t])
  BY <1>2, <1>3, <1>4, Filled
<1>6. /\ slot'[c] = lcur /\ call'[c] = call[c] + 1 /\ pc'[c] = "added"
      /\ \A d \in Clients \ {c} : slot'[d] = slot[d] /\ call'[d] = call[d] /\ pc'[d] = pc[d]
  BY <1>2, <1>3 DEF TypesOf
<1>7. event # None
  BY <1>4, NoneIsNoPacket
<1>8. /\ IsOwn(c)'
      /\ \A d \in Clients \ {c} : call[d] > 0 /\ IsOwn(d) => IsOwn(d)'
  BY <1>1, <1>2, <1>4, <1>5, <1>6, <1>7 DEF IsOwn, EventOf, TypesOf
<1>9. \A d \in Clients : semVal'[d] <= semVal[d] /\ semVal'[d] \in Nat /\ semVal[d] \in Nat
  BY <1>2, <1>3 DEF TypesOf
<1>10. semVal'[c] = 0
  BY <1>3, <1>9 DEF Orderly, CallsInOrder, Under
<1>11. Asleep(c)' /\ \A d \in Clients \ {c} : Asleep(d) => Asleep(d)'
  BY <1>6, <1>9, <1>10 DEF Asleep, Under
<1>12. \A t \in Slots : Queued(t)' => Queued(t) \/ t = lcur
  BY <1>2, <1>3, CurMoves DEF Queued
<1>13. SlotsInOrder'
  <2>. SUFFICES ASSUME NEW t \in Slots
                PROVE  /\ Queued(t)' => lq'[t].state = "SERVED" /\ ~InHand(t)'
                       /\ Undone(t)' => \E d \in Clients : slot'[d] = t /\ lq'[t].packet # None /\ IsOwn(d)' /\ Asleep(d)'
    BY DEF SlotsInOrder
  <2>1. Queued(t)' => lq'[t].state = "SERVED" /\ ~InHand(t)'
    BY <1>1, <1>3, <1>5, <1>12 DEF Orderly, SlotsInOrder, InHand, Undone
  <2>2. ASSUME Undone(t)', t # lcur
        PROVE  \E d \in Clients : slot'[d] = t /\ lq'[t].packet # None /\ IsOwn(d)' /\ Asleep(d)'
    <3>1. Undone(t)
      BY <1>3, <1>5, <1>12, <2>2 DEF Undone, InHand, Posted
    <3>2. PICK d \in Clients : slot[d] = t /\ lq[t].packet # None /\ IsOwn(d) /\ Asleep(d)
      BY <3>1 DEF Orderly, SlotsInOrder
    <3>3. d # c
      BY <1>3, <3>2 DEF Asleep, Under
    <3>4. call[d] > 0
      <4>1. lq[t].packet \in Events /\ lq[t].packet.call = call[d]
        BY <1>2, <3>2 DEF IsOwn, EventOf, TypesOf, SlotRecords
      <4>. QED
        BY <4>1 DEF Events
    <3>. QED
      BY <1>5, <1>6, <1>8, <1>11, <2>2, <3>2, <3>3, <3>4
  <2>. QED
    BY <1>5, <1>6, <1>7, <1>8, <1>11, <2>1, <2>2
<1>14. CallsInOrder'
  <2>. SUFFICES ASSUME NEW d \in Clients
                PROVE  /\ pc'[d] \in {"added", "waiting", "returning"} \/ semVal'[d] > 0 => call'[d] > 0
                       /\ call'[d] > 0 => IsOwn(d)'
                       /\ semVal'[d] <= 1 /\ (semVal'[d] > 0 => Under(d)')
    BY DEF CallsInOrder
  <2>1. CASE d = c
    <3>1. call'[c] > 0
      BY <1>2, <1>6 DEF TypesOf
    <3>. QED
      BY <1>8, <1>10, <2>1, <3>1
  <2>2. CASE d # c
    <3>1. /\ pc[d] \in {"added", "waiting", "returning"} \/ semVal[d] > 0 => call[d] > 0
          /\ call[d] > 0 => IsOwn(d)
          /\ semVal[d] <= 1 /\ (semVal[d] > 0 => Under(d))
      BY DEF Orderly, CallsInOrder
    <3>2. Under(d) => Under(d)'
      BY <1>6, <2>2 DEF Under
    <3>. QED
      BY <1>6, <1>8, <1>9, <2>2, <3>1, <3>2
  <2>. QED
    BY <2>1, <2>2
<1>15. AloneInOrder'
  <2>. SUFFICES ASSUME NEW d \in Clients, \A e \in Clients \ {d} : load[e] = 0
                PROVE  lcur' = CIRCULAR_INCREMENT(slot'[d]) /\ Asleep(d)'
    BY <1>3 DEF AloneInOrder
  <2>1. load[c] # 0
    BY <1>2, <1>3, LoadBounds DEF TypesOf, SlotsHoldCalls
  <2>2. d = c
    BY <2>1
  <2>. QED
    BY <1>3, <1>6, <1>11, <2>2
<1>. QED
  BY <1>13, <1>14, <1>15 DEF Orderly

\* What is queued is SERVED, so the dispatcher thread takes the slot at curProc.
LEMMA TakesAtCurProc ==
    ASSUME TypesOf, SlotsInOrder, lcur # lproc, HasState("SERVED")
    PROVE  /\ getNextElementWithState(lproc, "SERVED") = lproc /\ Queued(lproc)
           /\ \A t \in Slots : Distance(CIRCULAR_INCREMENT(lproc), t)
                                   < Distance(CIRCULAR_INCREMENT(lproc), lcur)
                                 <=> Queued(t) /\ t # lproc
<1>. DEFINE s == getNextElementWithState(lproc, "SERVED")
<1>1. lproc \in Slots /\ lcur \in Slots
  BY DEF TypesOf
<1>2. Queued(lproc)
  BY <1>1, RingShrinks DEF Queued
<1>3. s \in Slots /\ \A t \in Slots : lq[t].state = "SERVED" => Distance(lproc, s) <= Distance(lproc, t)
  BY <1>1, NextElement
<1>. HIDE DEF s
<1>4. s = lproc
  BY <1>1, <1>2, <1>3, NearestIsFirst DEF SlotsInOrder
<1>. QED
  BY <1>1, <1>2, <1>4, RingShrinks DEF s, Queued

\* The dispatcher thread takes an event, or drops one.
LEMMA TakeOrderly ==
    ASSUME IInv, IInv', Orderly, TakeReadyEvent \/ TakeLocalEvent \/ TakeRemoteEvent \/ Drain
    PROVE  Orderly'
<1>1. TypesOf /\ slot \in [Clients -> Slots] /\ lproc \in Slots /\ lcur \in Slots /\ SlotsInOrder
  BY DEF IInv, TypesOf, Orderly
<1>2. UNCHANGED <<lq, lcur, slot, call, load, pc, semVal>>
  BY DEF TakeReadyEvent, TakeLocalEvent, TakeRemoteEvent, Drain, local, client, sems
<1>3. CASE TakeReadyEvent
  <2>1. /\ disp.at = "next" /\ disp'.at = "local" /\ lproc' = lproc
        /\ disp'.slot \in Slots /\ lq[disp'.slot].state = "READY"
    <3>1. 0 \in Slots /\ HasState("READY")
      BY <1>3, SlotNumbers DEF TakeReadyEvent, Slots
    <3>2. /\ getNextElementWithState(0, "READY") \in Slots
          /\ lq[getNextElementWithState(0, "READY")].state = "READY"
      BY <3>1, NextElement
    <3>3. disp'.slot = getNextElementWithState(0, "READY") /\ disp'.at = "local"
      BY <1>1, <1>3 DEF TakeReadyEvent, TypesOf
    <3>. QED
      BY <1>3, <3>2, <3>3 DEF TakeReadyEvent, AtNext, local
  <2>2. \A t \in Slots : Queued(t)' <=> Queued(t)
    BY <1>2, <2>1 DEF Queued
  <2>3. \A t \in Slots : Undone(t)' => Undone(t)
    BY <1>2, <2>1, <2>2 DEF Undone, InHand, Posted
  <2>4. \A t \in Slots : Queued(t)' => lq'[t].state = "SERVED" /\ ~InHand(t)'
    BY <1>1, <1>2, <2>1, <2>2 DEF SlotsInOrder, InHand
  <2>. QED
    BY <1>1, <1>2, <2>1, <2>3, <2>4, DispatcherOrderly
<1>4. CASE TakeLocalEvent
  <2>1. /\ getNextElementWithState(lproc, "SERVED") = lproc /\ Queued(lproc)
        /\ \A t \in Slots : Distance(CIRCULAR_INCREMENT(lproc), t)
                               < Distance(CIRCULAR_INCREMENT(lproc), lcur)
                             <=> Queued(t) /\ t # lproc
    BY <1>1, <1>4, TakesAtCurProc DEF TakeLocalEvent
  <2>2. /\ disp.at = "next" /\ disp'.at = "local" /\ disp'.slot = lproc
        /\ lproc' = CIRCULAR_INCREMENT(lproc)
    BY <1>1, <1>4, <2>1 DEF TakeLocalEvent, AtNext, TypesOf
  <2>3. \A t \in Slots : Queued(t)' <=> Queued(t) /\ t # lproc
    BY <1>2, <2>1, <2>2 DEF Queued
  <2>4. \A t \in Slots : Undone(t)' => Undone(t)
    BY <1>2, <2>1, <2>2, <2>3 DEF Undone, InHand, Posted
  <2>5. \A t \in Slots : Queued(t)' => lq'[t].state = "SERVED" /\ ~InHand(t)'
    BY <1>1, <1>2, <2>2, <2>3 DEF SlotsInOrder, InHand
  <2>. QED
    BY <1>1, <1>2, <2>2, <2>4, <2>5, DispatcherOrderly
<1>5. CASE TakeRemoteEvent
  <2>1. disp.at = "next" /\ disp'.at = "remote" /\ lproc' = lproc
    BY <1>1, <1>5 DEF TakeRemoteEvent, AtNext, TypesOf, local
  <2>2. \A t \in Slots : Queued(t)' <=> Queued(t)
    BY <1>2, <2>1 DEF Queued
  <2>. QED
    BY <1>1, <1>2, <2>1, <2>2, DispatcherOrderly DEF Undone, InHand, Posted, SlotsInOrder
<1>6. CASE Drain
  <2>1. disp.at = "drain" /\ disp'.at \in {"drain", "wake"}
    BY <1>1, <1>6 DEF Drain, TypesOf
  <2>2. \A t \in Slots : Queued(t)' => Queued(t)
    <3>1. CASE lcur # lproc
      <4>1. /\ lproc' = CIRCULAR_INCREMENT(lproc)
            /\ \A t \in Slots : Distance(CIRCULAR_INCREMENT(lproc), t)
                                   < Distance(CIRCULAR_INCREMENT(lproc), lcur)
                                 <=> Queued(t) /\ t # lproc
        BY <1>1, <1>6, <3>1, TakesAtCurProc DEF Drain
      <4>. QED
        BY <1>2, <4>1 DEF Queued
    <3>2. CASE lcur = lproc
      BY <1>2, <1>6, <3>2 DEF Drain, Queued
    <3>. QED
      BY <3>1, <3>2
  <2>3. \A t \in Slots : ~InHand(t)' /\ ~Posted(t) /\ ~Posted(t)'
    BY <2>1 DEF InHand, Posted
  <2>4. \A t \in Slots : Undone(t)' => Undone(t)
    BY <1>2, <2>2, <2>3 DEF Undone
  <2>5. \A t \in Slots : Queued(t)' => lq'[t].state = "SERVED" /\ ~InHand(t)'
    BY <1>1, <1>2, <2>2, <2>3 DEF SlotsInOrder
  <2>. QED
    BY <1>1, <1>2, <2>1, <2>4, <2>5, DispatcherOrderly
<1>. QED
  BY <1>3, <1>4, <1>5, <1>6

\* It marks the event in hand, or the one that a packet or a credit makes ready.
LEMMA MarkOrderly ==
    ASSUME IInv, IInv', Orderly, BlockEvent \/ SendRequest \/ ServeRemoteRequest \/ MarkServed
    PROVE  Orderly'
<1>1. /\ TypesOf /\ slot \in [Clients -> Slots] /\ disp.slot \in Slots /\ SlotsInOrder
      /\ disp \in DispRecords
  BY DEF IInv, TypesOf, Orderly, DispRecords
<1>2. UNCHANGED <<lproc, lcur, slot, call, load, pc, semVal>> /\ NextEvent
  BY DEF BlockEvent, SendRequest, SendMarked, ServeRemoteRequest, MarkServed, client, sems
<1>3. disp'.at \in {"wake", "next"}
  BY <1>1, <1>2, NextEventMoves
<1>4. \A t \in Slots : Queued(t)' <=> Queued(t)
  BY <1>2 DEF Queued
<1>5. \A t \in Slots : ~InHand(t)' /\ ~Posted(t)'
  BY <1>3 DEF InHand, Posted
<1>6. ASSUME \A t \in Slots : lq'[t].packet = lq[t].packet,
             \A t \in Slots : \/ lq'[t].state = lq[t].state /\ ~Posted(t)
                              \/ lq'[t].state = "SERVED"
                              \/ ~Queued(t) /\ Undone(t)
      PROVE  Orderly'
  <2>1. \A t \in Slots : Queued(t)' => lq'[t].state = "SERVED" /\ ~InHand(t)'
    BY <1>1, <1>4, <1>5, <1>6 DEF SlotsInOrder
  <2>2. \A t \in Slots : Undone(t)' => Undone(t)
    BY <1>4, <1>5, <1>6 DEF Undone
  <2>. QED
    BY <1>1, <1>2, <1>3, <1>6, <2>1, <2>2, DispatcherOrderly
<1>7. CASE BlockEvent \/ SendRequest
  <2>1. disp.at = "local" /\ (Mark(disp.slot, "BLOCKED") \/ Mark(disp.slot, "PENDING"))
    BY <1>7 DEF BlockEvent, SendRequest, SendMarked, AtLocal
  <2>2. InHand(disp.slot) /\ ~Queued(disp.slot) /\ \A t \in Slots : ~Posted(t)
    BY <1>1, <2>1 DEF InHand, Posted, SlotsInOrder
  <2>3. \A t \in Slots : lq'[t].packet = lq[t].packet /\ (t # disp.slot => lq'[t].state = lq[t].state)
    BY <1>1, <2>1, Marked
  <2>. QED
    BY <1>1, <1>6, <2>2, <2>3 DEF Undone
<1>8. CASE MarkServed
  <2>1. disp.at = "posted" /\ Mark(disp.slot, "SERVED")
    BY <1>8 DEF MarkServed
  <2>2. \A t \in Slots : /\ lq'[t].packet = lq[t].packet
                         /\ lq'[t].state = IF t = disp.slot THEN "SERVED" ELSE lq[t].state
    BY <1>1, <2>1, Marked
  <2>. QED
    BY <1>1, <1>6, <2>1, <2>2 DEF Posted
<1>9. CASE ServeRemoteRequest
  <2>1. disp.at = "remote" /\ \A t \in Slots : ~Posted(t)
    BY <1>9 DEF ServeRemoteRequest, Posted
  <2>2. CASE lq' = lq
    BY <1>6, <2>1, <2>2
  <2>3. CASE lq' # lq
    <3>1. PICK type : Blocked(type) # {} /\ Mark(FirstBlocked(type), "READY")
      BY <1>9, <2>3 DEF ServeRemoteRequest
    <3>. DEFINE s == FirstBlocked(type)
    <3>2. s \in Slots /\ lq[s].state = "BLOCKED"
      BY <3>1, FirstBlockedElement DEF Blocked
    <3>. HIDE DEF s
    <3>3. \A t \in Slots : lq'[t].packet = lq[t].packet /\ (t # s => lq'[t].state = lq[t].state)
      BY <1>1, <3>1, <3>2, Marked DEF s
    <3>4. ~Queued(s) /\ Undone(s)
      BY <1>1, <2>1, <3>2 DEF SlotsInOrder, Undone
    <3>. QED
      BY <1>6, <2>1, <3>3, <3>4
  <2>. QED
    BY <2>2, <2>3
<1>. QED
  BY <1>7, <1>8, <1>9

\* It posts the thread of the event in hand, or of one that was sent.
LEMMA ServeOrderly ==
    ASSUME IInv, IInv', Orderly, ServeLocally \/ ServeResponse \/ Wake
    PROVE  Orderly'
<1>1. /\ TypesOf /\ SlotsHoldCalls /\ SlotsInOrder /\ disp.slot \in Slots
      /\ slot \in [Clients -> Slots]
  BY DEF IInv, TypesOf, Orderly
<1>2. UNCHANGED <<lq, lcur, lproc, slot, call, load, pc>> /\ disp.at \in {"local", "remote", "wake"}
  BY DEF ServeLocally, ServeResponse, Wake, AtLocal, local, client
<1>3. CASE ServeLocally
  <2>1. PostSemaphore(disp.slot) /\ InHand(disp.slot)
    BY <1>3 DEF ServeLocally, AtLocal, InHand
  <2>2. Undone(disp.slot) /\ ~Queued(disp.slot)
    BY <1>1, <2>1 DEF Undone, SlotsInOrder
  <2>. QED
    BY <1>1, <1>2, <2>1, <2>2, PostingOrderly
<1>4. ASSUME NEW s \in Slots, lq[s].state = "PENDING", PostSemaphore(s), disp.at # "local"
      PROVE  Orderly'
  <2>1. Undone(s) /\ ~Queued(s)
    BY <1>1, <1>2, <1>4 DEF Undone, Posted, SlotsInOrder
  <2>. QED
    BY <1>1, <1>2, <1>4, <2>1, PostingOrderly
<1>5. CASE ServeResponse
  <2>1. PICK s \in Requests(rq[disp.slot]) : PostSemaphore(s)
    BY <1>5 DEF ServeResponse
  <2>. QED
    BY <1>4, <1>5, <2>1 DEF Requests, ServeResponse
<1>6. CASE Wake /\ HasState("PENDING")
  <2>. DEFINE s == getNextElementWithState(0, "PENDING")
  <2>1. 0 \in Slots
    BY SlotNumbers DEF Slots
  <2>2. s \in Slots /\ lq[s].state = "PENDING"
    BY <1>6, <2>1, NextElement
  <2>3. PostSemaphore(s) /\ disp.at = "wake"
    BY <1>6 DEF Wake
  <2>. HIDE DEF s
  <2>. QED
    BY <1>4, <2>2, <2>3
<1>7. CASE Wake /\ ~HasState("PENDING")
  <2>1. disp.at = "wake" /\ disp'.at = "down" /\ UNCHANGED semVal
    BY <1>1, <1>7 DEF Wake, TypesOf
  <2>2. \A t \in Slots : Queued(t)' <=> Queued(t)
    BY <1>2 DEF Queued
  <2>. QED
    BY <1>1, <1>2, <2>1, <2>2, DispatcherOrderly DEF Undone, InHand, Posted, SlotsInOrder
<1>. QED
  BY <1>3, <1>5, <1>6, <1>7

\* A reset begins.
LEMMA ResetOrderly ==
    ASSUME IInv, IInv', Orderly, ServeResetRequest \/ JoinReader
    PROVE  Orderly'
<1>1. TypesOf /\ SlotsInOrder /\ slot \in [Clients -> Slots]
  BY DEF IInv, TypesOf, Orderly
<1>2. UNCHANGED <<lq, lcur, lproc, slot, call, load, pc, semVal>>
  BY DEF ServeResetRequest, JoinReader, local, client, sems
<1>3. disp.at \in {"remote", "join"} /\ disp'.at \in {"join", "drain"}
  BY <1>1 DEF ServeResetRequest, JoinReader, TypesOf
<1>4. \A t \in Slots : Queued(t)' <=> Queued(t)
  BY <1>2 DEF Queued
<1>. QED
  BY <1>1, <1>2, <1>3, <1>4, DispatcherOrderly DEF Undone, InHand, Posted, SlotsInOrder

\* No step but the dispatcher thread's looks at the order of a ring.
LEMMA ReaderOrderly ==
    ASSUME Orderly, eventReader \/ UNCHANGED vars PROVE Orderly'
<1>1. UNCHANGED <<lq, lcur, lproc, disp, slot, call, load, pc, semVal>>
  BY DEF eventReader, ReceiveResponse, ReceiveRequest, ReceiveResetRequest, ReadFails,
         AddRemoteEvent, NotifyRemoteEvent, vars, local, client, sems
<1>. QED
  BY <1>1, SameOrderly

\* Nobody has called at first.
LEMMA OrderInitially == Init => OrderInv
<1>. SUFFICES ASSUME Init PROVE Orderly
  BY DEF OrderInv
<1>1. lcur = 0 /\ lproc = 0 /\ disp.at = "next" /\ lq = [s \in Slots |-> [state |-> "SERVED", packet |-> None, sem |-> None]]
  BY DEF Init
<1>2. \A s \in Slots : ~Undone(s)
  <2>1. \A s \in Slots : ~Queued(s)
    BY <1>1, SlotNumbers DEF Queued, Distance
  <2>. QED
    BY <1>1, <2>1 DEF Undone, InHand
<1>. QED
  BY <1>1, <1>2 DEF Init, Orderly, SlotsInOrder, CallsInOrder, AloneInOrder, Undone

\* Every step keeps the rings in order.
LEMMA OrderInductive == IInv /\ IInv' /\ OrderInv /\ [Next]_vars => OrderInv'
<1>. SUFFICES ASSUME IInv, IInv', OrderInv, [Next]_vars, InOrder' PROVE Orderly'
  BY DEF OrderInv
<1>1. load' = load
  BY DEF Next, ClientCall, ClientStep, eventReader, eventSchedulerRun, dispatcherReset,
         CheckReset, AddAfterReset, dispatcherAddEvent, AddEventFails, NotifyDispatcher,
         dispatcherWaitEventComplete, WaitEventFails, WaitAfterReset, Return,
         ReceiveResponse, ReceiveRequest, ReceiveResetRequest, ReadFails, AddRemoteEvent,
         NotifyRemoteEvent, TakeReadyEvent, TakeLocalEvent, TakeRemoteEvent, BlockEvent,
         SendRequest, SendMarked, ServeLocally, ServeRemoteRequest, ServeResponse, MarkServed,
         ServeResetRequest, JoinReader, Drain, Wake, vars, client
<1>2. InOrder
  BY <1>1 DEF InOrder
<1>3. Orderly
  BY <1>2 DEF OrderInv
<1>4. ASSUME NEW c \in Clients, ClientCall(c) \/ ClientStep(c) \/ WaitAfterReset(c) PROVE Orderly'
  <2>1. CASE \E type \in Types : dispatcherAddEvent(c, type)
    BY <1>2, <1>3, <2>1, AddOrderly
  <2>2. CASE ~\E type \in Types : dispatcherAddEvent(c, type)
    BY <1>3, <1>4, <2>2, ThreadSteps DEF ClientCall, ClientStep
  <2>. QED
    BY <2>1, <2>2
<1>5. CASE eventReader \/ UNCHANGED vars
  BY <1>3, <1>5, ReaderOrderly
<1>6. CASE eventSchedulerRun
  BY <1>3, <1>6, TakeOrderly, MarkOrderly, ServeOrderly, ResetOrderly
     DEF eventSchedulerRun, dispatcherReset
<1>. QED
  BY <1>4, <1>5, <1>6 DEF Next

\* Rings that are used in order, as long as the threads call as InOrder says: what is
\* queued lies between curProc and cur, and what the dispatcher thread has not done with
\* belongs to a thread that sleeps.
THEOREM RingsInOrder == Spec => []OrderInv
<1>1. Init => OrderInv
  BY OrderInitially
<1>2. IInv /\ IInv' /\ OrderInv /\ [Next]_vars => OrderInv'
  BY OrderInductive
<1>3. Spec => []IInv
  BY DispatcherInvariant
<1>. QED
  BY <1>1, <1>2, <1>3, PTL DEF Spec

\* What the local queue holds is in a slot that is queued.
LEMMA QueueIsQueued ==
    ASSUME TypesOf, NEW event, InLocalQueue(event)
    PROVE  \E s \in Slots : Queued(s) /\ lq[s].packet = event
<1>1. PICK i \in 1..Distance(lproc, lcur) : lq[(lproc + i - 1) % MaxEvents].packet = event
  BY DEF InLocalQueue, LocalQueue
<1>2. /\ lproc \in Nat /\ lcur \in Nat /\ lproc < MaxEvents /\ lcur < MaxEvents /\ MaxEvents \in Nat
      /\ lproc \in Slots /\ lcur \in Slots
  BY SlotNumbers DEF TypesOf
<1>3. Distance(lproc, lcur) \in Nat /\ Distance(lproc, lcur) < MaxEvents
  BY <1>2 DEF Distance
<1>4. i \in Nat /\ i >= 1 /\ i <= Distance(lproc, lcur)
  BY <1>1, <1>3
<1>. DEFINE s == IF lproc + i - 1 < MaxEvents THEN lproc + i - 1 ELSE lproc + i - 1 - MaxEvents
<1>5. (lproc + i - 1) % MaxEvents = s
  BY <1>2, <1>3, <1>4
<1>6. s \in 0..(MaxEvents - 1)
  BY <1>2, <1>3, <1>4
<1>7. Distance(lproc, s) = i - 1
  BY <1>2, <1>3, <1>4 DEF Distance
<1>8. Queued(s)
  BY <1>3, <1>4, <1>7 DEF Queued
<1>. HIDE DEF s
<1>. QED
  BY <1>1, <1>5, <1>6, <1>8 DEF Slots

\* A thread is woken once, by the event that it has added: when its semaphore is up or it
\* reads the flags of its event, the slot that dispatcherAddEvent gave it still holds that
\* event, which is not queued and has been handled (dispatcherWaitEventComplete,
\* markEventServed).
THEOREM ThreadsWokenByOwnEvent == Spec => []WokenByOwnEvent
<1>1. IInv /\ OrderInv => WokenByOwnEvent
  <2>. SUFFICES ASSUME IInv, Orderly, NEW c \in Clients
                PROVE  /\ semVal[c] + (IF pc[c] = "returning" THEN 1 ELSE 0) <= 1
                       /\ semVal[c] > 0 \/ pc[c] = "returning" =>
                           /\ IsOwn(c)
                           /\ ~InLocalQueue(EventOf(c))
                           /\ \/ lq[slot[c]].state = "SERVED"
                              \/ disp.at = "posted" /\ disp.slot = slot[c]
    BY DEF OrderInv, WokenByOwnEvent
  <2>1. /\ pc[c] \in {"added", "waiting", "returning"} \/ semVal[c] > 0 => call[c] > 0
        /\ call[c] > 0 => IsOwn(c)
        /\ semVal[c] <= 1 /\ (semVal[c] > 0 => Under(c)) /\ semVal[c] \in Nat
        /\ TypesOf /\ SlotsHoldCalls /\ slot[c] \in Slots
    BY DEF IInv, TypesOf, Orderly, CallsInOrder
  <2>2. semVal[c] + (IF pc[c] = "returning" THEN 1 ELSE 0) <= 1
    BY <2>1 DEF Under
  <2>3. ASSUME semVal[c] > 0 \/ pc[c] = "returning"
        PROVE  /\ IsOwn(c)
               /\ ~InLocalQueue(EventOf(c))
               /\ \/ lq[slot[c]].state = "SERVED"
                  \/ disp.at = "posted" /\ disp.slot = slot[c]
    <3>1. IsOwn(c)
      BY <2>1, <2>3
    <3>2. ~Undone(slot[c])
      <4>. SUFFICES ASSUME Undone(slot[c]) PROVE FALSE
        OBVIOUS
      <4>1. PICK d \in Clients : slot[d] = slot[c] /\ IsOwn(d) /\ Asleep(d)
        BY <2>1 DEF Orderly, SlotsInOrder
      <4>2. d = c
        BY <3>1, <4>1 DEF IsOwn, EventOf
      <4>. QED
        BY <2>3, <4>1, <4>2 DEF Asleep, Under
    <3>3. ~InLocalQueue(EventOf(c))
      <4>. SUFFICES ASSUME InLocalQueue(EventOf(c)) PROVE FALSE
        OBVIOUS
      <4>1. PICK s \in Slots : Queued(s) /\ lq[s].packet = EventOf(c)
        BY <2>1, QueueIsQueued
      <4>2. s = slot[c]
        BY <2>1, <3>1, <4>1 DEF SlotsHoldCalls, IsOwn, EventOf
      <4>. QED
        BY <3>2, <4>1, <4>2 DEF Undone
    <3>. QED
      BY <3>1, <3>2, <3>3 DEF Undone, Posted
  <2>. QED
    BY <2>2, <2>3
<1>2. Spec => []IInv
  BY DispatcherInvariant
<1>3. Spec => []OrderInv
  BY RingsInOrder
<1>. QED
  BY <1>1, <1>2, <1>3, PTL

-----------------------------------------------------------------------------
(* Rings that are never full: what notifyDispatcherSem counts               *)

Between(a, b) == {s \in Slots : Distance(a, s) < Distance(a, b)}

\* The slots from a up to b are one more when b steps, and one less when a does.
LEMMA BetweenCounts ==
    ASSUME NEW a \in Slots, NEW b \in Slots
    PROVE  /\ Cardinality(Between(a, b)) \in Nat
           /\ a = b => Cardinality(Between(a, b)) = 0
           /\ CIRCULAR_INCREMENT(b) # a =>
                /\ Between(a, CIRCULAR_INCREMENT(b)) = Between(a, b) \cup {b}
                /\ Cardinality(Between(a, CIRCULAR_INCREMENT(b))) = Cardinality(Between(a, b)) + 1
           /\ CIRCULAR_INCREMENT(b) = a => \A s \in Slots \ {b} : s \in Between(a, b)
           /\ a # b => /\ Between(CIRCULAR_INCREMENT(a), b) = Between(a, b) \ {a}
                       /\ Cardinality(Between(CIRCULAR_INCREMENT(a), b)) = Cardinality(Between(a, b)) - 1
<1>1. IsFiniteSet(Between(a, b)) /\ Cardinality(Between(a, b)) \in Nat
  BY SlotNumbers, CountOfPart DEF Between
<1>2. ASSUME a = b PROVE Cardinality(Between(a, b)) = 0
  <2>1. Between(a, b) = {}
    BY <1>2, RingOrder DEF Between
  <2>. QED
    BY <2>1, FS_EmptySet
<1>3. ASSUME CIRCULAR_INCREMENT(b) # a
      PROVE  /\ Between(a, CIRCULAR_INCREMENT(b)) = Between(a, b) \cup {b}
             /\ Cardinality(Between(a, CIRCULAR_INCREMENT(b))) = Cardinality(Between(a, b)) + 1
  <2>1. Between(a, CIRCULAR_INCREMENT(b)) = Between(a, b) \cup {b}
    BY <1>3, RingGrows DEF Between
  <2>2. b \notin Between(a, b)
    BY RingGrows DEF Between
  <2>. QED
    BY <1>1, <2>1, <2>2, FS_AddElement
<1>4. ASSUME CIRCULAR_INCREMENT(b) = a
      PROVE  \A s \in Slots \ {b} : s \in Between(a, b)
  BY <1>4, RingGrows DEF Between
<1>5. ASSUME a # b
      PROVE  /\ Between(CIRCULAR_INCREMENT(a), b) = Between(a, b) \ {a}
             /\ Cardinality(Between(CIRCULAR_INCREMENT(a), b)) = Cardinality(Between(a, b)) - 1
  <2>1. Between(CIRCULAR_INCREMENT(a), b) = Between(a, b) \ {a}
    BY <1>5, RingShrinks DEF Between
  <2>2. a \in Between(a, b)
    BY <1>5, RingShrinks DEF Between
  <2>. QED
    BY <1>1, <2>1, <2>2, FS_RemoveElement
<1>. QED
  BY <1>1, <1>2, <1>3, <1>4, <1>5

\* What is queued lies between curProc and cur.
LEMMA QueuesBetween ==
    /\ LocallyQueued = Between(lproc, lcur)
    /\ RemotelyQueued = Between(rproc, rcur)
  BY DEF LocallyQueued, RemotelyQueued, Between, Queued, RemoteQueued

\* How many threads call, and what else the rings are bounded by.
LEMMA Bounds ==
    ASSUME TypesOf, NeverFull
    PROVE  /\ IsFiniteSet(Callers) /\ Cardinality(Callers) \in Nat
           /\ load[None] \in Nat /\ load["reset"] \in Nat
           /\ Cardinality(Callers) + load[None] + load["reset"] < MaxEvents
<1>1. IsFiniteSet(Callers) /\ Cardinality(Callers) \in Nat
  BY DispatcherAssumption, FS_Subset, FS_CardinalityType DEF Callers
<1>2. load \in [Clients \cup {None} \cup Endings -> 0..MaxCalls] /\ MaxCalls \in Nat
  BY DispatcherAssumption DEF TypesOf
<1>. QED
  BY <1>1, <1>2 DEF NeverFull, Endings

\* A slot that is not done with is that of the last event of a thread that calls.
LEMMA UndoneIsCalled ==
    ASSUME IInv, Orderly, NEW s \in Slots, Undone(s)
    PROVE  LET c == lq[s].packet.client IN
           c \in Callers /\ slot[c] = s /\ Asleep(c)
<1>1. PICK c \in Clients : slot[c] = s /\ lq[s].packet # None /\ IsOwn(c) /\ Asleep(c)
  BY DEF Orderly, SlotsInOrder
<1>2. lq[s].packet \in Events /\ lq[s].packet.client = c /\ lq[s].packet.call = call[c]
  BY <1>1 DEF IInv, TypesOf, SlotRecords, IsOwn, EventOf
<1>3. load[c] > 0
  <2>1. call[c] > 0 /\ call[c] <= load[c] /\ load[c] \in Nat /\ call[c] \in Nat
    BY <1>2, LoadBounds DEF Events, IInv, TypesOf, SlotsHoldCalls
  <2>. QED
    BY <2>1
<1>. QED
  BY <1>1, <1>2, <1>3 DEF Callers

\* The local ring has room for one more event: every slot that is queued is that of another
\* thread.
LEMMA LocalRingHasRoom ==
    ASSUME IInv, Orderly, NeverFull, NEW c \in Clients, pc[c] = "checked"
    PROVE  CIRCULAR_INCREMENT(lcur) # lproc
<1>. SUFFICES ASSUME CIRCULAR_INCREMENT(lcur) = lproc PROVE FALSE
  OBVIOUS
<1>1. TypesOf /\ lcur \in Slots /\ lproc \in Slots
  BY DEF IInv, TypesOf
<1>. DEFINE others == Slots \ {lcur}
            owner == [s \in others |-> lq[s].packet.client]
<1>2. IsFiniteSet(others) /\ Cardinality(others) = MaxEvents - 1
  BY <1>1, SlotNumbers, FS_RemoveElement
<1>3. \A s \in others : Undone(s)
  BY <1>1, BetweenCounts DEF Between, Undone, Queued
<1>4. ASSUME NEW s \in others PROVE owner[s] \in Callers \ {c} /\ slot[owner[s]] = s
  <2>1. owner[s] \in Callers /\ slot[owner[s]] = s /\ Asleep(owner[s])
    BY <1>3, UndoneIsCalled
  <2>. QED
    BY <2>1 DEF Asleep, Under
<1>5. c \in Callers
  <2>1. call[c] \in Nat /\ load[c] \in Nat /\ call[c] < load[c]
    BY <1>1, LoadBounds DEF IInv, TypesOf, SlotsHoldCalls
  <2>. QED
    BY <2>1 DEF Callers
<1>6. IsFiniteSet(Callers \ {c}) /\ Cardinality(Callers \ {c}) = Cardinality(Callers) - 1
  BY <1>1, <1>5, Bounds, FS_RemoveElement
<1>7. Cardinality(Callers \ {c}) < Cardinality(others)
  BY <1>1, <1>2, <1>6, Bounds, SlotNumbers
<1>8. owner \in [others -> Callers \ {c}]
  BY <1>4
<1>. HIDE DEF owner, others
<1>9. PICK s, t \in others : s # t /\ owner[s] = owner[t]
  BY <1>2, <1>6, <1>7, <1>8, FS_PigeonHole
<1>. QED
  BY <1>4, <1>9

\* The remote ring has room for the packet that the reader thread holds: every other packet
\* is a request that the peer waits for, or the response for another thread.
LEMMA RemoteRingHasRoom ==
    ASSUME IInv, Orderly, NeverFull, PacketsQueued, ResetIsLast, ~disp.resetXLink, reader.at = "add"
    PROVE  CIRCULAR_INCREMENT(rcur) # rproc
<1>. SUFFICES ASSUME CIRCULAR_INCREMENT(rcur) = rproc PROVE FALSE
  OBVIOUS
<1>1. TypesOf /\ rcur \in Slots /\ rproc \in Slots /\ rq \in [Slots -> Packets] /\ reader.packet \in Packets
  BY DEF IInv, TypesOf
<1>. DEFINE others == Slots \ {rcur}
            requests == {s \in others : rq[s] \in RemoteRequests}
            responses == {s \in others : rq[s] \in Events}
            own == IF reader.packet \in Events THEN {reader.packet.client} ELSE {}
            owner == [s \in responses |-> rq[s].client]
<1>2. IsFiniteSet(others) /\ Cardinality(others) = MaxEvents - 1
  BY <1>1, SlotNumbers, FS_RemoveElement
<1>3. \A s \in others : RemoteQueued(s) /\ Live(s)
  BY <1>1, BetweenCounts DEF Between, RemoteQueued, Live
<1>4. others = requests \cup responses
  <2>1. \A s \in others : rq[s] # None /\ rq[s] # ResetRequest /\ rq[s] \in Packets
    BY <1>1, <1>3 DEF PacketsQueued, ResetIsLast
  <2>. QED
    BY <2>1 DEF Packets
<1>5. /\ IsFiniteSet(requests) /\ IsFiniteSet(responses)
      /\ Cardinality(requests) \in Nat /\ Cardinality(responses) \in Nat
  BY <1>2, FS_Subset, FS_CardinalityType
<1>6. Cardinality(others) <= Cardinality(requests) + Cardinality(responses)
  <2>1. Cardinality(others) = Cardinality(requests) + Cardinality(responses) - Cardinality(requests \cap responses)
    BY <1>4, <1>5, FS_Union
  <2>2. Cardinality(requests \cap responses) \in Nat
    BY <1>5, FS_Subset, FS_CardinalityType
  <2>. QED
    BY <1>5, <2>1, <2>2
<1>7. Cardinality(requests) + (IF reader.packet \in RemoteRequests THEN 1 ELSE 0) <= load[None]
  <2>1. requests \in SUBSET Requested /\ IsFiniteSet(Requested)
    BY SlotNumbers, FS_Subset DEF Requested
  <2>2. Cardinality(requests) <= Cardinality(Requested)
    BY <2>1, FS_Subset
  <2>3. outstanding \in Nat /\ load[None] \in Nat /\ outstanding <= load[None]
    BY <1>1, Bounds DEF TypesOf
  <2>4. outstanding >= Cardinality(Requested) + (IF reader.packet \in RemoteRequests THEN 1 ELSE 0)
    BY DEF IInv, RequestsQueued
  <2>. HIDE DEF requests
  <2>. QED
    BY <1>5, <2>2, <2>3, <2>4, RequestsCounted
<1>8. ASSUME NEW event \in Events, Waits(event)
      PROVE  event.client \in Callers /\ event = lq[slot[event.client]].packet
  <2>1. PICK s \in Slots : /\ lq[s].state = "PENDING" /\ lq[s].packet = event
                           /\ ~(disp.at = "posted" /\ disp.slot = s)
    BY <1>8 DEF Waits
  <2>2. Undone(s)
    BY <2>1 DEF Undone, Posted
  <2>. QED
    BY <2>1, <2>2, UndoneIsCalled
<1>9. own \subseteq Callers /\ Cardinality(own) = IF reader.packet \in Events THEN 1 ELSE 0
  <2>1. CASE reader.packet \in Events
    <3>1. Waits(reader.packet)
      BY <2>1 DEF IInv, ResponsesOnce
    <3>. QED
      BY <1>8, <2>1, <3>1, FS_Singleton
  <2>2. CASE reader.packet \notin Events
    BY <2>2, FS_EmptySet
  <2>. QED
    BY <2>1, <2>2
<1>10. IsFiniteSet(Callers \ own) /\ Cardinality(Callers \ own) = Cardinality(Callers) - Cardinality(own)
  <2>1. CASE reader.packet \in Events
    <3>1. own = {reader.packet.client} /\ reader.packet.client \in Callers
      BY <1>9, <2>1
    <3>2. /\ IsFiniteSet(Callers \ {reader.packet.client})
          /\ Cardinality(Callers \ {reader.packet.client}) = Cardinality(Callers) - 1
      BY <1>1, <3>1, Bounds, FS_RemoveElement
    <3>. QED
      BY <1>9, <2>1, <3>1, <3>2
  <2>2. CASE reader.packet \notin Events
    <3>1. own = {} /\ Callers \ own = Callers
      BY <2>2
    <3>. QED
      BY <1>1, <1>9, <2>2, <3>1, Bounds
  <2>. QED
    BY <2>1, <2>2
<1>11. ASSUME NEW s \in responses
       PROVE  owner[s] \in Callers \ own /\ rq[s] = lq[slot[owner[s]]].packet
  <2>1. rq[s] \in Events /\ Waits(rq[s]) /\ ~Received(rq[s])
    BY <1>3 DEF IInv, ResponsesOnce
  <2>2. rq[s].client \in Callers /\ rq[s] = lq[slot[rq[s].client]].packet
    BY <1>8, <2>1
  <2>3. ASSUME reader.packet \in Events PROVE rq[s].client # reader.packet.client
    <3>1. Waits(reader.packet)
      BY <2>3 DEF IInv, ResponsesOnce
    <3>2. reader.packet = lq[slot[reader.packet.client]].packet
      BY <1>8, <2>3, <3>1
    <3>. QED
      BY <2>1, <2>2, <3>2 DEF Received
  <2>. QED
    BY <2>2, <2>3
<1>12. Cardinality(responses) <= Cardinality(Callers \ own)
  <2>1. owner \in [responses -> Callers \ own]
    BY <1>11
  <2>2. ASSUME NEW s \in responses, NEW t \in responses, owner[s] = owner[t] PROVE s = t
    <3>1. rq[s] = rq[t]
      BY <1>11, <2>2
    <3>2. Live(s) /\ Live(t) /\ rq[s] \in Events /\ s \in Slots /\ t \in Slots
      BY <1>3
    <3>. QED
      BY <3>1, <3>2 DEF IInv, ResponsesOnce
  <2>. HIDE DEF owner, responses, own
  <2>3. owner \in Injection(responses, Callers \ own)
    BY <2>1, <2>2 DEF Injection, IsInjective
  <2>. QED
    BY <1>10, <2>3, FS_Injection
<1>13. reader.packet \in RemoteRequests \cup Events \/ (reader.packet = ResetRequest /\ load["reset"] = 1)
  BY <1>1 DEF PacketsQueued, ResetIsLast, Packets
<1>. HIDE DEF requests, responses, others, own
<1>. QED
  BY <1>1, <1>2, <1>5, <1>6, <1>7, <1>9, <1>10, <1>12, <1>13, Bounds, SlotNumbers, PacketKinds

\* The slot just behind curProc is not queued.
LEMMA BehindCurProc ==
    ASSUME NEW b \in Slots, NEW n \in Slots
    PROVE  ~(Distance(CIRCULAR_INCREMENT(b), b) < Distance(CIRCULAR_INCREMENT(b), n))
  BY SlotNumbers DEF Distance, CIRCULAR_INCREMENT

\* What is queued stays as it is, and what is told of it.
LEMMA SameCounted ==
    ASSUME Counted, UNCHANGED <<rcur, rproc, lcur, lproc, notify, reader, load, Added>>,
           \A s \in Slots : RemoteQueued(s) => rq'[s] = rq[s],
           disp'.at = "remote" => disp.at = "remote" /\ disp'.slot = disp.slot
    PROVE  Counted'
<1>1. \A s \in Slots : (Queued(s)' <=> Queued(s)) /\ (RemoteQueued(s)' <=> RemoteQueued(s))
  BY DEF Queued, RemoteQueued
<1>2. LocallyQueued' = LocallyQueued /\ RemotelyQueued' = RemotelyQueued
  BY <1>1 DEF LocallyQueued, RemotelyQueued
<1>3. PacketsQueued'
  BY <1>1 DEF Counted, PacketsQueued
<1>4. ResetIsLast'
  BY <1>1 DEF Counted, ResetIsLast
<1>5. Notified'
  BY <1>2 DEF Counted, Notified
<1>. QED
  BY <1>3, <1>4, <1>5 DEF Counted

\* The reader thread receives a packet, or fails to.
LEMMA ReceiveCounted ==
    ASSUME Counted, UNCHANGED <<rq, rcur, rproc, lcur, lproc, notify, load, Added, disp>>,
           reader.at = "receive", reader'.at \in {"add", "ended"},
           reader'.at = "add" => /\ reader'.packet # None
                                 /\ reader'.packet = ResetRequest => load["reset"] = 1
    PROVE  Counted'
<1>1. \A s \in Slots : (Queued(s)' <=> Queued(s)) /\ (RemoteQueued(s)' <=> RemoteQueued(s))
  BY DEF Queued, RemoteQueued
<1>2. LocallyQueued' = LocallyQueued /\ RemotelyQueued' = RemotelyQueued
  BY <1>1 DEF LocallyQueued, RemotelyQueued
<1>3. PacketsQueued'
  BY <1>1 DEF Counted, PacketsQueued
<1>4. ResetIsLast'
  BY <1>1 DEF Counted, ResetIsLast
<1>5. Notified'
  BY <1>2 DEF Counted, Notified
<1>. QED
  BY <1>3, <1>4, <1>5 DEF Counted

\* The reader thread notifies the dispatcher thread after it has queued a packet.
LEMMA ReaderCounted ==
    ASSUME IInv, Orderly, NeverFull, ~disp.resetXLink, Counted, eventReader
    PROVE  Counted'
<1>1. /\ TypesOf /\ rcur \in Slots /\ rproc \in Slots /\ lcur \in Slots /\ lproc \in Slots
      /\ rq \in [Slots -> Packets] /\ notify \in Nat
      /\ reader \in [at : {"receive", "add", "notify", "ended"}, packet : Packets]
  BY DEF IInv, TypesOf
<1>2. UNCHANGED <<lcur, lproc, rproc, load, Added, disp>>
  BY DEF eventReader, ReceiveResponse, ReceiveRequest, ReceiveResetRequest, ReadFails,
         AddRemoteEvent, NotifyRemoteEvent, local, remote, client, Added
<1>3. CASE ReceiveResponse \/ ReceiveRequest \/ ReceiveResetRequest \/ ReadFails
  <2>1. reader.at = "receive" /\ UNCHANGED <<rq, rcur, notify>>
    BY <1>3 DEF ReceiveResponse, ReceiveRequest, ReceiveResetRequest, ReadFails, remote
  <2>2. /\ reader'.at \in {"add", "ended"}
        /\ reader'.at = "add" => /\ reader'.packet # None
                                 /\ reader'.packet = ResetRequest => load["reset"] = 1
    <3>1. ASSUME ReceiveResponse
          PROVE  reader'.at = "add" /\ reader'.packet \in Events
      BY <1>1, <3>1 DEF ReceiveResponse, TypesOf
    <3>2. ASSUME ReceiveRequest
          PROVE  reader'.at = "add" /\ reader'.packet \in RemoteRequests
      BY <3>2 DEF ReceiveRequest
    <3>3. ASSUME ReceiveResetRequest
          PROVE  reader'.at = "add" /\ reader'.packet = ResetRequest /\ load["reset"] = 1
      BY <3>3 DEF ReceiveResetRequest
    <3>4. ASSUME ReadFails
          PROVE  reader'.at = "ended"
      BY <1>1, <3>4 DEF ReadFails
    <3>. QED
      BY <1>3, <3>1, <3>2, <3>3, <3>4, PacketKinds
  <2>. QED
    BY <1>2, <2>1, <2>2, ReceiveCounted
<1>4. CASE AddRemoteEvent
  <2>1. /\ reader.at = "add" /\ reader'.at = "notify" /\ reader'.packet = reader.packet
        /\ rcur' = CIRCULAR_INCREMENT(rcur) /\ notify' = notify
        /\ rq'[rcur] = reader.packet /\ \A s \in Slots \ {rcur} : rq'[s] = rq[s]
    BY <1>1, <1>4 DEF AddRemoteEvent
  <2>2. CIRCULAR_INCREMENT(rcur) # rproc
    BY <2>1, RemoteRingHasRoom DEF Counted
  <2>3. /\ LocallyQueued' = LocallyQueued
        /\ RemotelyQueued' = RemotelyQueued \cup {rcur}
        /\ Cardinality(RemotelyQueued') = Cardinality(RemotelyQueued) + 1
    <3>1. LocallyQueued' = Between(lproc, lcur) /\ RemotelyQueued' = Between(rproc, CIRCULAR_INCREMENT(rcur))
      BY <1>2, <2>1 DEF LocallyQueued, RemotelyQueued, Between, Queued, RemoteQueued
    <3>. QED
      BY <1>1, <2>2, <3>1, QueuesBetween, BetweenCounts
  <2>4. \A s \in Slots : RemoteQueued(s)' => RemoteQueued(s) \/ s = rcur
    BY <2>3 DEF RemotelyQueued
  <2>5. PacketsQueued'
    BY <1>2, <2>1, <2>4 DEF Counted, PacketsQueued
  <2>6. ResetIsLast'
    BY <1>2, <2>1, <2>4 DEF Counted, ResetIsLast
  <2>7. Notified'
    <3>1. Cardinality(RemotelyQueued) \in Nat /\ Cardinality(LocallyQueued) \in Nat
      BY <1>1, QueuesBetween, BetweenCounts
    <3>2. Cardinality(Added) \in Nat
      BY DispatcherAssumption, CountOfPart DEF Added
    <3>. QED
      BY <1>1, <1>2, <2>1, <2>3, <3>1, <3>2 DEF Counted, Notified
  <2>. QED
    BY <2>5, <2>6, <2>7 DEF Counted
<1>5. CASE NotifyRemoteEvent
  <2>1. /\ reader.at = "notify" /\ notify' = notify + 1 /\ UNCHANGED <<rq, rcur>>
        /\ reader'.at = IF reader.packet = ResetRequest THEN "ended" ELSE "receive"
    BY <1>5 DEF NotifyRemoteEvent, NextReceive, remote
  <2>2. \A s \in Slots : (Queued(s)' <=> Queued(s)) /\ (RemoteQueued(s)' <=> RemoteQueued(s))
    BY <1>2, <2>1 DEF Queued, RemoteQueued
  <2>3. LocallyQueued' = LocallyQueued /\ RemotelyQueued' = RemotelyQueued
    BY <2>2 DEF LocallyQueued, RemotelyQueued
  <2>4. PacketsQueued'
    BY <1>2, <2>1, <2>2 DEF Counted, PacketsQueued
  <2>5. ResetIsLast'
    BY <1>2, <2>1, <2>2 DEF Counted, ResetIsLast
  <2>6. Notified'
    <3>1. Cardinality(Added) \in Nat
      BY DispatcherAssumption, CountOfPart DEF Added
    <3>. QED
      BY <1>1, <1>2, <2>1, <2>3, <3>1 DEF Counted, Notified
  <2>. QED
    BY <2>4, <2>5, <2>6 DEF Counted
<1>. QED
  BY <1>3, <1>4, <1>5 DEF eventReader

\* A thread adds an event and then notifies the dispatcher thread.
LEMMA ThreadCounted ==
    ASSUME IInv, IInv', InOrder, Orderly, NeverFull, ~disp.resetXLink, Counted, NEW c \in Clients,
           ClientCall(c) \/ ClientStep(c) \/ WaitAfterReset(c)
    PROVE  Counted'
<1>1. /\ TypesOf /\ lcur \in Slots /\ lproc \in Slots /\ rcur \in Slots /\ rproc \in Slots /\ notify \in Nat
      /\ pc \in [Clients -> {"idle", "checked", "added", "waiting", "returning", "asleep", "failed"}]
      /\ disp.at # "down"
  BY DEF IInv, TypesOf, DispatcherAt
<1>2. /\ IsFiniteSet(Added) /\ Cardinality(Added) \in Nat
      /\ Cardinality(LocallyQueued) \in Nat /\ Cardinality(RemotelyQueued) \in Nat
  BY <1>1, DispatcherAssumption, CountOfPart, QueuesBetween, BetweenCounts DEF Added
<1>3. ASSUME NEW type \in Types, dispatcherAddEvent(c, type) PROVE Counted'
  <2>1. getNextElementWithState(lcur, "SERVED") = lcur
    BY <1>3, AddsAtCur
  <2>2. /\ pc[c] = "checked" /\ lcur' = CIRCULAR_INCREMENT(lcur) /\ pc' = [pc EXCEPT ![c] = "added"]
        /\ UNCHANGED <<lproc, rq, rcur, rproc, notify, load, reader, disp>>
    BY <1>3, <2>1 DEF dispatcherAddEvent, remote
  <2>3. CIRCULAR_INCREMENT(lcur) # lproc
    BY <2>2, LocalRingHasRoom
  <2>4. /\ Cardinality(LocallyQueued') = Cardinality(LocallyQueued) + 1
        /\ RemotelyQueued' = RemotelyQueued
    <3>1. LocallyQueued' = Between(lproc, CIRCULAR_INCREMENT(lcur)) /\ RemotelyQueued' = RemotelyQueued
      BY <2>2 DEF LocallyQueued, RemotelyQueued, Between, Queued, RemoteQueued
    <3>. QED
      BY <1>1, <2>3, <3>1, QueuesBetween, BetweenCounts
  <2>5. Cardinality(Added') = Cardinality(Added) + 1
    <3>1. Added' = Added \cup {c} /\ c \notin Added
      BY <1>1, <2>2 DEF Added
    <3>. QED
      BY <1>2, <3>1, FS_AddElement
  <2>6. PacketsQueued' /\ ResetIsLast'
    BY <2>2 DEF Counted, PacketsQueued, ResetIsLast, RemoteQueued
  <2>7. Notified'
    BY <1>1, <1>2, <2>2, <2>4, <2>5 DEF Counted, Notified
  <2>. QED
    BY <2>6, <2>7 DEF Counted
<1>4. CASE NotifyDispatcher(c)
  <2>1. /\ pc[c] = "added" /\ notify' = notify + 1 /\ pc' = [pc EXCEPT ![c] = "waiting"]
        /\ UNCHANGED <<lcur, lproc, rq, rcur, rproc, load, reader, disp>>
    BY <1>4 DEF NotifyDispatcher, local, remote
  <2>2. LocallyQueued' = LocallyQueued /\ RemotelyQueued' = RemotelyQueued
    BY <2>1 DEF LocallyQueued, RemotelyQueued, Queued, RemoteQueued
  <2>3. Cardinality(Added') = Cardinality(Added) - 1
    <3>1. Added' = Added \ {c} /\ c \in Added
      BY <1>1, <2>1 DEF Added
    <3>. QED
      BY <1>2, <3>1, FS_RemoveElement
  <2>4. PacketsQueued' /\ ResetIsLast'
    BY <2>1 DEF Counted, PacketsQueued, ResetIsLast, RemoteQueued
  <2>5. Notified'
    BY <1>1, <1>2, <2>1, <2>2, <2>3 DEF Counted, Notified
  <2>. QED
    BY <2>4, <2>5 DEF Counted
<1>5. CASE CheckReset(c) \/ AddEventFails(c) \/ dispatcherWaitEventComplete(c) \/ WaitEventFails(c) \/ Return(c)
  <2>1. UNCHANGED <<lcur, lproc, rq, rcur, rproc, notify, load, reader, disp>>
    BY <1>5 DEF CheckReset, AddEventFails, dispatcherWaitEventComplete, WaitEventFails, Return, local, remote
  <2>2. /\ pc[c] # "added" /\ pc'[c] # "added"
        /\ \A d \in Clients \ {c} : pc'[d] = pc[d]
    BY <1>1, <1>5 DEF CheckReset, AddEventFails, dispatcherWaitEventComplete, WaitEventFails, Return
  <2>3. Added' = Added
    BY <2>2 DEF Added
  <2>. QED
    BY <2>1, <2>3, SameCounted
<1>6. ~AddAfterReset(c) /\ ~WaitAfterReset(c)
  BY <1>1 DEF AddAfterReset, WaitAfterReset
<1>. QED
  BY <1>3, <1>4, <1>5, <1>6 DEF ClientCall, ClientStep

\* The dispatcher thread takes a notification with each event.
LEMMA DispatcherCounted ==
    ASSUME IInv, InOrder, Orderly, NeverFull, ~disp.resetXLink, ~disp'.resetXLink, Counted, eventSchedulerRun
    PROVE  Counted'
<1>1. /\ TypesOf /\ lcur \in Slots /\ lproc \in Slots /\ rcur \in Slots /\ rproc \in Slots /\ notify \in Nat
      /\ rq \in [Slots -> Packets] /\ disp.slot \in Slots
      /\ disp.at \notin {"join", "drain", "wake", "down"}
  BY DEF IInv, TypesOf, DispatcherAt
<1>2. /\ Cardinality(Added) \in Nat
      /\ Cardinality(LocallyQueued) \in Nat /\ Cardinality(RemotelyQueued) \in Nat
  BY <1>1, DispatcherAssumption, CountOfPart, QueuesBetween, BetweenCounts DEF Added
<1>3. UNCHANGED <<lcur, rcur, reader, load, Added>>
  BY DEF eventSchedulerRun, dispatcherReset, TakeReadyEvent, TakeLocalEvent, TakeRemoteEvent,
         BlockEvent, ServeLocally, SendRequest, SendMarked, ServeRemoteRequest, ServeResponse,
         MarkServed, ServeResetRequest, JoinReader, Drain, Wake, local, remote, client, Added
<1>4. CASE TakeReadyEvent \/ BlockEvent \/ ServeLocally \/ SendRequest \/ MarkServed
  <2>1. UNCHANGED <<lproc, rq, rproc, notify>>
    BY <1>4 DEF TakeReadyEvent, BlockEvent, ServeLocally, SendRequest, SendMarked, MarkServed, local, remote
  <2>2. disp'.at # "remote"
    BY <1>1, <1>4, NextEventMoves
       DEF TakeReadyEvent, BlockEvent, ServeLocally, SendRequest, SendMarked, MarkServed, PostSemaphore, TypesOf
  <2>. QED
    BY <1>3, <2>1, <2>2, SameCounted
<1>5. CASE ServeRemoteRequest \/ ServeResponse
  <2>1. /\ disp.at = "remote" /\ UNCHANGED <<lproc, rproc, notify>>
        /\ rq' = [rq EXCEPT ![disp.slot] = None]
    BY <1>5 DEF ServeRemoteRequest, ServeResponse, ClearRemote, local
  <2>2. ~RemoteQueued(disp.slot)
    BY <1>1, <2>1, BehindCurProc DEF Counted, PacketsQueued, RemoteQueued
  <2>3. \A s \in Slots : RemoteQueued(s) => rq'[s] = rq[s]
    BY <1>1, <2>1, <2>2
  <2>4. disp'.at # "remote"
    BY <1>1, <1>5, NextEventMoves DEF ServeRemoteRequest, ServeResponse, PostSemaphore, TypesOf
  <2>. QED
    BY <1>3, <2>1, <2>3, <2>4, SameCounted
<1>6. CASE TakeLocalEvent
  <2>1. getNextElementWithState(lproc, "SERVED") = lproc /\ lcur # lproc
    BY <1>1, <1>6, TakesAtCurProc DEF TakeLocalEvent, Orderly
  <2>2. /\ lproc' = CIRCULAR_INCREMENT(lproc) /\ notify' = notify - 1
        /\ UNCHANGED <<rq, rproc>> /\ disp'.at = "local"
    BY <1>1, <1>6, <2>1 DEF TakeLocalEvent, remote, TypesOf
  <2>3. /\ Cardinality(LocallyQueued') = Cardinality(LocallyQueued) - 1
        /\ RemotelyQueued' = RemotelyQueued
    <3>1. LocallyQueued' = Between(CIRCULAR_INCREMENT(lproc), lcur) /\ RemotelyQueued' = RemotelyQueued
      BY <1>3, <2>2 DEF LocallyQueued, RemotelyQueued, Between, Queued, RemoteQueued
    <3>. QED
      BY <1>1, <2>1, <3>1, QueuesBetween, BetweenCounts
  <2>4. PacketsQueued' /\ ResetIsLast'
    BY <1>3, <2>2 DEF Counted, PacketsQueued, ResetIsLast, RemoteQueued
  <2>5. Notified'
    BY <1>1, <1>2, <1>3, <2>2, <2>3 DEF Counted, Notified
  <2>. QED
    BY <2>4, <2>5 DEF Counted
<1>7. CASE TakeRemoteEvent
  <2>1. /\ rcur # rproc /\ rproc' = CIRCULAR_INCREMENT(rproc) /\ notify' = notify - 1
        /\ UNCHANGED <<rq, lproc>> /\ disp'.at = "remote" /\ disp'.slot = rproc
    BY <1>1, <1>7 DEF TakeRemoteEvent, local, TypesOf
  <2>2. /\ Cardinality(RemotelyQueued') = Cardinality(RemotelyQueued) - 1
        /\ RemotelyQueued' = RemotelyQueued \ {rproc}
        /\ LocallyQueued' = LocallyQueued
    <3>1. RemotelyQueued' = Between(CIRCULAR_INCREMENT(rproc), rcur) /\ LocallyQueued' = LocallyQueued
      BY <1>3, <2>1 DEF LocallyQueued, RemotelyQueued, Between, Queued, RemoteQueued
    <3>. QED
      BY <1>1, <2>1, <3>1, QueuesBetween, BetweenCounts
  <2>3. \A s \in Slots : RemoteQueued(s)' => RemoteQueued(s)
    BY <2>2 DEF RemotelyQueued
  <2>4. PacketsQueued' /\ ResetIsLast'
    BY <1>3, <2>1, <2>3 DEF Counted, PacketsQueued, ResetIsLast
  <2>5. Notified'
    BY <1>1, <1>2, <1>3, <2>1, <2>2 DEF Counted, Notified
  <2>. QED
    BY <2>4, <2>5 DEF Counted
<1>8. ~ServeResetRequest /\ ~dispatcherReset
  BY <1>1 DEF ServeResetRequest, dispatcherReset, JoinReader, Drain, Wake, TypesOf
<1>. QED
  BY <1>4, <1>5, <1>6, <1>7, <1>8 DEF eventSchedulerRun

\* Nothing is queued at first.
LEMMA NotifyInitially == Init => NotifyInv
<1>. SUFFICES ASSUME Init PROVE Counted
  BY DEF NotifyInv
<1>1. lcur = 0 /\ lproc = 0 /\ rcur = 0 /\ rproc = 0 /\ 0 \in Slots
  BY SlotNumbers DEF Init, Slots
<1>2. Cardinality(LocallyQueued) = 0 /\ Cardinality(RemotelyQueued) = 0
  BY <1>1, QueuesBetween, BetweenCounts
<1>3. Added = {} /\ Cardinality(Added) = 0
  <2>1. Added = {}
    BY DEF Init, Added
  <2>. QED
    BY <2>1, FS_EmptySet
<1>4. \A s \in Slots : ~RemoteQueued(s)
  BY <1>1, RingGrows DEF RemoteQueued, Distance, Slots
<1>. QED
  BY <1>2, <1>3, <1>4 DEF Init, Counted, PacketsQueued, ResetIsLast, Notified

\* Every step keeps the count.
LEMMA NotifyInductive == IInv /\ IInv' /\ OrderInv /\ NotifyInv /\ [Next]_vars => NotifyInv'
<1>. SUFFICES ASSUME IInv, IInv', OrderInv, NotifyInv, [Next]_vars, InOrder', NeverFull', ~disp'.resetXLink
              PROVE  Counted'
  BY DEF NotifyInv
<1>1. load' = load /\ ~disp.resetXLink
  BY DEF IInv, TypesOf, Next, ClientCall, ClientStep, eventReader, eventSchedulerRun, dispatcherReset,
         CheckReset, AddAfterReset, dispatcherAddEvent, AddEventFails, NotifyDispatcher,
         dispatcherWaitEventComplete, WaitEventFails, WaitAfterReset, Return,
         ReceiveResponse, ReceiveRequest, ReceiveResetRequest, ReadFails, AddRemoteEvent,
         NotifyRemoteEvent, TakeReadyEvent, TakeLocalEvent, TakeRemoteEvent, BlockEvent,
         SendRequest, SendMarked, ServeLocally, ServeRemoteRequest, ServeResponse, MarkServed,
         ServeResetRequest, JoinReader, Drain, Wake, NextEvent, PostSemaphore, vars, client
<1>2. InOrder /\ NeverFull
  BY <1>1 DEF InOrder, NeverFull, Callers
<1>3. Orderly /\ Counted
  BY <1>1, <1>2 DEF OrderInv, NotifyInv
<1>4. CASE UNCHANGED vars
  <2>1. UNCHANGED <<rq, rcur, rproc, lcur, lproc, notify, reader, load, Added, disp>>
    BY <1>4 DEF vars, local, remote, client, Added
  <2>. QED
    BY <1>3, <2>1, SameCounted
<1>. QED
  BY <1>1, <1>2, <1>3, <1>4, ThreadCounted, ReaderCounted, DispatcherCounted DEF Next

\* Until a reset, the notifications that stand, or are about to be made, are as many as the
\* events that are queued, on links whose rings are used in order and never full.
THEOREM NotificationsCountEvents == Spec => []NotifyInv
<1>1. Init => NotifyInv
  BY NotifyInitially
<1>2. IInv /\ IInv' /\ OrderInv /\ NotifyInv /\ [Next]_vars => NotifyInv'
  BY NotifyInductive
<1>3. Spec => []IInv
  BY DispatcherInvariant
<1>4. Spec => []OrderInv
  BY RingsInOrder
<1>. QED
  BY <1>1, <1>2, <1>3, <1>4, PTL DEF Spec

\* So eventSchedulerRun never uses a NULL that dispatcherGetNextEvent returns, on a link
\* whose rings are used in order and never full, and dispatcherResponseServe finds the one
\* request of every response.
THEOREM FindsEvents == Spec => [](InOrder /\ NeverFull => DispatcherFindsEvents)
<1>1. IInv /\ OrderInv /\ NotifyInv => (InOrder /\ NeverFull => NoNullEvent)
  <2>. SUFFICES ASSUME IInv, Orderly, disp.resetXLink \/ Counted,
                       AtNext, ~HasState("READY"), notify > 0
                PROVE  IF lcur # lproc THEN HasState("SERVED") ELSE rcur # rproc
    BY DEF OrderInv, NotifyInv, NoNullEvent
  <2>1. /\ TypesOf /\ lcur \in Slots /\ lproc \in Slots /\ rcur \in Slots /\ rproc \in Slots
        /\ notify \in Nat /\ ~disp.resetXLink
    BY DEF IInv, TypesOf, DispatcherAt, AtNext
  <2>2. CASE lcur # lproc
    <3>1. Queued(lproc)
      BY <2>1, <2>2, RingShrinks DEF Queued
    <3>. QED
      BY <2>1, <2>2, <3>1 DEF Orderly, SlotsInOrder, HasState
  <2>3. CASE lcur = lproc
    <3>1. Cardinality(LocallyQueued) = 0
      BY <2>1, <2>3, QueuesBetween, BetweenCounts
    <3>2. rcur = rproc => Cardinality(RemotelyQueued) = 0
      BY <2>1, QueuesBetween, BetweenCounts
    <3>3. Cardinality(Added) \in Nat
      BY DispatcherAssumption, CountOfPart DEF Added
    <3>. QED
      BY <2>1, <2>3, <3>1, <3>2, <3>3 DEF Counted, Notified
  <2>. QED
    BY <2>2, <2>3
<1>2. NoNullEvent /\ ResponseMatched => DispatcherFindsEvents
  BY DEF DispatcherFindsEvents
<1>3. Spec => []IInv
  BY DispatcherInvariant
<1>4. Spec => []OrderInv
  BY RingsInOrder
<1>5. Spec => []NotifyInv
  BY NotificationsCountEvents
<1>6. Spec => []ResponseMatched
  BY ResponsesAreMatched
<1>. QED
  BY <1>1, <1>2, <1>3, <1>4, <1>5, <1>6, PTL

-----------------------------------------------------------------------------
(* The rings as queues                                                      *)

\* The slot that lies i places after a, and what a ring holds from a up to b.
Ahead(a, i) == IF a + i < MaxEvents THEN a + i ELSE a + i - MaxEvents
From(f, a, b) == [i \in 1..Distance(a, b) |-> f[(a + i - 1) % MaxEvents]]

\* What MCXLinkDispatcher says that the rings stand for, once they are in order.
Contents == [s \in Slots |-> lq[s].packet]
Handled == IF AtNext \/ disp.resetXLink THEN None
           ELSE IF disp.at = "remote" THEN rq[disp.slot] ELSE Current
Parked == InState({"BLOCKED", "READY"})
Sent == InState({"PENDING"})

\* A thread is posted for an event, after a reset for one that was sent; and once a request
\* for a reset is taken the reader thread receives nothing more.
PostedHolds ==
    disp.at = "posted" => /\ lq[disp.slot].packet # None
                          /\ disp.resetXLink => lq[disp.slot].state = "PENDING"
ResetEnds ==
    disp.resetXLink \/ (disp.at = "remote" /\ rq[disp.slot] = ResetRequest) =>
        reader.at = "ended" \/ (reader.at = "notify" /\ reader.packet = ResetRequest)
EndInv == InOrder /\ NeverFull => PostedHolds /\ ResetEnds

\* Places count from a slot to the next one that steps over the end of the ring.
LEMMA AheadOf ==
    ASSUME NEW a \in Slots
    PROVE  /\ \A b \in Slots : /\ Distance(a, b) \in 0..(MaxEvents - 1)
                               /\ Ahead(a, Distance(a, b)) = b
           /\ \A i \in 0..(MaxEvents - 1) : /\ Ahead(a, i) \in Slots /\ Distance(a, Ahead(a, i)) = i
                                            /\ (a + (i + 1) - 1) % MaxEvents = Ahead(a, i)
           /\ \A i \in 1..(MaxEvents - 1) : Ahead(CIRCULAR_INCREMENT(a), i - 1) = Ahead(a, i)
<1>1. a \in Nat /\ a < MaxEvents /\ MaxEvents \in Nat /\ MaxEvents > 1 /\ Slots = 0..(MaxEvents - 1)
  BY SlotNumbers DEF Slots
<1>2. \A b \in Slots : /\ Distance(a, b) \in 0..(MaxEvents - 1)
                       /\ Ahead(a, Distance(a, b)) = b
  BY <1>1 DEF Distance, Ahead
<1>3. ASSUME NEW i \in 0..(MaxEvents - 1)
      PROVE  /\ Ahead(a, i) \in Slots /\ Distance(a, Ahead(a, i)) = i
             /\ (a + (i + 1) - 1) % MaxEvents = Ahead(a, i)
  <2>1. i \in Nat /\ i < MaxEvents
    BY <1>1
  <2>2. Ahead(a, i) \in Slots /\ Distance(a, Ahead(a, i)) = i
    BY <1>1, <2>1 DEF Distance, Ahead
  <2>3. (a + (i + 1) - 1) % MaxEvents = Ahead(a, i)
    BY <1>1, <2>1 DEF Ahead
  <2>. QED
    BY <2>2, <2>3
<1>4. ASSUME NEW i \in 1..(MaxEvents - 1)
      PROVE  Ahead(CIRCULAR_INCREMENT(a), i - 1) = Ahead(a, i)
  BY <1>1 DEF Ahead, CIRCULAR_INCREMENT
<1>. QED
  BY <1>2, <1>3, <1>4

\* It is a sequence of what is in the slots between them.
LEMMA FromElements ==
    ASSUME NEW f \in [Slots -> Packets], NEW a \in Slots, NEW b \in Slots
    PROVE  /\ From(f, a, b) \in Seq(Packets) /\ Len(From(f, a, b)) = Distance(a, b)
           /\ Distance(a, b) \in 0..(MaxEvents - 1)
           /\ \A i \in 1..Distance(a, b) : /\ Ahead(a, i - 1) \in Slots
                                           /\ Distance(a, Ahead(a, i - 1)) < Distance(a, b)
                                           /\ From(f, a, b)[i] = f[Ahead(a, i - 1)]
<1>1. Distance(a, b) \in 0..(MaxEvents - 1) /\ MaxEvents \in Nat
  BY AheadOf, SlotNumbers
<1>2. ASSUME NEW i \in 1..Distance(a, b)
      PROVE  /\ Ahead(a, i - 1) \in Slots
             /\ Distance(a, Ahead(a, i - 1)) < Distance(a, b)
             /\ (a + i - 1) % MaxEvents = Ahead(a, i - 1)
  <2>1. i - 1 \in 0..(MaxEvents - 1) /\ (i - 1) + 1 = i /\ i - 1 < Distance(a, b)
    BY <1>1
  <2>. QED
    BY <2>1, AheadOf
<1>3. \A i \in 1..Distance(a, b) : From(f, a, b)[i] = f[Ahead(a, i - 1)] /\ f[Ahead(a, i - 1)] \in Packets
  BY <1>2 DEF From
<1>4. From(f, a, b) \in [1..Distance(a, b) -> Packets]
  BY <1>3 DEF From
<1>5. From(f, a, b) \in Seq(Packets) /\ Len(From(f, a, b)) = Distance(a, b)
  BY <1>1, <1>4
<1>. QED
  BY <1>1, <1>2, <1>3, <1>5

\* It changes only with what is in these slots, ...
LEMMA FromSame ==
    ASSUME NEW f \in [Slots -> Packets], NEW g \in [Slots -> Packets], NEW a \in Slots, NEW b \in Slots,
           \A s \in Slots : Distance(a, s) < Distance(a, b) => g[s] = f[s]
    PROVE  From(g, a, b) = From(f, a, b)
<1>. DEFINE P == From(f, a, b)
            Q == From(g, a, b)
<1>1. P \in Seq(Packets) /\ Q \in Seq(Packets) /\ Len(P) = Len(Q)
  BY FromElements
<1>2. \A i \in 1..Len(P) : Q[i] = P[i]
  BY FromElements
<1>. HIDE DEF P, Q
<1>3. Q = P
  BY <1>1, <1>2, SeqEqual
<1>. QED
  BY <1>3 DEF P, Q

\* ... is empty where b is a, ...
LEMMA FromEmpty ==
    ASSUME NEW f \in [Slots -> Packets], NEW a \in Slots, NEW b \in Slots
    PROVE  From(f, a, b) = <<>> <=> a = b
<1>1. From(f, a, b) \in Seq(Packets) /\ Len(From(f, a, b)) = Distance(a, b)
  BY FromElements
<1>2. Distance(a, b) = 0 <=> a = b
  BY SlotNumbers DEF Distance
<1>. QED
  BY <1>1, <1>2, EmptySeq

\* ... grows at its end when b steps, ...
LEMMA FromGrows ==
    ASSUME NEW f \in [Slots -> Packets], NEW g \in [Slots -> Packets], NEW a \in Slots, NEW b \in Slots,
           CIRCULAR_INCREMENT(b) # a,
           \A s \in Slots \ {b} : g[s] = f[s]
    PROVE  From(g, a, CIRCULAR_INCREMENT(b)) = Append(From(f, a, b), g[b])
<1>. DEFINE n == CIRCULAR_INCREMENT(b)
            P == From(f, a, b)
            Q == From(g, a, n)
            R == Append(P, g[b])
<1>1. n \in Slots
  BY RingOrder
<1>2. Distance(a, n) = Distance(a, b) + 1 /\ Distance(a, b) \in Nat
  BY SlotNumbers DEF Distance, CIRCULAR_INCREMENT
<1>3. P \in Seq(Packets) /\ Q \in Seq(Packets) /\ Len(P) = Distance(a, b) /\ Len(Q) = Distance(a, b) + 1 /\ g[b] \in Packets
  BY <1>1, <1>2, FromElements
<1>4. /\ R \in Seq(Packets) /\ Len(R) = Len(P) + 1
      /\ \A i \in 1..Len(P) : R[i] = P[i]
      /\ R[Len(P) + 1] = g[b]
  BY <1>3, AppendProperties
<1>5. ASSUME NEW i \in 1..Len(Q) PROVE Q[i] = R[i]
  <2>1. Ahead(a, i - 1) \in Slots /\ Q[i] = g[Ahead(a, i - 1)]
    BY <1>1, <1>2, <1>3, FromElements
  <2>2. CASE i = Len(P) + 1
    <3>1. i - 1 = Distance(a, b)
      BY <1>2, <1>3, <2>2
    <3>2. Ahead(a, i - 1) = b
      BY <3>1, AheadOf
    <3>. QED
      BY <1>4, <2>1, <2>2, <3>2
  <2>3. CASE i # Len(P) + 1
    <3>1. i \in 1..Distance(a, b) /\ i \in 1..Len(P)
      BY <1>2, <1>3, <2>3
    <3>2. P[i] = f[Ahead(a, i - 1)] /\ Distance(a, Ahead(a, i - 1)) < Distance(a, b)
      BY <3>1, FromElements
    <3>3. Ahead(a, i - 1) # b
      BY <1>2, <3>2
    <3>. QED
      BY <1>4, <2>1, <3>1, <3>2, <3>3
  <2>. QED
    BY <2>2, <2>3
<1>. HIDE DEF P, Q, R, n
<1>6. Len(Q) = Len(R)
  BY <1>3, <1>4
<1>7. Q = R
  BY <1>3, <1>4, <1>5, <1>6, SeqEqual
<1>. QED
  BY <1>7 DEF P, Q, R, n

\* ... and loses its head when a does.
LEMMA FromShrinks ==
    ASSUME NEW f \in [Slots -> Packets], NEW a \in Slots, NEW b \in Slots, a # b
    PROVE  /\ From(f, a, b) # <<>> /\ Head(From(f, a, b)) = f[a]
           /\ From(f, CIRCULAR_INCREMENT(a), b) = Tail(From(f, a, b))
<1>. DEFINE n == CIRCULAR_INCREMENT(a)
            P == From(f, a, b)
            Q == From(f, n, b)
            R == Tail(P)
<1>1. n \in Slots
  BY RingOrder
<1>2. Distance(a, b) = Distance(n, b) + 1 /\ Distance(n, b) \in Nat /\ Distance(a, b) < MaxEvents
  BY SlotNumbers DEF Distance, CIRCULAR_INCREMENT
<1>3. P \in Seq(Packets) /\ Q \in Seq(Packets) /\ Len(P) = Distance(a, b) /\ Len(Q) = Distance(n, b)
  BY <1>1, FromElements
<1>4. P # <<>>
  BY FromEmpty
<1>5. Head(P) = f[a]
  <2>1. 1 \in 1..Distance(a, b) /\ 1 - 1 = 0 /\ Head(P) = P[1]
    BY <1>2, <1>3, <1>4
  <2>2. P[1] = f[Ahead(a, 0)]
    BY <2>1, FromElements
  <2>3. Ahead(a, 0) = a
    BY SlotNumbers DEF Ahead
  <2>. QED
    BY <2>1, <2>2, <2>3
<1>6. R \in Seq(Packets) /\ Len(R) = Len(P) - 1 /\ \A i \in 1..Len(R) : R[i] = P[i + 1]
  BY <1>3, <1>4, HeadTailProperties
<1>7. ASSUME NEW i \in 1..Len(Q) PROVE Q[i] = R[i]
  <2>1. i \in 1..Distance(n, b) /\ i + 1 \in 1..Distance(a, b) /\ i \in 1..(MaxEvents - 1) /\ i \in 1..Len(R)
        /\ (i + 1) - 1 = i
    BY <1>2, <1>3, <1>6, SlotNumbers
  <2>2. Q[i] = f[Ahead(n, i - 1)]
    BY <1>1, <2>1, FromElements
  <2>3. P[i + 1] = f[Ahead(a, i)]
    BY <2>1, FromElements
  <2>4. Ahead(n, i - 1) = Ahead(a, i)
    BY <2>1, AheadOf
  <2>. QED
    BY <1>6, <2>1, <2>2, <2>3, <2>4
<1>. HIDE DEF P, Q, R, n
<1>8. Len(Q) = Len(R)
  BY <1>2, <1>3, <1>6
<1>9. Q = R
  BY <1>3, <1>6, <1>7, <1>8, SeqEqual
<1>. QED
  BY <1>4, <1>5, <1>9 DEF P, Q, R, n

\* The event that dispatcherAddEvent replaces is not one whose thread is being posted.
LEMMA AddsBehindPosted ==
    ASSUME IInv, InOrder, Orderly, PostedHolds, NEW c \in Clients, NEW type \in Types,
           dispatcherAddEvent(c, type)
    PROVE  ~Posted(lcur)
<1>1. /\ pc[c] = "checked" /\ lcur \in Slots /\ TypesOf /\ SlotsHoldCalls /\ Rounds /\ c \in Callers
  <2>1. pc[c] = "checked" /\ TypesOf /\ SlotsHoldCalls /\ Rounds
    BY DEF IInv, dispatcherAddEvent
  <2>2. call[c] \in Nat /\ load[c] \in Nat /\ call[c] < load[c]
    BY <2>1, LoadBounds DEF TypesOf, SlotsHoldCalls
  <2>. QED
    BY <2>1, <2>2 DEF TypesOf, Callers
<1>2. CASE FirstRound
  <2>1. lq[lcur].packet = None
    BY <1>1, <1>2, SlotNumbers DEF FirstRound, TypesOf
  <2>. QED
    BY <2>1 DEF PostedHolds, Posted
<1>3. CASE ~FirstRound
  <2>1. \A d \in Callers : d = c
    BY <1>1, <1>3, OneOrFew, FewStayFirst
  <2>2. \A d \in Clients \ {c} : load[d] = 0 /\ call[d] = 0
    <3>1. \A d \in Clients : call[d] \in Nat /\ load[d] \in Nat /\ call[d] <= load[d]
      BY <1>1, LoadBounds DEF TypesOf, SlotsHoldCalls
    <3>. QED
      BY <2>1, <3>1 DEF Callers
  <2>3. call[c] > 0
    <3>1. lq[lcur].packet # None
      BY <1>1, <1>3 DEF Rounds
    <3>2. /\ lq[lcur].packet.client \in Clients /\ lq[lcur].packet.call \in Nat \ {0}
          /\ lq[lcur].packet.call <= call[lq[lcur].packet.client]
      BY <1>1, <3>1 DEF TypesOf, SlotRecords, Events, SlotsHoldCalls
    <3>3. lq[lcur].packet.client = c
      BY <2>2, <3>2
    <3>. QED
      BY <1>1, <3>2, <3>3 DEF TypesOf
  <2>4. lcur = CIRCULAR_INCREMENT(slot[c]) /\ (disp.at = "posted" => disp.slot = slot[c])
    BY <1>1, <2>2, <2>3 DEF Orderly, AloneInOrder, Asleep, Under
  <2>5. slot[c] # lcur
    BY <1>1, <2>4, RingGrows DEF TypesOf
  <2>. QED
    BY <2>4, <2>5 DEF Posted
<1>. QED
  BY <1>2, <1>3

\* What the mapping makes of a state.
LEMMA ContentsOf ==
    ASSUME NEW l \in [Slots -> SlotRecords], NEW a \in Slots, NEW b \in Slots
    PROVE  /\ [s \in Slots |-> l[s].packet] \in [Slots -> Packets]
           /\ [i \in 1..Distance(a, b) |-> l[(a + i - 1) % MaxEvents].packet]
                = From([s \in Slots |-> l[s].packet], a, b)
<1>1. [s \in Slots |-> l[s].packet] \in [Slots -> Packets]
  BY PacketKinds DEF SlotRecords
<1>2. ASSUME NEW i \in 1..Distance(a, b) PROVE (a + i - 1) % MaxEvents \in Slots
  <2>1. Distance(a, b) \in 0..(MaxEvents - 1) /\ MaxEvents \in Nat
    BY AheadOf, SlotNumbers
  <2>2. i - 1 \in 0..(MaxEvents - 1) /\ (i - 1) + 1 = i
    BY <2>1
  <2>. QED
    BY <2>2, AheadOf
<1>. QED
  BY <1>1, <1>2 DEF From

\* The queues are what the rings hold, before a step and after it.
LEMMA QueuesAre ==
    /\ TypesOf => /\ Contents \in [Slots -> Packets] /\ LocalQueue = From(Contents, lproc, lcur)
                  /\ rq \in [Slots -> Packets] /\ RemoteQueue = From(rq, rproc, rcur)
                  /\ lproc \in Slots /\ lcur \in Slots /\ rproc \in Slots /\ rcur \in Slots
    /\ TypesOf' => /\ Contents' \in [Slots -> Packets] /\ LocalQueue' = From(Contents', lproc', lcur')
                   /\ rq' \in [Slots -> Packets] /\ RemoteQueue' = From(rq', rproc', rcur')
                   /\ lproc' \in Slots /\ lcur' \in Slots /\ rproc' \in Slots /\ rcur' \in Slots
<1>1. ASSUME TypesOf
      PROVE  /\ Contents \in [Slots -> Packets] /\ LocalQueue = From(Contents, lproc, lcur)
             /\ rq \in [Slots -> Packets] /\ RemoteQueue = From(rq, rproc, rcur)
             /\ lproc \in Slots /\ lcur \in Slots /\ rproc \in Slots /\ rcur \in Slots
  <2>1. /\ lq \in [Slots -> SlotRecords] /\ rq \in [Slots -> Packets]
        /\ lproc \in Slots /\ lcur \in Slots /\ rproc \in Slots /\ rcur \in Slots
    BY <1>1 DEF TypesOf
  <2>2. RemoteQueue = From(rq, rproc, rcur)
    BY DEF RemoteQueue, From
  <2>. QED
    BY <2>1, <2>2, ContentsOf DEF Contents, LocalQueue
<1>2. ASSUME TypesOf'
      PROVE  /\ Contents' \in [Slots -> Packets] /\ LocalQueue' = From(Contents', lproc', lcur')
             /\ rq' \in [Slots -> Packets] /\ RemoteQueue' = From(rq', rproc', rcur')
             /\ lproc' \in Slots /\ lcur' \in Slots /\ rproc' \in Slots /\ rcur' \in Slots
  <2>1. /\ lq' \in [Slots -> SlotRecords] /\ rq' \in [Slots -> Packets]
        /\ lproc' \in Slots /\ lcur' \in Slots /\ rproc' \in Slots /\ rcur' \in Slots
    BY <1>2 DEF TypesOf
  <2>2. RemoteQueue' = From(rq', rproc', rcur')
    BY DEF RemoteQueue, From
  <2>. QED
    BY <2>1, <2>2, ContentsOf DEF Contents, LocalQueue
<1>. QED
  BY <1>1, <1>2

\* What is queued locally, or remotely, does not change.
LEMMA LocalStays ==
    ASSUME TypesOf, TypesOf', UNCHANGED <<lproc, lcur>>, \A t \in Slots : lq'[t].packet = lq[t].packet
    PROVE  LocalQueue' = LocalQueue
<1>1. Contents' = Contents
  BY DEF Contents
<1>. QED
  BY <1>1, QueuesAre

\* The remote queue is what its slots hold.
LEMMA RemoteStays ==
    ASSUME TypesOf, TypesOf', UNCHANGED <<rproc, rcur>>,
           \A s \in Slots : RemoteQueued(s) => rq'[s] = rq[s]
    PROVE  RemoteQueue' = RemoteQueue
<1>1. From(rq', rproc, rcur) = From(rq, rproc, rcur)
  BY QueuesAre, FromSame DEF RemoteQueued
<1>. QED
  BY <1>1, QueuesAre

\* The events whose slots are in some states change with the slot that is marked: no other
\* slot holds the event of this one.
LEMMA StatesMarked ==
    ASSUME TypesOf, SlotsHoldCalls, NEW s \in Slots, lq[s].packet # None, NEW state,
           \A t \in Slots : /\ lq'[t].packet = lq[t].packet
                            /\ lq'[t].state = IF t = s THEN state ELSE lq[t].state
    PROVE  /\ Parked' = IF state \in {"BLOCKED", "READY"} THEN Parked \cup {lq[s].packet}
                         ELSE Parked \ {lq[s].packet}
           /\ Sent' = IF state = "PENDING" THEN Sent \cup {lq[s].packet} ELSE Sent \ {lq[s].packet}
<1>1. \A t \in Slots : lq[t].packet = lq[s].packet => t = s
  BY DEF SlotsHoldCalls
<1>2. Parked' = IF state \in {"BLOCKED", "READY"} THEN Parked \cup {lq[s].packet}
                ELSE Parked \ {lq[s].packet}
  BY <1>1 DEF Parked, InState
<1>3. Sent' = IF state = "PENDING" THEN Sent \cup {lq[s].packet} ELSE Sent \ {lq[s].packet}
  BY <1>1 DEF Sent, InState
<1>. QED
  BY <1>2, <1>3

\* They stay where no slot leaves these states or gets into them.
LEMMA StatesSame ==
    ASSUME NEW states,
           \A t \in Slots : /\ lq'[t].packet = lq[t].packet
                            /\ lq'[t].state \in states <=> lq[t].state \in states
    PROVE  InState(states)' = InState(states)
  BY DEF InState

\* A step that the queues do not see.
LEMMA QueuesStutter ==
    ASSUME InOrder, InOrder', LocalQueue' = LocalQueue, RemoteQueue' = RemoteQueue, Handled' = Handled,
           Parked' = Parked, Sent' = Sent, disp'.resetXLink = disp.resetXLink
    PROVE  UNCHANGED Queues!vars
  BY DEF Queues!vars, Handled, Parked, Sent

\* What the step of a queue needs: links in order and never full, in states of the rings.
Steady == IInv /\ OrderInv /\ NotifyInv /\ EndInv /\ InOrder /\ NeverFull

\* The parts of these invariants.
LEMMA SteadyParts ==
    ASSUME Steady
    PROVE  /\ IInv /\ TypesOf /\ SlotsHoldCalls /\ DispatcherAt /\ ResponsesOnce
           /\ InOrder /\ NeverFull /\ Orderly /\ SlotsInOrder /\ PostedHolds /\ ResetEnds
           /\ ~disp.resetXLink => Counted
           /\ disp.slot \in Slots
  BY DEF Steady, IInv, OrderInv, NotifyInv, EndInv, Orderly, TypesOf

\* The rings and the dispatcher thread stay as they are.
LEMMA OthersStutter ==
    ASSUME Steady, Steady', UNCHANGED <<lq, lcur, lproc, rq, rcur, rproc, disp>>
    PROVE  UNCHANGED Queues!vars
<1>1. LocalQueue' = LocalQueue /\ RemoteQueue' = RemoteQueue
  BY DEF LocalQueue, RemoteQueue
<1>2. Parked' = Parked /\ Sent' = Sent
  BY DEF Parked, Sent, InState
<1>3. Handled' = Handled /\ disp'.resetXLink = disp.resetXLink
  BY DEF Handled, AtNext, Current
<1>. QED
  BY <1>1, <1>2, <1>3, QueuesStutter DEF Steady

\* A thread adds an event at the end of the local queue.
LEMMA AddsLocal ==
    ASSUME Steady, Steady', NEW c \in Clients, NEW type \in Types, dispatcherAddEvent(c, type)
    PROVE  Queues!Next
<1>. DEFINE event == [client |-> c, call |-> call[c] + 1, type |-> type]
<1>1. /\ IInv /\ TypesOf /\ TypesOf' /\ SlotsHoldCalls /\ InOrder /\ InOrder' /\ NeverFull /\ Orderly
      /\ PostedHolds /\ disp.slot \in Slots /\ DispatcherAt
  BY SteadyParts DEF Steady, IInv
<1>2. /\ getNextElementWithState(lcur, "SERVED") = lcur /\ lq[lcur].state = "SERVED" /\ ~Undone(lcur)
      /\ ~Posted(lcur)
  BY <1>1, AddsAtCur, AddsBehindPosted
<1>3. /\ pc[c] = "checked" /\ lcur' = CIRCULAR_INCREMENT(lcur) /\ Fill(lcur, event, c)
      /\ UNCHANGED <<lproc, rq, rcur, rproc, disp>> /\ lcur \in Slots
  BY <1>1, <1>2 DEF dispatcherAddEvent, Fill, remote, TypesOf
<1>4. event \in Events
  <2>1. call[c] + 1 \in 1..MaxCalls
    BY <1>1, <1>3, LoadBounds DEF TypesOf, SlotsHoldCalls
  <2>. QED
    BY <2>1 DEF Events
<1>. HIDE DEF event
<1>5. /\ lq'[lcur].packet = event
      /\ \A t \in Slots : lq'[t].state = lq[t].state /\ (t # lcur => lq'[t] = lq[t])
  BY <1>1, <1>3, <1>4, Filled
<1>6. LocalQueue' = Append(LocalQueue, event)
  <2>1. CIRCULAR_INCREMENT(lcur) # lproc
    BY <1>1, <1>3, LocalRingHasRoom
  <2>2. Contents'[lcur] = event /\ \A t \in Slots \ {lcur} : Contents'[t] = Contents[t]
    BY <1>3, <1>5 DEF Contents
  <2>3. From(Contents', lproc, CIRCULAR_INCREMENT(lcur)) = Append(From(Contents, lproc, lcur), Contents'[lcur])
    BY <1>1, <2>1, <2>2, QueuesAre, FromGrows
  <2>. QED
    BY <1>1, <1>3, <2>2, <2>3, QueuesAre
<1>7. RemoteQueue' = RemoteQueue
  BY <1>3 DEF RemoteQueue
<1>8. Parked' = Parked /\ Sent' = Sent
  <2>1. \A t \in Slots : lq[t].state # "SERVED" => lq'[t] = lq[t]
    BY <1>2, <1>5
  <2>2. \A t \in Slots : lq'[t].state = lq[t].state
    BY <1>5
  <2>. QED
    BY <2>1, <2>2 DEF Parked, Sent, InState
<1>9. Handled' = Handled
  <2>1. CASE disp.at \in {"local", "posted"}
    <3>1. disp.slot # lcur
      BY <1>2, <2>1 DEF Undone, InHand, Posted
    <3>. QED
      BY <1>1, <1>3, <1>5, <3>1 DEF Handled, AtNext, Current
  <2>2. CASE disp.at \notin {"local", "posted"}
    BY <1>1, <1>3, <2>2 DEF Handled, AtNext, DispatcherAt, TypesOf
  <2>. QED
    BY <2>1, <2>2
<1>10. Queues!AddLocal
  BY <1>1, <1>3, <1>4, <1>6, <1>7, <1>8, <1>9 DEF Queues!AddLocal, Handled, Parked, Sent
<1>. QED
  BY <1>10 DEF Queues!Next

\* The reader thread adds a packet at the end of the remote queue.
LEMMA AddsRemote ==
    ASSUME Steady, Steady', AddRemoteEvent
    PROVE  Queues!Next
<1>1. /\ IInv /\ TypesOf /\ TypesOf' /\ InOrder /\ InOrder' /\ NeverFull /\ Orderly
      /\ disp.slot \in Slots /\ ResponsesOnce /\ ResetEnds
  BY SteadyParts DEF Steady, IInv
<1>2. /\ reader.at = "add" /\ rcur \in Slots /\ rproc \in Slots /\ rq \in [Slots -> Packets]
      /\ rcur' = CIRCULAR_INCREMENT(rcur) /\ rq' = [rq EXCEPT ![rcur] = reader.packet]
      /\ UNCHANGED <<lq, lproc, lcur, rproc, disp>> /\ reader.packet \in Packets
  BY <1>1 DEF AddRemoteEvent, local, TypesOf
<1>3. ~disp.resetXLink
  BY <1>1, <1>2 DEF ResetEnds
<1>4. Counted
  BY <1>3, SteadyParts
<1>5. CIRCULAR_INCREMENT(rcur) # rproc
  BY <1>1, <1>2, <1>3, <1>4, RemoteRingHasRoom DEF Counted
<1>6. RemoteQueue' = Append(RemoteQueue, reader.packet)
  <2>1. rq'[rcur] = reader.packet /\ \A t \in Slots \ {rcur} : rq'[t] = rq[t]
    BY <1>2
  <2>2. From(rq', rproc, CIRCULAR_INCREMENT(rcur)) = Append(From(rq, rproc, rcur), rq'[rcur])
    <3>1. rq' \in [Slots -> Packets]
      BY <1>1, QueuesAre
    <3>. QED
      BY <1>2, <1>5, <2>1, <3>1, FromGrows
  <2>. QED
    BY <1>1, <1>2, <2>1, <2>2, QueuesAre
<1>7. LocalQueue' = LocalQueue /\ Parked' = Parked /\ Sent' = Sent
  BY <1>2 DEF LocalQueue, Parked, Sent, InState
<1>8. Handled' = Handled
  <2>1. disp.at = "remote" => disp.slot # rcur
    BY <1>4, <1>5 DEF Counted, PacketsQueued
  <2>. QED
    BY <1>1, <1>2, <2>1 DEF Handled, AtNext, Current
<1>9. reader.packet \in RemoteRequests \cup {ResetRequest} \cup Sent
  <2>1. reader.packet # None
    BY <1>2, <1>4 DEF Counted, PacketsQueued
  <2>2. ASSUME reader.packet \in Events PROVE reader.packet \in Sent
    <3>1. Waits(reader.packet)
      BY <1>1, <1>2, <1>3, <2>2 DEF ResponsesOnce
    <3>. QED
      BY <3>1 DEF Waits, Sent, InState
  <2>. QED
    BY <1>2, <2>1, <2>2 DEF Packets
<1>10. Queues!AddRemote
  BY <1>1, <1>2, <1>6, <1>7, <1>8, <1>9 DEF Queues!AddRemote, Handled, Parked, Sent
<1>. QED
  BY <1>10 DEF Queues!Next

\* The dispatcher thread takes a READY event, or the first of a queue.
LEMMA TakesEvent ==
    ASSUME Steady, Steady', TakeReadyEvent \/ TakeLocalEvent \/ TakeRemoteEvent
    PROVE  Queues!Next
<1>1. /\ TypesOf /\ TypesOf' /\ InOrder /\ InOrder' /\ SlotsInOrder /\ ~disp.resetXLink /\ disp.at = "next"
      /\ disp.slot \in Slots
  BY SteadyParts DEF Steady, IInv, DispatcherAt, TakeReadyEvent, TakeLocalEvent, TakeRemoteEvent, AtNext
<1>2. /\ UNCHANGED <<lq, lcur, rq, rcur>> /\ disp'.resetXLink = FALSE
      /\ Handled = None /\ Parked' = Parked /\ Sent' = Sent
  <2>1. UNCHANGED <<lq, lcur, rq, rcur>>
    BY DEF TakeReadyEvent, TakeLocalEvent, TakeRemoteEvent, local, remote
  <2>2. disp'.resetXLink = disp.resetXLink
    BY <1>1 DEF TakeReadyEvent, TakeLocalEvent, TakeRemoteEvent, TypesOf
  <2>3. disp.resetXLink \in BOOLEAN /\ Handled = None
    BY <1>1 DEF Handled, AtNext, TypesOf
  <2>4. Parked' = Parked /\ Sent' = Sent
    BY <2>1 DEF Parked, Sent, InState
  <2>. QED
    BY <1>1, <2>1, <2>2, <2>3, <2>4
<1>3. CASE TakeReadyEvent
  <2>. DEFINE s == getNextElementWithState(0, "READY")
  <2>1. s \in Slots /\ lq[s].state = "READY"
    <3>1. 0 \in Slots /\ HasState("READY")
      BY <1>3, SlotNumbers DEF TakeReadyEvent, Slots
    <3>. QED
      BY <3>1, NextElement
  <2>2. disp'.at = "local" /\ disp'.slot = s /\ UNCHANGED <<lproc, rproc>>
    BY <1>1, <1>3 DEF TakeReadyEvent, TypesOf, local, remote
  <2>. HIDE DEF s
  <2>3. Handled' = lq[s].packet /\ lq[s].packet \in Parked
    BY <1>2, <2>1, <2>2 DEF Handled, AtNext, Current, Parked, InState
  <2>4. LocalQueue' = LocalQueue /\ RemoteQueue' = RemoteQueue
    BY <1>2, <2>2 DEF LocalQueue, RemoteQueue
  <2>5. Queues!Resume
    BY <1>1, <1>2, <2>3, <2>4 DEF Queues!Resume, Handled, Parked, Sent
  <2>. QED
    BY <2>5 DEF Queues!Next
<1>4. CASE TakeLocalEvent
  <2>1. getNextElementWithState(lproc, "SERVED") = lproc /\ lcur # lproc
    BY <1>1, <1>4, TakesAtCurProc DEF TakeLocalEvent
  <2>2. /\ disp'.at = "local" /\ disp'.slot = lproc /\ lproc' = CIRCULAR_INCREMENT(lproc)
        /\ UNCHANGED rproc /\ lproc \in Slots
    BY <1>1, <1>4, <2>1 DEF TakeLocalEvent, TypesOf, remote
  <2>3. Handled' = lq[lproc].packet /\ RemoteQueue' = RemoteQueue /\ Contents' = Contents
        /\ Contents[lproc] = lq[lproc].packet
    BY <1>2, <2>2 DEF Handled, AtNext, Current, RemoteQueue, Contents
  <2>4. /\ LocalQueue # <<>> /\ Head(LocalQueue) = lq[lproc].packet
        /\ LocalQueue' = Tail(LocalQueue)
    BY <1>1, <1>2, <2>1, <2>2, <2>3, QueuesAre, FromShrinks
  <2>5. Queues!TakeLocal
    BY <1>1, <1>2, <2>3, <2>4 DEF Queues!TakeLocal, Handled, Parked, Sent
  <2>. QED
    BY <2>5 DEF Queues!Next
<1>5. CASE TakeRemoteEvent
  <2>1. /\ lcur = lproc /\ rcur # rproc /\ disp'.at = "remote" /\ disp'.slot = rproc
        /\ rproc' = CIRCULAR_INCREMENT(rproc) /\ UNCHANGED lproc /\ rproc \in Slots
    BY <1>1, <1>5 DEF TakeRemoteEvent, TypesOf, local
  <2>2. Handled' = rq[rproc] /\ LocalQueue' = LocalQueue
    BY <1>2, <2>1 DEF Handled, AtNext, LocalQueue
  <2>3. LocalQueue = <<>>
    BY <1>1, <2>1, QueuesAre, FromEmpty
  <2>4. /\ RemoteQueue # <<>> /\ Head(RemoteQueue) = rq[rproc]
        /\ RemoteQueue' = Tail(RemoteQueue)
    BY <1>1, <1>2, <2>1, QueuesAre, FromShrinks
  <2>5. Queues!TakeRemote
    BY <1>1, <1>2, <2>2, <2>3, <2>4 DEF Queues!TakeRemote, Handled, Parked, Sent
  <2>. QED
    BY <2>5 DEF Queues!Next
<1>. QED
  BY <1>3, <1>4, <1>5

\* The event in hand, before and after it is blocked, sent or served.
LEMMA InHandIsHandled ==
    ASSUME Steady, disp.at \in {"local", "posted"}, ~disp.resetXLink
    PROVE  /\ Handled = lq[disp.slot].packet /\ Handled \in Events
           /\ Handled \notin {ResetRequest, None} /\ Handled \notin RemoteRequests
<1>1. Handled = lq[disp.slot].packet /\ lq[disp.slot].packet \in Events \cup {None}
  BY SteadyParts DEF Handled, AtNext, Current, TypesOf, SlotRecords
<1>2. lq[disp.slot].packet # None
  <2>1. CASE disp.at = "posted"
    BY <2>1, SteadyParts DEF PostedHolds
  <2>2. CASE disp.at = "local"
    <3>1. Current \in Events
      BY <2>2, SteadyParts, CurrentIsEvent DEF AtLocal
    <3>. QED
      BY <3>1, PacketKinds DEF Current
  <2>. QED
    BY <2>1, <2>2
<1>. QED
  BY <1>1, <1>2, PacketKinds

\* The event in hand is parked, sent or done with.
LEMMA FinishesLocal ==
    ASSUME Steady, Steady', BlockEvent \/ SendRequest \/ (MarkServed /\ ~disp.resetXLink)
    PROVE  Queues!Next
<1>1. /\ TypesOf /\ TypesOf' /\ SlotsHoldCalls /\ InOrder /\ InOrder' /\ disp.slot \in Slots
      /\ disp.at \in {"local", "posted"} /\ ~disp.resetXLink
  BY SteadyParts DEF Steady, IInv, DispatcherAt, BlockEvent, SendRequest, SendMarked, MarkServed, AtLocal
<1>2. PICK state \in {"BLOCKED", "PENDING", "SERVED"} : Mark(disp.slot, state)
  BY DEF BlockEvent, SendRequest, SendMarked, MarkServed
<1>3. NextEvent /\ UNCHANGED <<lproc, lcur, rq, rcur, rproc>>
  BY DEF BlockEvent, SendRequest, SendMarked, MarkServed, remote
<1>4. /\ Handled = lq[disp.slot].packet /\ Handled \in Events
      /\ Handled \notin {ResetRequest, None} /\ Handled \notin RemoteRequests
  BY <1>1, InHandIsHandled
<1>5. \A t \in Slots : /\ lq'[t].packet = lq[t].packet
                       /\ lq'[t].state = IF t = disp.slot THEN state ELSE lq[t].state
  BY <1>1, <1>2, Marked
<1>6. LocalQueue' = LocalQueue /\ RemoteQueue' = RemoteQueue
  BY <1>1, <1>3, <1>5, LocalStays DEF RemoteQueue
<1>7. /\ Parked' = IF state = "BLOCKED" THEN Parked \cup {Handled} ELSE Parked \ {Handled}
      /\ Sent' = IF state = "PENDING" THEN Sent \cup {Handled} ELSE Sent \ {Handled}
  <2>1. lq[disp.slot].packet # None
    BY <1>4
  <2>2. /\ Parked' = IF state \in {"BLOCKED", "READY"} THEN Parked \cup {lq[disp.slot].packet}
                      ELSE Parked \ {lq[disp.slot].packet}
        /\ Sent' = IF state = "PENDING" THEN Sent \cup {lq[disp.slot].packet} ELSE Sent \ {lq[disp.slot].packet}
    BY <1>1, <1>5, <2>1, StatesMarked
  <2>. QED
    BY <1>2, <1>4, <2>2
<1>8. state = "BLOCKED" => Sent' = Sent
  <2>1. ASSUME state = "BLOCKED" PROVE lq[disp.slot].state # "PENDING"
    <3>1. BlockEvent
      BY <1>1, <1>2, <1>5, <2>1, Marked DEF SendRequest, SendMarked, MarkServed
    <3>. QED
      BY <3>1, SteadyParts DEF BlockEvent, AtLocal, DispatcherAt
  <2>2. ASSUME state = "BLOCKED"
        PROVE  \A t \in Slots : /\ lq'[t].packet = lq[t].packet
                                /\ lq'[t].state \in {"PENDING"} <=> lq[t].state \in {"PENDING"}
    BY <1>5, <2>1, <2>2
  <2>. QED
    BY <2>2, StatesSame DEF Sent
<1>9. disp'.resetXLink = FALSE /\ Handled' = None
  <2>1. disp'.at = "next" /\ disp'.resetXLink = disp.resetXLink
    BY <1>1, <1>3, NextEventMoves
  <2>. QED
    BY <1>1, <2>1 DEF Handled, AtNext, TypesOf
<1>10. \/ Parked' = Parked \ {Handled} /\ Sent' = Sent \ {Handled}
       \/ Parked' = Parked \cup {Handled} /\ Sent' = Sent
       \/ Parked' = Parked \ {Handled} /\ Sent' = Sent \cup {Handled}
  BY <1>7, <1>8
<1>11. Queues!Finish
  BY <1>1, <1>4, <1>6, <1>9, <1>10 DEF Queues!Finish, Handled, Parked, Sent
<1>. QED
  BY <1>11 DEF Queues!Next

\* A request of the peer is done with; it makes a blocked event READY, which stays parked.
LEMMA FinishesRemote ==
    ASSUME Steady, Steady', ServeRemoteRequest
    PROVE  Queues!Next
<1>1. /\ TypesOf /\ TypesOf' /\ InOrder /\ InOrder' /\ disp.slot \in Slots
      /\ disp.at = "remote" /\ ~disp.resetXLink /\ Counted
  BY SteadyParts DEF Steady, IInv, DispatcherAt, ServeRemoteRequest
<1>2. /\ NextEvent /\ UNCHANGED <<lproc, lcur, rcur, rproc>> /\ rq' = [rq EXCEPT ![disp.slot] = None]
      /\ rq[disp.slot] \in RemoteRequests
  BY DEF ServeRemoteRequest, ClearRemote
<1>3. Handled = rq[disp.slot] /\ Handled \in RemoteRequests /\ Handled \notin {ResetRequest, None}
      /\ Handled \notin Events
  BY <1>1, <1>2, PacketKinds DEF Handled, AtNext
<1>4. \A t \in Slots : /\ lq'[t].packet = lq[t].packet
                       /\ \/ lq'[t].state = lq[t].state
                          \/ lq[t].state = "BLOCKED" /\ lq'[t].state = "READY"
  <2>1. CASE lq' = lq
    BY <2>1
  <2>2. CASE lq' # lq
    <3>1. PICK type : Blocked(type) # {} /\ Mark(FirstBlocked(type), "READY")
      BY <2>2 DEF ServeRemoteRequest
    <3>. DEFINE s == FirstBlocked(type)
    <3>2. s \in Slots /\ lq[s].state = "BLOCKED"
      BY <3>1, FirstBlockedElement DEF Blocked
    <3>3. Mark(s, "READY")
      BY <3>1
    <3>. HIDE DEF s
    <3>. QED
      BY <1>1, <3>2, <3>3, Marked
  <2>. QED
    BY <2>1, <2>2
<1>5. Parked' = Parked /\ Sent' = Sent
  <2>1. \A t \in Slots : /\ lq'[t].packet = lq[t].packet
                         /\ lq'[t].state \in {"BLOCKED", "READY"} <=> lq[t].state \in {"BLOCKED", "READY"}
                         /\ lq'[t].state \in {"PENDING"} <=> lq[t].state \in {"PENDING"}
    BY <1>4
  <2>. QED
    BY <2>1, StatesSame DEF Parked, Sent
<1>6. Parked \ {Handled} = Parked /\ Sent \ {Handled} = Sent
  <2>1. \A t \in Slots : lq[t].packet # Handled
    BY <1>1, <1>3 DEF TypesOf, SlotRecords
  <2>. QED
    BY <2>1 DEF Parked, Sent, InState
<1>7. LocalQueue' = LocalQueue
  BY <1>1, <1>2, <1>4, LocalStays
<1>8. RemoteQueue' = RemoteQueue
  <2>1. ~RemoteQueued(disp.slot)
    BY <1>1, BehindCurProc DEF Counted, PacketsQueued, RemoteQueued, TypesOf
  <2>2. \A s \in Slots : RemoteQueued(s) => rq'[s] = rq[s]
    BY <1>1, <1>2, <2>1 DEF TypesOf
  <2>. QED
    BY <1>1, <1>2, <2>2, RemoteStays
<1>9. disp'.resetXLink = FALSE /\ Handled' = None
  <2>1. disp'.at = "next" /\ disp'.resetXLink = disp.resetXLink
    BY <1>1, <1>2, NextEventMoves
  <2>. QED
    BY <1>1, <2>1 DEF Handled, AtNext, TypesOf
<1>10. Queues!Finish
  BY <1>1, <1>3, <1>5, <1>6, <1>7, <1>8, <1>9 DEF Queues!Finish, Handled, Parked, Sent
<1>. QED
  BY <1>10 DEF Queues!Next

\* Posting a thread is not seen; nor is the response, once its request is found.
LEMMA ServesUnseen ==
    ASSUME Steady, Steady', ServeLocally \/ ServeResponse \/ (Wake /\ HasState("PENDING"))
    PROVE  UNCHANGED Queues!vars
<1>1. /\ TypesOf /\ TypesOf' /\ InOrder /\ InOrder' /\ disp.slot \in Slots
  BY SteadyParts DEF Steady, IInv
<1>2. UNCHANGED <<lq, lproc, lcur, rcur, rproc>>
  BY DEF ServeLocally, ServeResponse, Wake, local, remote
<1>3. LocalQueue' = LocalQueue /\ Parked' = Parked /\ Sent' = Sent
  BY <1>2 DEF LocalQueue, Parked, Sent, InState
<1>4. ASSUME NEW s \in Slots, PostSemaphore(s)
      PROVE  /\ disp'.at = "posted" /\ disp'.slot = s /\ disp'.resetXLink = disp.resetXLink
             /\ disp.resetXLink => Handled' = Handled
             /\ ~disp.resetXLink => Handled' = lq[s].packet
  BY <1>1, <1>2, <1>4, PostMoves DEF Handled, AtNext, Current
<1>5. CASE ServeLocally
  <2>1. PostSemaphore(disp.slot) /\ disp.at = "local" /\ ~disp.resetXLink /\ UNCHANGED rq
    BY <1>5, SteadyParts DEF ServeLocally, AtLocal, remote, DispatcherAt
  <2>2. Handled = lq[disp.slot].packet
    BY <2>1, InHandIsHandled
  <2>3. Handled' = Handled /\ disp'.resetXLink = disp.resetXLink
    BY <1>1, <1>4, <2>1, <2>2
  <2>. QED
    BY <1>1, <1>2, <1>3, <2>1, <2>3, QueuesStutter DEF RemoteQueue
<1>6. CASE ServeResponse
  <2>1. PICK s \in Slots : lq[s].packet = rq[disp.slot] /\ PostSemaphore(s)
    BY <1>6 DEF ServeResponse, Requests
  <2>2. disp.at = "remote" /\ ~disp.resetXLink /\ rq' = [rq EXCEPT ![disp.slot] = None] /\ Counted
    BY <1>6, SteadyParts DEF ServeResponse, ClearRemote, DispatcherAt
  <2>3. Handled' = Handled /\ disp'.resetXLink = disp.resetXLink
    BY <1>4, <2>1, <2>2 DEF Handled, AtNext
  <2>4. RemoteQueue' = RemoteQueue
    <3>1. ~RemoteQueued(disp.slot)
      BY <1>1, <2>2, BehindCurProc DEF Counted, PacketsQueued, RemoteQueued, TypesOf
    <3>2. \A t \in Slots : RemoteQueued(t) => rq'[t] = rq[t]
      BY <1>1, <2>2, <3>1 DEF TypesOf
    <3>. QED
      BY <1>1, <1>2, <3>2, RemoteStays
  <2>. QED
    BY <1>1, <1>3, <2>3, <2>4, QueuesStutter
<1>7. CASE Wake /\ HasState("PENDING")
  <2>. DEFINE s == getNextElementWithState(0, "PENDING")
  <2>1. s \in Slots
    <3>1. 0 \in Slots
      BY SlotNumbers DEF Slots
    <3>. QED
      BY <1>7, <3>1, NextElement
  <2>2. PostSemaphore(s) /\ disp.resetXLink /\ UNCHANGED rq
    BY <1>7, SteadyParts DEF Wake, remote, DispatcherAt
  <2>. HIDE DEF s
  <2>3. Handled' = Handled /\ disp'.resetXLink = disp.resetXLink
    BY <1>4, <2>1, <2>2
  <2>. QED
    BY <1>1, <1>2, <1>3, <2>2, <2>3, QueuesStutter DEF RemoteQueue
<1>. QED
  BY <1>5, <1>6, <1>7

\* A reset: nothing is handled any more, and what is queued is dropped in order.
LEMMA Resets ==
    ASSUME Steady, Steady', ServeResetRequest
    PROVE  Queues!Next
<1>1. /\ TypesOf /\ TypesOf' /\ InOrder /\ InOrder' /\ disp.slot \in Slots
      /\ disp.at = "remote" /\ ~disp.resetXLink /\ Counted
  BY SteadyParts DEF Steady, IInv, DispatcherAt, ServeResetRequest
<1>2. /\ UNCHANGED <<lq, lproc, lcur, rcur, rproc>> /\ rq' = [rq EXCEPT ![disp.slot] = None]
      /\ rq[disp.slot] = ResetRequest /\ disp'.resetXLink = TRUE
  BY <1>1 DEF ServeResetRequest, ClearRemote, local, TypesOf
<1>3. Handled = ResetRequest /\ Handled' = None
  BY <1>1, <1>2 DEF Handled, AtNext
<1>4. LocalQueue' = LocalQueue /\ Parked' = Parked /\ Sent' = Sent
  BY <1>2 DEF LocalQueue, Parked, Sent, InState
<1>5. RemoteQueue' = RemoteQueue
  <2>1. ~RemoteQueued(disp.slot)
    BY <1>1, BehindCurProc DEF Counted, PacketsQueued, RemoteQueued, TypesOf
  <2>2. \A s \in Slots : RemoteQueued(s) => rq'[s] = rq[s]
    BY <1>1, <1>2, <2>1 DEF TypesOf
  <2>. QED
    BY <1>1, <1>2, <2>2, RemoteStays
<1>6. Queues!Reset
  BY <1>1, <1>2, <1>3, <1>4, <1>5 DEF Queues!Reset, Handled, Parked, Sent
<1>. QED
  BY <1>6 DEF Queues!Next

\* What is queued is dropped, local events first.
LEMMA Drops ==
    ASSUME Steady, Steady', JoinReader \/ Drain \/ (Wake /\ ~HasState("PENDING"))
    PROVE  [Queues!Next]_(Queues!vars)
<1>1. /\ TypesOf /\ TypesOf' /\ InOrder /\ InOrder' /\ SlotsInOrder
      /\ disp.resetXLink /\ lproc \in Slots /\ lcur \in Slots /\ rproc \in Slots /\ rcur \in Slots
      /\ rq \in [Slots -> Packets]
  BY SteadyParts DEF Steady, IInv, DispatcherAt, JoinReader, Drain, Wake, TypesOf
<1>2. UNCHANGED <<lq, lcur, rq, rcur>> /\ disp'.resetXLink = disp.resetXLink
  BY <1>1 DEF JoinReader, Drain, Wake, local, remote, TypesOf
<1>3. Handled = None /\ Handled' = None /\ Parked' = Parked /\ Sent' = Sent /\ Contents' = Contents
  BY <1>1, <1>2 DEF Handled, Parked, Sent, InState, Contents
<1>4. CASE UNCHANGED <<lproc, rproc>>
  <2>1. LocalQueue' = LocalQueue /\ RemoteQueue' = RemoteQueue
    BY <1>2, <1>4 DEF LocalQueue, RemoteQueue
  <2>. QED
    BY <1>1, <1>2, <1>3, <2>1, QueuesStutter
<1>5. CASE Drain /\ lcur # lproc
  <2>1. lproc' = CIRCULAR_INCREMENT(lproc) /\ UNCHANGED rproc
    BY <1>1, <1>5, TakesAtCurProc DEF Drain
  <2>2. LocalQueue # <<>> /\ LocalQueue' = Tail(LocalQueue)
    BY <1>1, <1>2, <1>3, <1>5, <2>1, QueuesAre, FromShrinks
  <2>3. RemoteQueue' = RemoteQueue
    BY <1>2, <2>1 DEF RemoteQueue
  <2>4. Queues!Drop
    BY <1>1, <1>2, <1>3, <2>2, <2>3 DEF Queues!Drop, Handled, Parked, Sent
  <2>. QED
    BY <2>4 DEF Queues!Next
<1>6. CASE Drain /\ lcur = lproc /\ rcur # rproc
  <2>1. rproc' = CIRCULAR_INCREMENT(rproc) /\ UNCHANGED lproc
    BY <1>6 DEF Drain
  <2>2. RemoteQueue # <<>> /\ RemoteQueue' = Tail(RemoteQueue)
    BY <1>1, <1>2, <1>6, <2>1, QueuesAre, FromShrinks
  <2>3. LocalQueue' = LocalQueue /\ LocalQueue = <<>>
    <3>1. LocalQueue' = LocalQueue
      BY <1>2, <2>1 DEF LocalQueue
    <3>2. LocalQueue = <<>>
      BY <1>1, <1>6, QueuesAre, FromEmpty
    <3>. QED
      BY <3>1, <3>2
  <2>4. Queues!Drop
    BY <1>1, <1>2, <1>3, <2>2, <2>3 DEF Queues!Drop, Handled, Parked, Sent
  <2>. QED
    BY <2>4 DEF Queues!Next
<1>. QED
  BY <1>4, <1>5, <1>6 DEF JoinReader, Drain, Wake, local, remote

\* The request of a thread that the reset wakes is given up.
LEMMA GivesUp ==
    ASSUME Steady, Steady', MarkServed, disp.resetXLink
    PROVE  Queues!Next
<1>1. /\ TypesOf /\ TypesOf' /\ SlotsHoldCalls /\ InOrder /\ InOrder' /\ disp.slot \in Slots /\ PostedHolds
  BY SteadyParts DEF Steady, IInv
<1>2. /\ Mark(disp.slot, "SERVED") /\ NextEvent /\ UNCHANGED <<lproc, lcur, rq, rcur, rproc>>
      /\ lq[disp.slot].packet # None /\ lq[disp.slot].state = "PENDING"
  BY <1>1 DEF MarkServed, remote, PostedHolds
<1>3. \A t \in Slots : /\ lq'[t].packet = lq[t].packet
                       /\ lq'[t].state = IF t = disp.slot THEN "SERVED" ELSE lq[t].state
  BY <1>1, <1>2, Marked
<1>4. LocalQueue' = LocalQueue /\ RemoteQueue' = RemoteQueue
  BY <1>1, <1>2, <1>3, LocalStays DEF RemoteQueue
<1>5. Sent' = Sent \ {lq[disp.slot].packet} /\ lq[disp.slot].packet \in Sent
  <2>1. Sent' = IF "SERVED" = "PENDING" THEN Sent \cup {lq[disp.slot].packet} ELSE Sent \ {lq[disp.slot].packet}
    BY <1>1, <1>2, <1>3, StatesMarked
  <2>. QED
    BY <1>1, <1>2, <2>1 DEF Sent, InState
<1>6. Parked' = Parked
  <2>1. \A t \in Slots : /\ lq'[t].packet = lq[t].packet
                         /\ lq'[t].state \in {"BLOCKED", "READY"} <=> lq[t].state \in {"BLOCKED", "READY"}
    BY <1>2, <1>3
  <2>. QED
    BY <2>1, StatesSame DEF Parked
<1>7. disp'.resetXLink = disp.resetXLink
  BY <1>1, <1>2, NextEventMoves
<1>8. Handled = None /\ Handled' = None
  BY <1>7 DEF Handled
<1>9. Queues!Drop
  BY <1>1, <1>4, <1>5, <1>6, <1>7, <1>8 DEF Queues!Drop, Handled, Parked, Sent
<1>. QED
  BY <1>9 DEF Queues!Next

\* What the end of a link keeps.
LEMMA EndInitially == Init => EndInv
  BY DEF Init, EndInv, PostedHolds, ResetEnds

\* A thread is posted for an event that its slot still holds.
LEMMA PostedKept ==
    ASSUME IInv, IInv', Orderly, PostedHolds, [Next]_vars
    PROVE  PostedHolds'
<1>1. /\ TypesOf /\ DispatcherAt /\ SlotsInOrder /\ disp \in DispRecords /\ disp.slot \in Slots
  BY DEF IInv, Orderly, TypesOf, DispRecords
<1>2. ASSUME UNCHANGED <<lq, disp>> PROVE PostedHolds'
  BY <1>2 DEF PostedHolds
<1>3. ASSUME disp'.at # "posted" PROVE PostedHolds'
  BY <1>3 DEF PostedHolds
<1>4. ASSUME NEW c \in Clients, ClientCall(c) \/ ClientStep(c) \/ WaitAfterReset(c) PROVE PostedHolds'
  <2>1. CASE \E type \in Types : dispatcherAddEvent(c, type)
    <3>1. PICK type \in Types : dispatcherAddEvent(c, type)
      BY <2>1
    <3>. DEFINE s == getNextElementWithState(lcur, "SERVED")
                event == [client |-> c, call |-> call[c] + 1, type |-> type]
    <3>2. s \in Slots
      BY <1>1, <3>1, NextElement DEF dispatcherAddEvent, TypesOf
    <3>3. event \in Events /\ event # None
      <4>1. call[c] + 1 \in 1..MaxCalls
        BY <3>1, LoadBounds DEF TypesOf, IInv, SlotsHoldCalls, dispatcherAddEvent
      <4>. QED
        BY <4>1, PacketKinds DEF Events
    <3>4. Fill(s, event, c) /\ UNCHANGED disp
      BY <3>1 DEF dispatcherAddEvent, Fill
    <3>. HIDE DEF s, event
    <3>5. /\ lq'[s].packet = event
          /\ \A t \in Slots : lq'[t].state = lq[t].state /\ (t # s => lq'[t] = lq[t])
      BY <1>1, <3>2, <3>3, <3>4, Filled
    <3>. QED
      BY <1>1, <3>3, <3>4, <3>5 DEF PostedHolds
  <2>2. CASE ~\E type \in Types : dispatcherAddEvent(c, type)
    <3>1. UNCHANGED <<lq, disp>>
      BY <1>4, <2>2 DEF ClientCall, ClientStep, CheckReset, AddAfterReset, AddEventFails, NotifyDispatcher,
         dispatcherWaitEventComplete, WaitEventFails, WaitAfterReset, Return, local
    <3>. QED
      BY <1>2, <3>1
  <2>. QED
    BY <2>1, <2>2
<1>5. CASE eventReader \/ UNCHANGED vars
  <2>1. UNCHANGED <<lq, disp>>
    BY <1>5 DEF eventReader, ReceiveResponse, ReceiveRequest, ReceiveResetRequest, ReadFails,
       AddRemoteEvent, NotifyRemoteEvent, local, vars
  <2>. QED
    BY <1>2, <2>1
<1>6. ASSUME NEW s \in Slots, PostSemaphore(s), UNCHANGED lq, lq[s].packet # None,
             disp.resetXLink => lq[s].state = "PENDING"
      PROVE  PostedHolds'
  BY <1>1, <1>6, PostMoves DEF PostedHolds
<1>7. CASE ServeLocally
  <2>1. PostSemaphore(disp.slot) /\ UNCHANGED lq /\ ~disp.resetXLink /\ AtLocal
    BY <1>1, <1>7 DEF ServeLocally, AtLocal, local, DispatcherAt
  <2>2. lq[disp.slot].packet # None
    BY <2>1, CurrentIsEvent, PacketKinds DEF Current
  <2>. QED
    BY <1>1, <1>6, <2>1, <2>2
<1>8. CASE ServeResponse
  <2>1. ~disp.resetXLink /\ rq[disp.slot] \in Events /\ UNCHANGED lq
    BY <1>1, <1>8 DEF ServeResponse, local, DispatcherAt
  <2>2. PICK s \in Slots : lq[s].packet = rq[disp.slot] /\ PostSemaphore(s)
    BY <1>8 DEF ServeResponse, Requests
  <2>. QED
    BY <1>6, <2>1, <2>2, PacketKinds
<1>9. CASE Wake
  <2>1. CASE HasState("PENDING")
    <3>. DEFINE s == getNextElementWithState(0, "PENDING")
    <3>1. s \in Slots /\ lq[s].state = "PENDING"
      <4>1. 0 \in Slots
        BY SlotNumbers DEF Slots
      <4>. QED
        BY <2>1, <4>1, NextElement
    <3>2. PostSemaphore(s) /\ UNCHANGED lq /\ disp.at = "wake"
      BY <1>9, <2>1 DEF Wake, local
    <3>. HIDE DEF s
    <3>3. Undone(s)
      BY <3>1, <3>2 DEF Undone, Posted
    <3>4. lq[s].packet # None
      BY <1>1, <3>1, <3>3 DEF SlotsInOrder
    <3>. QED
      BY <1>6, <3>1, <3>2, <3>4
  <2>2. CASE ~HasState("PENDING")
    BY <1>1, <1>3, <1>9, <2>2 DEF Wake, TypesOf
  <2>. QED
    BY <2>1, <2>2
<1>10. CASE TakeReadyEvent \/ TakeLocalEvent \/ TakeRemoteEvent \/ ServeResetRequest \/ JoinReader \/ Drain
  <2>1. disp'.at # "posted"
    BY <1>1, <1>10 DEF TakeReadyEvent, TakeLocalEvent, TakeRemoteEvent, ServeResetRequest, JoinReader, Drain, TypesOf
  <2>. QED
    BY <1>3, <2>1
<1>11. CASE BlockEvent \/ SendRequest \/ ServeRemoteRequest \/ MarkServed
  <2>1. disp'.at # "posted"
    BY <1>1, <1>11, NextEventMoves DEF BlockEvent, SendRequest, SendMarked, ServeRemoteRequest, MarkServed
  <2>. QED
    BY <1>3, <2>1
<1>. QED
  BY <1>4, <1>5, <1>7, <1>8, <1>9, <1>10, <1>11 DEF Next, eventSchedulerRun, dispatcherReset

\* A request for a reset is the last packet.
LEMMA ResetKept ==
    ASSUME IInv, IInv', ~disp.resetXLink => Counted, ResetEnds, [Next]_vars
    PROVE  ResetEnds'
<1>1. /\ TypesOf /\ DispatcherAt /\ disp \in DispRecords /\ disp.slot \in Slots
      /\ rproc \in Slots /\ rcur \in Slots /\ rq \in [Slots -> Packets]
  BY DEF IInv, TypesOf, DispRecords
<1>2. ASSUME UNCHANGED <<rq, disp, reader>> PROVE ResetEnds'
  BY <1>2 DEF ResetEnds
<1>3. ASSUME NEW c \in Clients, ClientCall(c) \/ ClientStep(c) \/ WaitAfterReset(c) PROVE ResetEnds'
  <2>1. UNCHANGED <<rq, disp, reader>>
    BY <1>3 DEF ClientCall, ClientStep, CheckReset, AddAfterReset, dispatcherAddEvent, AddEventFails,
       NotifyDispatcher, dispatcherWaitEventComplete, WaitEventFails, WaitAfterReset, Return, remote
  <2>. QED
    BY <1>2, <2>1
<1>4. CASE UNCHANGED vars
  BY <1>2, <1>4 DEF vars, remote
<1>5. CASE eventReader
  <2>1. CASE ReceiveResponse \/ ReceiveRequest \/ ReceiveResetRequest \/ ReadFails
    <3>1. reader.at = "receive" /\ UNCHANGED <<rq, disp>>
      BY <2>1 DEF ReceiveResponse, ReceiveRequest, ReceiveResetRequest, ReadFails, remote
    <3>. QED
      BY <3>1 DEF ResetEnds
  <2>2. CASE AddRemoteEvent
    <3>1. /\ reader.at = "add" /\ reader'.at = "notify" /\ reader'.packet = reader.packet /\ UNCHANGED disp
          /\ \A s \in Slots : rq'[s] = IF s = rcur THEN reader.packet ELSE rq[s]
      BY <1>1, <2>2 DEF AddRemoteEvent, TypesOf
    <3>. QED
      BY <1>1, <3>1 DEF ResetEnds
  <2>3. CASE NotifyRemoteEvent
    <3>1. /\ reader.at = "notify" /\ UNCHANGED <<rq, disp>>
          /\ reader'.at = IF reader.packet = ResetRequest THEN "ended" ELSE "receive"
      BY <2>3 DEF NotifyRemoteEvent, NextReceive, remote
    <3>. QED
      BY <3>1 DEF ResetEnds
  <2>. QED
    BY <1>5, <2>1, <2>2, <2>3 DEF eventReader
<1>6. ASSUME UNCHANGED reader, disp'.resetXLink = disp.resetXLink, disp'.at # "remote" PROVE ResetEnds'
  BY <1>6 DEF ResetEnds
<1>7. CASE TakeRemoteEvent
  <2>1. /\ disp'.at = "remote" /\ disp'.slot = rproc /\ ~disp'.resetXLink /\ ~disp.resetXLink
        /\ UNCHANGED <<rq, reader>> /\ rcur # rproc
    BY <1>1, <1>7 DEF TakeRemoteEvent, AtNext, DispatcherAt, TypesOf
  <2>2. RemoteQueued(rproc)
    BY <1>1, <2>1, RingShrinks DEF RemoteQueued
  <2>. QED
    BY <1>1, <2>1, <2>2 DEF Counted, ResetIsLast, ResetEnds
<1>8. CASE ServeResetRequest
  <2>1. disp.at = "remote" /\ rq[disp.slot] = ResetRequest /\ UNCHANGED reader
    BY <1>8 DEF ServeResetRequest
  <2>. QED
    BY <2>1 DEF ResetEnds
<1>9. CASE TakeReadyEvent \/ TakeLocalEvent \/ JoinReader \/ Drain
  <2>1. UNCHANGED reader /\ disp'.resetXLink = disp.resetXLink /\ disp'.at # "remote"
    BY <1>1, <1>9 DEF TakeReadyEvent, TakeLocalEvent, JoinReader, Drain, TypesOf
  <2>. QED
    BY <1>6, <2>1
<1>10. CASE BlockEvent \/ SendRequest \/ ServeRemoteRequest \/ MarkServed
  <2>1. UNCHANGED reader /\ NextEvent
    BY <1>10 DEF BlockEvent, SendRequest, SendMarked, ServeRemoteRequest, MarkServed
  <2>. QED
    BY <1>1, <1>6, <2>1, NextEventMoves
<1>11. CASE ServeLocally \/ ServeResponse \/ Wake
  <2>1. UNCHANGED reader /\ disp'.resetXLink = disp.resetXLink /\ disp'.at \in {"posted", "down"}
    BY <1>1, <1>11 DEF ServeLocally, ServeResponse, Wake, PostSemaphore, TypesOf
  <2>. QED
    BY <1>6, <2>1
<1>. QED
  BY <1>3, <1>4, <1>5, <1>7, <1>8, <1>9, <1>10, <1>11 DEF Next, eventSchedulerRun, dispatcherReset

\* The links that a behaviour starts with are those it goes on with.
LEMMA SameLoad ==
    ASSUME [Next]_vars
    PROVE  load' = load /\ (InOrder' <=> InOrder) /\ (NeverFull' <=> NeverFull)
<1>1. load' = load
  BY DEF Next, ClientCall, ClientStep, eventReader, eventSchedulerRun, dispatcherReset,
         CheckReset, AddAfterReset, dispatcherAddEvent, AddEventFails, NotifyDispatcher,
         dispatcherWaitEventComplete, WaitEventFails, WaitAfterReset, Return,
         ReceiveResponse, ReceiveRequest, ReceiveResetRequest, ReadFails, AddRemoteEvent,
         NotifyRemoteEvent, TakeReadyEvent, TakeLocalEvent, TakeRemoteEvent, BlockEvent,
         SendRequest, SendMarked, ServeLocally, ServeRemoteRequest, ServeResponse, MarkServed,
         ServeResetRequest, JoinReader, Drain, Wake, vars, client
<1>. QED
  BY <1>1 DEF InOrder, NeverFull, Callers

\* Every step keeps what the end of a link needs.
LEMMA EndInductive == IInv /\ IInv' /\ OrderInv /\ NotifyInv /\ EndInv /\ [Next]_vars => EndInv'
<1>. SUFFICES ASSUME IInv, IInv', OrderInv, NotifyInv, EndInv, [Next]_vars, InOrder', NeverFull'
              PROVE  PostedHolds' /\ ResetEnds'
  BY DEF EndInv
<1>1. Orderly /\ (~disp.resetXLink => Counted) /\ PostedHolds /\ ResetEnds
  BY SameLoad DEF OrderInv, NotifyInv, EndInv
<1>. QED
  BY <1>1, PostedKept, ResetKept

\* Each step of the rings is one of the queues, or is not seen.
LEMMA RingStepIsQueueStep ==
    ASSUME Steady, Steady', [Next]_vars
    PROVE  [Queues!Next]_(Queues!vars)
<1>1. ASSUME UNCHANGED <<lq, lcur, lproc, rq, rcur, rproc, disp>> PROVE [Queues!Next]_(Queues!vars)
  BY <1>1, OthersStutter
<1>2. ASSUME NEW c \in Clients, ClientCall(c) \/ ClientStep(c) \/ WaitAfterReset(c)
      PROVE  [Queues!Next]_(Queues!vars)
  <2>1. CASE \E type \in Types : dispatcherAddEvent(c, type)
    BY <2>1, AddsLocal
  <2>2. CASE ~\E type \in Types : dispatcherAddEvent(c, type)
    <3>1. UNCHANGED <<lq, lcur, lproc, rq, rcur, rproc, disp>>
      BY <1>2, <2>2 DEF ClientCall, ClientStep, CheckReset, AddAfterReset, AddEventFails, NotifyDispatcher,
         dispatcherWaitEventComplete, WaitEventFails, WaitAfterReset, Return, local, remote
    <3>. QED
      BY <1>1, <3>1
  <2>. QED
    BY <2>1, <2>2
<1>3. CASE UNCHANGED vars
  BY <1>1, <1>3 DEF vars, local, remote
<1>4. CASE eventReader
  <2>1. CASE AddRemoteEvent
    BY <2>1, AddsRemote
  <2>2. CASE ~AddRemoteEvent
    <3>1. UNCHANGED <<lq, lcur, lproc, rq, rcur, rproc, disp>>
      BY <1>4, <2>2 DEF eventReader, ReceiveResponse, ReceiveRequest, ReceiveResetRequest, ReadFails,
         NotifyRemoteEvent, local, remote
    <3>. QED
      BY <1>1, <3>1
  <2>. QED
    BY <2>1, <2>2
<1>5. CASE eventSchedulerRun
  BY <1>5, TakesEvent, FinishesLocal, FinishesRemote, ServesUnseen, Resets, Drops, GivesUp
     DEF eventSchedulerRun, dispatcherReset
<1>. QED
  BY <1>2, <1>3, <1>4, <1>5 DEF Next

\* The queues are empty at first.
LEMMA QueuesInitially == Init => Queues!Init
<1>. SUFFICES ASSUME Init PROVE Queues!Init
  OBVIOUS
<1>1. lcur = 0 /\ lproc = 0 /\ rcur = 0 /\ rproc = 0 /\ disp.at = "next" /\ disp.resetXLink = FALSE
      /\ \A s \in Slots : lq[s].state = "SERVED"
  BY DEF Init
<1>2. LocalQueue = <<>> /\ RemoteQueue = <<>>
  <2>1. Distance(0, 0) = 0 /\ 1..0 = {}
    BY DEF Distance
  <2>. QED
    BY <1>1, <2>1 DEF LocalQueue, RemoteQueue
<1>3. Handled = None /\ Parked = {} /\ Sent = {}
  BY <1>1 DEF Handled, AtNext, Parked, Sent, InState
<1>. QED
  BY <1>1, <1>2, <1>3 DEF Queues!Init, Handled, AtNext, Parked, Sent

\* The rings implement XLinkEventQueues, two first-in first-out queues, on every link whose
\* rings are never full if they are used in order: an event is dispatched once, in the
\* order it was added, local ones first, and a response only for a request that was sent
\* (dispatcherAddEvent, dispatcherGetNextEvent, dispatcherResponseServe, dispatcherReset).
THEOREM RingsAreQueues == Spec /\ [](InOrder => NeverFull) => ImplementsQueues
<1>1. Init => Queues!Init
  BY QueuesInitially
<1>2. Init => EndInv
  BY EndInitially
<1>3. IInv /\ IInv' /\ OrderInv /\ NotifyInv /\ EndInv /\ [Next]_vars => EndInv'
  BY EndInductive
<1>4. /\ IInv /\ OrderInv /\ NotifyInv /\ EndInv /\ (InOrder => NeverFull)
      /\ (IInv /\ OrderInv /\ NotifyInv /\ EndInv /\ (InOrder => NeverFull))'
      /\ [Next]_vars
      => [Queues!Next]_(Queues!vars)
  <2>. SUFFICES ASSUME IInv, OrderInv, NotifyInv, EndInv, InOrder => NeverFull,
                       IInv', OrderInv', NotifyInv', EndInv', InOrder' => NeverFull', [Next]_vars
                PROVE  [Queues!Next]_(Queues!vars)
    OBVIOUS
  <2>1. CASE InOrder
    <3>1. Steady /\ Steady'
      BY <2>1, SameLoad DEF Steady
    <3>. QED
      BY <3>1, RingStepIsQueueStep
  <2>2. CASE ~InOrder
    BY <2>2, SameLoad DEF Queues!vars
  <2>. QED
    BY <2>1, <2>2
<1>5. Spec => []IInv
  BY DispatcherInvariant
<1>6. Spec => []OrderInv
  BY RingsInOrder
<1>7. Spec => []NotifyInv
  BY NotificationsCountEvents
<1>8. Spec => []EndInv
  BY <1>2, <1>3, <1>5, <1>6, <1>7, PTL DEF Spec
<1>. QED
  BY <1>1, <1>4, <1>5, <1>6, <1>7, <1>8, PTL DEF Spec, ImplementsQueues, Queues!Spec

-----------------------------------------------------------------------------
(* What the peer receives                                                  *)

\* The events that the dispatcher thread may still send: queued, in hand, blocked or ready.
ToSend(s) == Queued(s) \/ InHand(s) \/ lq[s].state \in {"BLOCKED", "READY"}

\* The last packet the peer has received is none of them, nor one that is still to be added.
SentOnce ==
    prevEvent # None => /\ prevEvent.call <= call[prevEvent.client]
                        /\ \A s \in Slots : ToSend(s) => lq[s].packet # prevEvent
AbortInv == InOrder => SentOnce /\ PeerNeverAborts

\* An event is added that has not been sent.
LEMMA AddSendsOnce ==
    ASSUME IInv, IInv', InOrder, Orderly, SentOnce, NEW c \in Clients, NEW type \in Types,
           dispatcherAddEvent(c, type)
    PROVE  SentOnce' /\ peerAborted' = peerAborted
<1>. DEFINE event == [client |-> c, call |-> call[c] + 1, type |-> type]
<1>1. getNextElementWithState(lcur, "SERVED") = lcur /\ lq[lcur].state = "SERVED"
  BY AddsAtCur
<1>2. TypesOf /\ lcur \in Slots /\ lproc \in Slots /\ call \in [Clients -> Nat]
  BY DEF IInv, TypesOf
<1>3. /\ call' = [call EXCEPT ![c] = @ + 1] /\ lcur' = CIRCULAR_INCREMENT(lcur)
      /\ Fill(lcur, event, c) /\ UNCHANGED <<lproc, disp, prevEvent, peerAborted>>
  BY <1>1 DEF dispatcherAddEvent, Fill, peer
<1>4. /\ lq'[lcur].packet = event
      /\ \A t \in Slots : lq'[t].state = lq[t].state /\ (t # lcur => lq'[t] = lq[t])
  <2>1. event \in Events
    <3>1. call[c] + 1 \in 1..MaxCalls
      BY <1>2, LoadBounds DEF dispatcherAddEvent, IInv, SlotsHoldCalls, TypesOf
    <3>. QED
      BY <3>1 DEF Events
  <2>. HIDE DEF event
  <2>. QED
    BY <1>2, <1>3, <2>1, Filled
<1>5. \A t \in Slots : ToSend(t)' => ToSend(t) \/ t = lcur
  BY <1>2, <1>3, <1>4, CurMoves DEF ToSend, Queued, InHand
<1>6. ASSUME prevEvent # None PROVE SentOnce'
  <2>1. /\ prevEvent \in Events /\ prevEvent.client \in Clients /\ prevEvent.call \in Nat
        /\ prevEvent.call <= call[prevEvent.client]
    BY <1>2, <1>6 DEF TypesOf, Events, SentOnce
  <2>2. prevEvent.call <= call'[prevEvent.client]
    BY <1>2, <1>3, <2>1
  <2>3. event # prevEvent
    <3>1. event.client = c /\ event.call = call[c] + 1 /\ call[c] \in Nat
      BY <1>2
    <3>. HIDE DEF event
    <3>. QED
      BY <2>1, <3>1
  <2>. HIDE DEF event
  <2>4. ASSUME NEW s \in Slots, ToSend(s)' PROVE lq'[s].packet # prevEvent
    BY <1>4, <1>5, <1>6, <2>3, <2>4 DEF SentOnce
  <2>. QED
    BY <1>3, <2>2, <2>4 DEF SentOnce
<1>. QED
  BY <1>3, <1>6 DEF SentOnce

\* What was to be sent is sent, or not.
LEMMA SendsNoMore ==
    ASSUME SentOnce, UNCHANGED <<call, prevEvent>>,
           \A t \in Slots : lq'[t].packet = lq[t].packet /\ (ToSend(t)' => ToSend(t))
    PROVE  SentOnce'
  BY DEF SentOnce

\* The dispatcher thread takes, drops, blocks or serves an event.
LEMMA HandlesOnce ==
    ASSUME IInv, Orderly, SentOnce,
           TakeReadyEvent \/ TakeLocalEvent \/ TakeRemoteEvent \/ Drain \/ BlockEvent \/ ServeLocally
             \/ ServeResponse \/ Wake \/ MarkServed \/ ServeResetRequest \/ JoinReader
    PROVE  SentOnce' /\ peerAborted' = peerAborted
<1>1. /\ TypesOf /\ SlotsInOrder /\ lproc \in Slots /\ lcur \in Slots /\ disp.slot \in Slots
      /\ disp \in DispRecords
  BY DEF IInv, TypesOf, Orderly, DispRecords
<1>2. UNCHANGED <<call, prevEvent, peerAborted, lcur>>
  BY DEF TakeReadyEvent, TakeLocalEvent, TakeRemoteEvent, Drain, BlockEvent, ServeLocally,
         ServeResponse, Wake, MarkServed, ServeResetRequest, JoinReader, client, peer, local
<1>3. ASSUME UNCHANGED <<lq, lproc>>, disp'.at # "local" PROVE SentOnce'
  BY <1>2, <1>3, SendsNoMore DEF ToSend, Queued, InHand
<1>4. CASE TakeReadyEvent
  <2>1. disp'.slot = getNextElementWithState(0, "READY") /\ UNCHANGED <<lq, lproc>>
    BY <1>1, <1>4 DEF TakeReadyEvent, TypesOf, local
  <2>2. lq[disp'.slot].state = "READY"
    <3>1. 0 \in Slots /\ HasState("READY")
      BY <1>4, SlotNumbers DEF TakeReadyEvent, Slots
    <3>. QED
      BY <2>1, <3>1, NextElement
  <2>. QED
    BY <1>2, <2>1, <2>2, SendsNoMore DEF ToSend, Queued, InHand
<1>5. CASE TakeLocalEvent
  <2>1. /\ getNextElementWithState(lproc, "SERVED") = lproc /\ Queued(lproc)
        /\ \A t \in Slots : Distance(CIRCULAR_INCREMENT(lproc), t)
                               < Distance(CIRCULAR_INCREMENT(lproc), lcur)
                             <=> Queued(t) /\ t # lproc
    BY <1>1, <1>5, TakesAtCurProc DEF TakeLocalEvent
  <2>2. disp'.slot = lproc /\ lproc' = CIRCULAR_INCREMENT(lproc) /\ lq' = lq
    BY <1>1, <1>5, <2>1 DEF TakeLocalEvent, TypesOf
  <2>3. \A t \in Slots : Queued(t)' => Queued(t)
    BY <1>2, <2>1, <2>2 DEF Queued
  <2>. QED
    BY <1>2, <2>1, <2>2, <2>3, SendsNoMore DEF ToSend, InHand
<1>6. CASE Drain
  <2>1. disp'.at # "local" /\ lq' = lq
    BY <1>1, <1>6 DEF Drain, TypesOf
  <2>2. \A t \in Slots : Queued(t)' => Queued(t)
    <3>1. CASE lcur # lproc
      <4>1. /\ lproc' = CIRCULAR_INCREMENT(lproc)
            /\ \A t \in Slots : Distance(CIRCULAR_INCREMENT(lproc), t)
                                   < Distance(CIRCULAR_INCREMENT(lproc), lcur)
                                 <=> Queued(t) /\ t # lproc
        BY <1>1, <1>6, <3>1, TakesAtCurProc DEF Drain
      <4>. QED
        BY <1>2, <4>1 DEF Queued
    <3>2. CASE lcur = lproc
      BY <1>2, <1>6, <3>2 DEF Drain, Queued
    <3>. QED
      BY <3>1, <3>2
  <2>. QED
    BY <1>2, <2>1, <2>2, SendsNoMore DEF ToSend, InHand
<1>7. CASE BlockEvent \/ MarkServed
  <2>1. lproc' = lproc /\ NextEvent
    BY <1>7 DEF BlockEvent, MarkServed
  <2>2. disp'.at # "local"
    BY <1>1, <2>1, NextEventMoves
  <2>3. \/ disp.at = "local" /\ Mark(disp.slot, "BLOCKED")
        \/ disp.at = "posted" /\ Mark(disp.slot, "SERVED")
    BY <1>7 DEF BlockEvent, AtLocal, MarkServed
  <2>4. \A t \in Slots : /\ lq'[t].packet = lq[t].packet
                         /\ ToSend(t)' => ToSend(t)
    BY <1>1, <1>2, <2>1, <2>2, <2>3, Marked DEF ToSend, Queued, InHand
  <2>. QED
    BY <1>2, <2>4, SendsNoMore
<1>8. CASE TakeRemoteEvent \/ ServeLocally \/ ServeResponse \/ Wake \/ ServeResetRequest \/ JoinReader
  <2>1. disp'.at # "local"
    BY <1>1, <1>8 DEF TakeRemoteEvent, ServeLocally, ServeResponse, Wake, PostSemaphore,
                      ServeResetRequest, JoinReader, TypesOf
  <2>2. UNCHANGED <<lq, lproc>>
    BY <1>8 DEF TakeRemoteEvent, ServeLocally, ServeResponse, Wake, ServeResetRequest, JoinReader, local
  <2>. QED
    BY <1>2, <1>3, <2>1, <2>2
<1>. QED
  BY <1>2, <1>4, <1>5, <1>6, <1>7, <1>8

\* The event in hand was not sent before, and is not to be sent again.
LEMMA RequestSentOnce ==
    ASSUME IInv, Orderly, SentOnce, ~peerAborted, SendRequest
    PROVE  SentOnce' /\ ~peerAborted'
<1>1. /\ TypesOf /\ SlotsHoldCalls /\ SlotsInOrder /\ disp.slot \in Slots /\ disp \in DispRecords
  BY DEF IInv, TypesOf, Orderly, DispRecords
<1>2. /\ InHand(disp.slot) /\ Mark(disp.slot, "PENDING") /\ NextEvent /\ prevEvent' = Current
      /\ peerAborted' = (peerAborted \/ prevEvent = Current) /\ UNCHANGED <<lcur, lproc, call>>
  BY DEF SendRequest, SendMarked, AtLocal, InHand, client
<1>3. Current \in Events /\ Current # None
  <2>1. lq[disp.slot].packet # None
    BY <1>1, <1>2 DEF SlotsInOrder, Undone
  <2>. QED
    BY <1>1, <2>1 DEF Current, TypesOf, SlotRecords
<1>4. ~peerAborted'
  <2>1. ToSend(disp.slot)
    BY <1>2 DEF ToSend
  <2>2. prevEvent # Current
    BY <1>1, <1>3, <2>1 DEF SentOnce, Current
  <2>. QED
    BY <1>2, <2>2
<1>5. Current.call <= call[Current.client]
  BY <1>1, <1>3 DEF SlotsHoldCalls, Current
<1>6. disp'.at # "local"
  BY <1>1, <1>2, NextEventMoves
<1>7. ASSUME NEW s \in Slots, ToSend(s)' PROVE lq'[s].packet # Current
  <2>1. \A t \in Slots : /\ lq'[t].packet = lq[t].packet
                         /\ lq'[t].state = IF t = disp.slot THEN "PENDING" ELSE lq[t].state
    BY <1>1, <1>2, Marked
  <2>2. ~Queued(disp.slot)
    BY <1>1, <1>2 DEF SlotsInOrder
  <2>3. s # disp.slot
    BY <1>1, <1>2, <1>6, <1>7, <2>1, <2>2 DEF ToSend, Queued, InHand
  <2>. QED
    BY <1>1, <1>3, <2>1, <2>3 DEF SlotsHoldCalls, Current
<1>. QED
  BY <1>2, <1>4, <1>5, <1>7 DEF SentOnce

\* Every step keeps it so.
LEMMA SentOnceInductive ==
    ASSUME IInv, IInv', OrderInv, AbortInv, [Next]_vars
    PROVE  AbortInv'
<1>. SUFFICES ASSUME InOrder' PROVE SentOnce' /\ ~peerAborted'
  BY DEF AbortInv, PeerNeverAborts
<1>1. load' = load
  BY SameLoad
<1>2. InOrder
  BY <1>1 DEF InOrder
<1>3. Orderly /\ SentOnce /\ ~peerAborted
  BY <1>2 DEF OrderInv, AbortInv, PeerNeverAborts
<1>4. ASSUME UNCHANGED <<lq, lcur, lproc, disp, call, prevEvent, peerAborted>>
      PROVE  SentOnce' /\ ~peerAborted'
  BY <1>3, <1>4 DEF SentOnce, ToSend, Queued, InHand
<1>5. ASSUME NEW c \in Clients, ClientCall(c) \/ ClientStep(c) \/ WaitAfterReset(c)
      PROVE  SentOnce' /\ ~peerAborted'
  <2>1. CASE \E type \in Types : dispatcherAddEvent(c, type)
    BY <1>2, <1>3, <2>1, AddSendsOnce
  <2>2. CASE ~\E type \in Types : dispatcherAddEvent(c, type)
    BY <1>4, <1>5, <2>2
       DEF ClientCall, ClientStep, CheckReset, AddAfterReset, AddEventFails, NotifyDispatcher,
           dispatcherWaitEventComplete, WaitEventFails, WaitAfterReset, Return, local, peer
  <2>. QED
    BY <2>1, <2>2
<1>6. CASE eventReader \/ UNCHANGED vars
  BY <1>4, <1>6 DEF eventReader, ReceiveResponse, ReceiveRequest, ReceiveResetRequest, ReadFails,
         AddRemoteEvent, NotifyRemoteEvent, vars, local, client, peer
<1>7. CASE SendRequest
  BY <1>3, <1>7, RequestSentOnce
<1>8. CASE ServeRemoteRequest
  <2>1. prevEvent' = None /\ peerAborted' = peerAborted
    BY <1>8 DEF ServeRemoteRequest
  <2>. QED
    BY <1>3, <2>1 DEF SentOnce
<1>9. CASE eventSchedulerRun
  BY <1>3, <1>7, <1>8, <1>9, HandlesOnce DEF eventSchedulerRun, dispatcherReset
<1>. QED
  BY <1>5, <1>6, <1>9 DEF Next

\* On a link whose rings are used in order the dispatcher thread sends no request twice, so
\* the check for duplicate ids of the peer's reader thread never fails
\* (dispatcherEventReceive).
THEOREM PeerSeesNoDuplicate == Spec => [](InOrder => PeerNeverAborts)
<1>1. Init => AbortInv
  BY DEF Init, AbortInv, SentOnce, PeerNeverAborts
<1>2. IInv /\ IInv' /\ OrderInv /\ AbortInv /\ [Next]_vars => AbortInv'
  BY SentOnceInductive
<1>3. AbortInv => (InOrder => PeerNeverAborts)
  BY DEF AbortInv
<1>4. Spec => []IInv
  BY DispatcherInvariant
<1>5. Spec => []OrderInv
  BY RingsInOrder
<1>. QED
  BY <1>1, <1>2, <1>3, <1>4, <1>5, PTL DEF Spec
=============================================================================
