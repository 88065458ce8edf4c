-------------------------- MODULE XLinkFlow_proofs --------------------------
(***************************************************************************)
(* Proofs that the flow control of XLinkFlow is safe for any number of     *)
(* threads, any packet sizes and any buffer.                               *)
(*                                                                         *)
(* The heart of the invariant is a ledger: the packets that are            *)
(* outstanding, the oldest first, are those whose credit is on its way     *)
(* back, those in the readers' hands, those stored, those on the wire.  A  *)
(* packet only moves from one of these to the one before it, and leaves at *)
(* the old end.  The sum of their sizes is stated with a function of       *)
(* prefix sums, so that no induction over sequences is needed.             *)
(*                                                                         *)
(* From it follow that the fill levels count bytes exactly and that a      *)
(* stream behaves towards its applications as a bounded pipe (XLinkPipe).  *)
(* The bytes of a sequence are the last of its prefix sums (BytesOf).      *)
(* What holds of all prefix sums is shown by looking at the first that     *)
(* would be wrong: a set of numbers has a least (LeastOfNumbers).          *)
(***************************************************************************)
EXTENDS MCXLinkFlow, Counting, SequenceTheorems

\* the readers with a packet in hand
Holders == {r \in Readers : rpc[r] \in {"holding", "relQueued"}}

ReadyReaders == {r \in Readers : rpc[r] = "ready"}

HeldByReaders == Len(held) = Cardinality(Holders)

\* the places in the ledger where the held, the stored and the sent packets begin
heldFrom == Len(relWire)
storedFrom == heldFrom + Len(held)
sentFrom == storedFrom + Len(available)

\* the size of the i-th oldest outstanding packet
SizeOf(i) ==
    IF i <= heldFrom THEN relWire[i].size
    ELSE IF i <= storedFrom THEN held[i - heldFrom]
    ELSE IF i <= sentFrom THEN available[i - storedFrom]
    ELSE writeWire[i - sentFrom].size

\* p[i] is the number of bytes of the i oldest outstanding packets
Ledger(p) ==
    /\ p \in [0..remoteFillPacketLevel -> Nat]
    /\ p[0] = 0
    /\ \A i \in 1..remoteFillPacketLevel : p[i] = p[i-1] + SizeOf(i)
    /\ \A i, j \in 0..remoteFillPacketLevel : i <= j => p[i] <= p[j]
    /\ remoteFillLevel = p[remoteFillPacketLevel]
    /\ localFillLevel = p[sentFrom] - p[heldFrom]

Credit ==
    /\ PacketCredit
    /\ remoteFillPacketLevel <= MaxPackets
    /\ remoteFillLevel <= WriteSize
    /\ \E p : Ledger(p)

IInv ==
    /\ TypeOK
    /\ RequestsPending
    /\ Credit
    /\ HeldByReaders
    /\ WriterWakeup
    /\ ReaderWakeup

-----------------------------------------------------------------------------
(* The initial state *)

LEMMA InitIInv == Init => IInv
<1> SUFFICES ASSUME Init PROVE IInv
  OBVIOUS
<1>1. TypeOK /\ RequestsPending
  BY DEF Init, TypeOK, RequestsPending, WriterStates, ReaderStates
<1>2. Credit
  <2> DEFINE p == [i \in {0} |-> 0]
  <2>1. Ledger(p)
    BY DEF Init, Ledger, heldFrom, storedFrom, sentFrom
  <2>. QED
    BY <2>1, SizeAssumption DEF Init, Credit, PacketCredit
<1>3. HeldByReaders
  <2>1. Holders = {}
    BY DEF Init, Holders
  <2>. QED
    BY <2>1, FS_EmptySet DEF Init, HeldByReaders
<1>4. WriterWakeup /\ ReaderWakeup
  BY DEF Init, WriterWakeup, ReaderWakeup
<1>. QED
  BY <1>1, <1>2, <1>3, <1>4 DEF IInv

(* What Append and Tail do to a sequence *)

LEMMA Appended ==
    ASSUME NEW S, NEW s \in Seq(S), NEW e \in S
    PROVE  /\ Append(s, e) \in Seq(S)
           /\ Len(s) \in Nat /\ Len(Append(s, e)) = Len(s) + 1
           /\ \A i \in 1..Len(s) : Append(s, e)[i] = s[i]
           /\ Append(s, e)[Len(s) + 1] = e
           /\ DOMAIN s = 1..Len(s) /\ DOMAIN Append(s, e) = 1..(Len(s) + 1)
OBVIOUS

LEMMA HeadAndTail ==
    ASSUME NEW S, NEW s \in Seq(S), s # <<>>
    PROVE  /\ Tail(s) \in Seq(S)
           /\ Len(s) \in Nat /\ 0 < Len(s) /\ Len(Tail(s)) = Len(s) - 1
           /\ Head(s) = s[1] /\ s[1] \in S
           /\ \A i \in 1..(Len(s) - 1) : Tail(s)[i] = s[i + 1]
           /\ DOMAIN s = 1..Len(s) /\ DOMAIN Tail(s) = 1..(Len(s) - 1)
<1>1. Len(s) \in Nat /\ 0 < Len(s)
  OBVIOUS
<1>. QED
  BY <1>1

LEMMA ElementType == ASSUME NEW S, NEW s \in Seq(S), NEW i \in DOMAIN s PROVE s[i] \in S
OBVIOUS

LEMMA SizeFits ==
    ASSUME NEW size \in Sizes
    PROVE  size \in Nat /\ 0 < size /\ size <= WriteSize
<1>1. size \in 1..WriteSize
  BY FitAssumption
<1>. QED
  BY <1>1, SizeAssumption

-----------------------------------------------------------------------------
(* Steps that move no packet.  A ledger depends on nothing else. *)

LedgerVars == <<remoteFillLevel, remoteFillPacketLevel, writeWire, available,
                held, relWire, localFillLevel>>

LEMMA SameCredit ==
    ASSUME IInv, UNCHANGED LedgerVars
    PROVE  Credit'
<1> USE DEF LedgerVars
<1>1. PICK p : Ledger(p)
  BY DEF IInv, Credit
<1>2. Ledger(p)'
  BY <1>1 DEF Ledger, SizeOf, heldFrom, storedFrom, sentFrom
<1>. QED
  BY <1>2 DEF IInv, Credit, PacketCredit

LEMMA MessageTypes ==
    ASSUME IInv
    PROVE  /\ \A i \in DOMAIN writeWire : writeWire[i].writer \in Writers
           /\ \A i \in DOMAIN relWire : relWire[i].reader \in Readers
<1>1. \A i \in DOMAIN writeWire : writeWire[i] \in [writer : Writers, size : Sizes]
  BY ElementType DEF IInv, TypeOK
<1>2. \A i \in DOMAIN relWire : relWire[i] \in [reader : Readers, size : Sizes]
  BY ElementType DEF IInv, TypeOK
<1>. QED
  BY <1>1, <1>2

LEMMA HoldersFinite == IsFiniteSet(Holders) /\ IsFiniteSet(ReadyReaders)
BY ThreadAssumption, FS_Subset DEF Holders, ReadyReaders

LEMMA XLinkWriteDataIInv ==
    ASSUME IInv, NEW w \in Writers, NEW size \in Sizes, XLinkWriteData(w, size)
    PROVE  IInv'
<1> USE DEF XLinkWriteData, receiver
<1>1. TypeOK'
  BY DEF IInv, TypeOK, WriterStates
<1>2. RequestsPending'
  BY DEF IInv, TypeOK, RequestsPending
<1>3. Credit'
  BY SameCredit DEF LedgerVars
<1>4. HeldByReaders'
  BY DEF IInv, HeldByReaders, Holders
<1>5. WriterWakeup' /\ ReaderWakeup'
  BY DEF IInv, TypeOK, WriterWakeup, ReaderWakeup
<1>. QED
  BY <1>1, <1>2, <1>3, <1>4, <1>5 DEF IInv

\* a write is blocked only while something is outstanding: an empty stream has
\* room for any packet that fits it
LEMMA BlockWriteIInv ==
    ASSUME IInv, NEW w \in Writers, BlockWrite(w)
    PROVE  IInv'
<1> USE DEF BlockWrite, receiver
<1>1. TypeOK'
  BY DEF IInv, TypeOK, WriterStates
<1>2. RequestsPending'
  BY DEF IInv, TypeOK, RequestsPending
<1>3. Credit'
  BY SameCredit DEF LedgerVars
<1>4. HeldByReaders'
  BY DEF IInv, HeldByReaders, Holders
<1>5. WriterWakeup'
  <2>1. SUFFICES ASSUME remoteFillPacketLevel = 0 PROVE FALSE
    BY DEF IInv, TypeOK, WriterWakeup
  <2>2. remoteFillLevel = 0
    BY <2>1 DEF IInv, Credit, Ledger
  <2>3. wsize[w] <= WriteSize /\ wsize[w] \in Nat
    <3>1. wsize[w] \in Sizes
      BY DEF IInv, TypeOK
    <3>. QED
      BY <3>1, SizeFits
  <2>. QED
    BY <2>1, <2>2, <2>3, SizeAssumption DEF isStreamSpaceEnoughFor
<1>6. ReaderWakeup'
  BY DEF IInv, ReaderWakeup
<1>. QED
  BY <1>1, <1>2, <1>3, <1>4, <1>5, <1>6 DEF IInv

LEMMA WriteResponseIInv ==
    ASSUME IInv, NEW w \in Writers, WriteResponse(w)
    PROVE  IInv'
<1> USE DEF WriteResponse, receiver
<1>1. TypeOK'
  BY DEF IInv, TypeOK, WriterStates
<1>2. RequestsPending'
  BY DEF IInv, TypeOK, RequestsPending
<1>3. Credit'
  BY SameCredit DEF LedgerVars
<1>4. HeldByReaders'
  BY DEF IInv, HeldByReaders, Holders
<1>5. WriterWakeup' /\ ReaderWakeup'
  BY DEF IInv, TypeOK, WriterWakeup, ReaderWakeup
<1>. QED
  BY <1>1, <1>2, <1>3, <1>4, <1>5 DEF IInv

\* a reader that neither holds a packet nor was woken for one may come and go
LEMMA OtherReaderStep ==
    ASSUME IInv, NEW r \in Readers, NEW pc \in ReaderStates,
           rpc[r] \notin {"ready", "holding", "relQueued", "relPending"},
           pc \notin {"blocked", "ready", "holding", "relQueued"},
           rpc' = [rpc EXCEPT ![r] = pc],
           UNCHANGED <<sender, writeWire, relWire, rQueue, available, held, localFillLevel>>
    PROVE  IInv'
<1> USE DEF sender
<1>1. TypeOK'
  BY DEF IInv, TypeOK
<1>2. RequestsPending'
  BY DEF IInv, TypeOK, RequestsPending
<1>3. Credit'
  BY SameCredit DEF LedgerVars
<1>4. HeldByReaders'
  <2>1. Holders' = Holders
    BY DEF IInv, TypeOK, Holders
  <2>. QED
    BY <2>1 DEF IInv, HeldByReaders
<1>5. WriterWakeup'
  BY DEF IInv, WriterWakeup
<1>6. ReaderWakeup'
  <2>1. ReadyReaders' = ReadyReaders
    BY DEF IInv, TypeOK, ReadyReaders
  <2>. QED
    BY <2>1 DEF IInv, TypeOK, ReaderWakeup, ReadyReaders
<1>. QED
  BY <1>1, <1>2, <1>3, <1>4, <1>5, <1>6 DEF IInv

LEMMA XLinkReadDataIInv ==
    ASSUME IInv, NEW r \in Readers, XLinkReadData(r)
    PROVE  IInv'
BY OtherReaderStep DEF XLinkReadData, ReaderStates

LEMMA ReleaseResponseIInv ==
    ASSUME IInv, NEW r \in Readers, ReleaseResponse(r)
    PROVE  IInv'
BY OtherReaderStep DEF ReleaseResponse, ReaderStates

\* a read blocks only when nothing is stored
LEMMA BlockReadIInv ==
    ASSUME IInv, NEW r \in Readers, BlockRead(r)
    PROVE  IInv'
<1> USE DEF BlockRead, sender
<1>1. TypeOK'
  BY DEF IInv, TypeOK, ReaderStates
<1>2. RequestsPending'
  BY DEF IInv, TypeOK, RequestsPending
<1>3. Credit'
  BY SameCredit DEF LedgerVars
<1>4. HeldByReaders'
  <2>1. Holders' = Holders
    BY DEF IInv, TypeOK, Holders
  <2>. QED
    BY <2>1 DEF IInv, HeldByReaders
<1>5. WriterWakeup'
  BY DEF IInv, WriterWakeup
<1>6. ReaderWakeup'
  <2>1. Cardinality(ReadyReaders') \in Nat
    <3>1. IsFiniteSet(ReadyReaders')
      BY ThreadAssumption, FS_Subset DEF ReadyReaders
    <3>. QED
      BY <3>1, FS_CardinalityType
  <2>2. Len(available') = 0 /\ Len(rQueue') \in Nat
    BY DEF IInv, TypeOK
  <2>. QED
    BY <2>1, <2>2 DEF ReaderWakeup, ReadyReaders
<1>. QED
  BY <1>1, <1>2, <1>3, <1>4, <1>5, <1>6 DEF IInv

LEMMA XLinkReleaseDataIInv ==
    ASSUME IInv, NEW r \in Readers, XLinkReleaseData(r)
    PROVE  IInv'
<1> USE DEF XLinkReleaseData, sender
<1>1. TypeOK'
  BY DEF IInv, TypeOK, ReaderStates
<1>2. RequestsPending'
  BY DEF IInv, TypeOK, RequestsPending
<1>3. Credit'
  BY SameCredit DEF LedgerVars
<1>4. HeldByReaders'
  <2>1. Holders' = Holders
    BY DEF IInv, TypeOK, Holders
  <2>. QED
    BY <2>1 DEF IInv, HeldByReaders
<1>5. WriterWakeup'
  BY DEF IInv, WriterWakeup
<1>6. ReaderWakeup'
  <2>1. ReadyReaders' = ReadyReaders
    BY DEF IInv, TypeOK, ReadyReaders
  <2>. QED
    BY <2>1 DEF IInv, TypeOK, ReaderWakeup, ReadyReaders
<1>. QED
  BY <1>1, <1>2, <1>3, <1>4, <1>5, <1>6 DEF IInv

-----------------------------------------------------------------------------
(* Steps that move a packet *)

\* the types of the ledger's parts, and where one part ends and the next begins
LEMMA Places ==
    ASSUME IInv
    PROVE  /\ heldFrom \in Nat /\ storedFrom \in Nat /\ sentFrom \in Nat
           /\ heldFrom <= storedFrom /\ storedFrom <= sentFrom
           /\ remoteFillPacketLevel = sentFrom + Len(writeWire)
           /\ sentFrom <= remoteFillPacketLevel
<1>1. /\ Len(relWire) \in Nat /\ Len(held) \in Nat
      /\ Len(available) \in Nat /\ Len(writeWire) \in Nat
  BY DEF IInv, TypeOK
<1>. QED
  BY <1>1 DEF IInv, Credit, PacketCredit, heldFrom, storedFrom, sentFrom

LEMMA SizeOfType ==
    ASSUME IInv, NEW i \in 1..remoteFillPacketLevel
    PROVE  SizeOf(i) \in Nat
<1>1. /\ i \in Nat /\ i > 0 /\ heldFrom = Len(relWire)
      /\ storedFrom = heldFrom + Len(held) /\ sentFrom = storedFrom + Len(available)
      /\ Len(relWire) \in Nat /\ Len(held) \in Nat /\ Len(available) \in Nat
      /\ Len(writeWire) \in Nat
  BY Places DEF IInv, TypeOK, heldFrom, storedFrom, sentFrom
<1>2. CASE i <= heldFrom
  <2>1. i \in DOMAIN relWire
    BY <1>1, <1>2 DEF IInv, TypeOK
  <2>2. relWire[i] \in [reader : Readers, size : Sizes]
    BY <2>1, ElementType DEF IInv, TypeOK
  <2>. QED
    BY <1>2, <2>2, SizeFits DEF SizeOf
<1>3. CASE ~(i <= heldFrom) /\ i <= storedFrom
  <2>1. i - heldFrom \in DOMAIN held
    BY <1>1, <1>3 DEF IInv, TypeOK
  <2>2. held[i - heldFrom] \in Sizes
    BY <2>1, ElementType DEF IInv, TypeOK
  <2>. QED
    BY <1>3, <2>2, SizeFits DEF SizeOf
<1>4. CASE ~(i <= heldFrom) /\ ~(i <= storedFrom) /\ i <= sentFrom
  <2>1. i - storedFrom \in DOMAIN available
    BY <1>1, <1>4 DEF IInv, TypeOK
  <2>2. available[i - storedFrom] \in Sizes
    BY <2>1, ElementType DEF IInv, TypeOK
  <2>. QED
    BY <1>4, <2>2, SizeFits DEF SizeOf
<1>5. CASE ~(i <= heldFrom) /\ ~(i <= storedFrom) /\ ~(i <= sentFrom)
  <2>1. i - sentFrom \in DOMAIN writeWire
    BY <1>1, <1>5, Places DEF IInv, TypeOK
  <2>2. writeWire[i - sentFrom] \in [writer : Writers, size : Sizes]
    BY <2>1, ElementType DEF IInv, TypeOK
  <2>. QED
    BY <1>5, <2>2, SizeFits DEF SizeOf
<1>. QED
  BY <1>2, <1>3, <1>4, <1>5

\* prefix sums with one more summand
LEMMA PrefixAppend ==
    ASSUME NEW n \in Nat, NEW p \in [0..n -> Nat], NEW size \in Nat,
           \A i, j \in 0..n : i <= j => p[i] <= p[j]
    PROVE  LET q == [i \in 0..(n+1) |-> IF i <= n THEN p[i] ELSE p[n] + size]
           IN  /\ q \in [0..(n+1) -> Nat]
               /\ \A i \in 0..n : q[i] = p[i]
               /\ q[n+1] = p[n] + size
               /\ \A i, j \in 0..(n+1) : i <= j => q[i] <= q[j]
<1> DEFINE q == [i \in 0..(n+1) |-> IF i <= n THEN p[i] ELSE p[n] + size]
<1>1. q \in [0..(n+1) -> Nat]
  OBVIOUS
<1>2. \A i \in 0..n : q[i] = p[i]
  OBVIOUS
<1>3. q[n+1] = p[n] + size
  OBVIOUS
<1>4. ASSUME NEW i \in 0..(n+1), NEW j \in 0..(n+1), i <= j
      PROVE  q[i] <= q[j]
  <2>0. \A k \in 0..n : p[k] \in Nat /\ p[k] <= p[n]
    OBVIOUS
  <2>1. CASE j <= n
    BY <1>2, <1>4, <2>1
  <2>2. CASE j = n+1 /\ i <= n
    <3>1. q[i] = p[i] /\ p[i] \in Nat /\ p[n] \in Nat /\ p[i] <= p[n]
      BY <1>2, <2>0, <2>2
    <3>. QED
      BY <1>3, <2>2, <3>1
  <2>3. CASE i = n+1 /\ j = n+1
    BY <1>1, <2>3
  <2>. QED
    BY <1>4, <2>1, <2>2, <2>3
<1>. QED
  BY <1>1, <1>2, <1>3, <1>4

\* a packet joins the ledger at its new end
LEMMA SendWriteIInv ==
    ASSUME IInv, NEW w \in Writers, SendWrite(w)
    PROVE  IInv'
<1> USE DEF SendWrite, receiver
<1>0. PICK n \in Nat : n = remoteFillPacketLevel
  BY DEF IInv, TypeOK
<1>1. PICK size \in Sizes : size = wsize[w] /\ size \in Nat
  <2>1. wsize[w] \in Sizes
    BY DEF IInv, TypeOK
  <2>. QED
    BY <2>1, SizeFits
<1>2. TypeOK'
  BY <1>1 DEF IInv, TypeOK, WriterStates
<1>3. RequestsPending'
  <2>1. writeWire' = Append(writeWire, [writer |-> w, size |-> size])
    BY <1>1
  <2>2. \A i \in DOMAIN writeWire : writeWire[i].writer # w
    BY DEF IInv, RequestsPending
  <2>3. \A i \in DOMAIN rQueue : rQueue[i] # w
    BY DEF IInv, RequestsPending
  <2>. QED
    BY <2>1, <2>2, <2>3 DEF IInv, TypeOK, RequestsPending
<1>4. Credit'
  <2>1. PICK p : Ledger(p)
    BY DEF IInv, Credit
  <2> DEFINE q == [i \in 0..(n+1) |-> IF i <= n THEN p[i] ELSE p[n] + size]
  <2>2. remoteFillPacketLevel' = n + 1 /\ n + 1 <= MaxPackets
    BY <1>0, SizeAssumption DEF isStreamSpaceEnoughFor
  <2>3. /\ heldFrom' = heldFrom /\ storedFrom' = storedFrom /\ sentFrom' = sentFrom
    BY DEF heldFrom, storedFrom, sentFrom
  <2>4. \A i \in 1..n : SizeOf(i)' = SizeOf(i)
    BY <1>0, <2>3, Places DEF SizeOf, IInv, TypeOK
  <2>5. SizeOf(n+1)' = size
    <3>1. Len(writeWire') = Len(writeWire) + 1
          /\ writeWire'[Len(writeWire) + 1].size = size
      BY <1>1 DEF IInv, TypeOK
    <3>2. n + 1 - sentFrom = Len(writeWire) + 1 /\ n + 1 > sentFrom
      BY <1>0, Places DEF IInv, TypeOK
    <3>3. n + 1 > heldFrom /\ n + 1 > storedFrom
      BY <3>2, Places
    <3>. QED
      BY <2>3, <3>1, <3>2, <3>3, Places DEF SizeOf
  <2>6. Ledger(q)'
    <3> DEFINE m == n + 1
    <3>0. p \in [0..n -> Nat] /\ \A i, j \in 0..n : i <= j => p[i] <= p[j]
      BY <1>0, <2>1 DEF Ledger
    <3>1. /\ q \in [0..m -> Nat]
          /\ \A i \in 0..n : q[i] = p[i]
          /\ q[m] = p[n] + size
          /\ \A i, j \in 0..m : i <= j => q[i] <= q[j]
      BY <1>1, <2>2, <3>0, PrefixAppend
    <3> HIDE DEF q
    <3>2. ASSUME NEW i \in 1..m PROVE q[i] = q[i-1] + SizeOf(i)'
      <4>1. CASE i \in 1..n
        <5>1. q[i] = p[i] /\ q[i-1] = p[i-1]
          BY <3>1, <4>1
        <5>2. p[i] = p[i-1] + SizeOf(i)
          BY <1>0, <2>1, <4>1 DEF Ledger
        <5>. QED
          BY <2>4, <4>1, <5>1, <5>2
      <4>2. CASE i = m
        <5>1. i - 1 = n /\ q[n] = p[n]
          BY <2>2, <3>1, <4>2
        <5>. QED
          BY <2>5, <3>1, <4>2, <5>1
      <4>. QED
        BY <2>2, <4>1, <4>2
    <3>3. q[0] = 0 /\ remoteFillLevel' = q[m]
      BY <1>0, <1>1, <2>1, <3>1 DEF Ledger
    <3>4. localFillLevel' = q[sentFrom] - q[heldFrom]
      <4>1. q[sentFrom] = p[sentFrom] /\ q[heldFrom] = p[heldFrom]
        BY <1>0, <3>1, Places
      <4>. QED
        BY <2>1, <4>1 DEF Ledger
    <3>. QED
      BY <2>2, <2>3, <3>1, <3>2, <3>3, <3>4 DEF Ledger
  <2>7. PacketCredit'
    BY DEF IInv, TypeOK, Credit, PacketCredit
  <2>. QED
    BY <2>2, <2>6, <2>7 DEF Credit, isStreamSpaceEnoughFor
<1>5. HeldByReaders'
  BY DEF IInv, HeldByReaders, Holders
<1>6. WriterWakeup'
  BY DEF IInv, TypeOK, WriterWakeup
<1>7. ReaderWakeup'
  BY DEF IInv, ReaderWakeup
<1>. QED
  BY <1>2, <1>3, <1>4, <1>5, <1>6, <1>7 DEF IInv

\* a packet moves from the wire to the stream: it keeps its place in the ledger
LEMMA HandleIncomingWriteIInv ==
    ASSUME IInv, handleIncomingWrite
    PROVE  IInv'
<1> USE DEF handleIncomingWrite, sender
<1>a. /\ writeWire \in Seq([writer : Writers, size : Sizes])
      /\ available \in Seq(Sizes) /\ rQueue \in Seq(Writers)
  BY DEF IInv, TypeOK
<1>b. /\ writeWire' \in Seq([writer : Writers, size : Sizes])
      /\ Len(writeWire) \in Nat /\ 0 < Len(writeWire) /\ Len(writeWire') = Len(writeWire) - 1
      /\ Head(writeWire) = writeWire[1]
      /\ \A i \in 1..(Len(writeWire) - 1) : writeWire'[i] = writeWire[i + 1]
      /\ DOMAIN writeWire = 1..Len(writeWire) /\ DOMAIN writeWire' = 1..(Len(writeWire) - 1)
  BY <1>a, HeadAndTail
<1>c. Head(writeWire).writer \in Writers /\ Head(writeWire).size \in Sizes
  <2>1. Head(writeWire) \in [writer : Writers, size : Sizes]
    BY <1>a, HeadAndTail
  <2>. QED
    BY <2>1
<1>d. /\ available' \in Seq(Sizes)
      /\ Len(available) \in Nat /\ Len(available') = Len(available) + 1
      /\ \A i \in 1..Len(available) : available'[i] = available[i]
      /\ available'[Len(available) + 1] = Head(writeWire).size
  BY <1>a, <1>c, Appended
<1>e. /\ rQueue' \in Seq(Writers)
      /\ Len(rQueue) \in Nat /\ Len(rQueue') = Len(rQueue) + 1
      /\ \A i \in 1..Len(rQueue) : rQueue'[i] = rQueue[i]
      /\ rQueue'[Len(rQueue) + 1] = Head(writeWire).writer
      /\ DOMAIN rQueue = 1..Len(rQueue) /\ DOMAIN rQueue' = 1..(Len(rQueue) + 1)
  BY <1>a, <1>c, Appended
<1>1. TypeOK'
  <2>1. localFillLevel' \in Nat
    <3>1. Head(writeWire).size \in Nat
      BY <1>c, SizeFits
    <3>. QED
      BY <3>1 DEF IInv, TypeOK
  <2>. QED
    BY <1>b, <1>d, <1>e, <2>1 DEF IInv, TypeOK
<1>2. RequestsPending'
  <2>1. \A i \in DOMAIN writeWire' : i + 1 \in DOMAIN writeWire /\ writeWire'[i] = writeWire[i+1]
    BY <1>b
  <2>2. \A i \in DOMAIN rQueue' :
            \/ (i \in DOMAIN rQueue /\ rQueue'[i] = rQueue[i])
            \/ (i = Len(rQueue) + 1 /\ rQueue'[i] = writeWire[1].writer)
    BY <1>b, <1>e
  <2>3. 1 \in DOMAIN writeWire
    BY <1>b
  <2>4. \A i \in DOMAIN writeWire' : wpc[writeWire'[i].writer] = "pending"
    BY <2>1 DEF IInv, RequestsPending
  <2>5. \A i \in DOMAIN rQueue' : wpc[rQueue'[i]] = "pending"
    BY <2>2, <2>3 DEF IInv, RequestsPending
  <2>6. \A i, j \in DOMAIN writeWire' : writeWire'[i].writer = writeWire'[j].writer => i = j
    <3>1. \A i, j \in DOMAIN writeWire' :
             writeWire'[i].writer = writeWire'[j].writer => i + 1 = j + 1
      BY <2>1 DEF IInv, RequestsPending
    <3>2. DOMAIN writeWire' \subseteq Nat
      BY <1>b
    <3>. QED
      BY <3>1, <3>2
  <2>7. \A i, j \in DOMAIN rQueue' : rQueue'[i] = rQueue'[j] => i = j
    BY <2>2, <2>3 DEF IInv, RequestsPending
  <2>8. \A i \in DOMAIN writeWire', j \in DOMAIN rQueue' : writeWire'[i].writer # rQueue'[j]
    <3>1. \A i \in DOMAIN writeWire' : writeWire'[i].writer # writeWire[1].writer
      <4>1. \A i \in DOMAIN writeWire' : i + 1 # 1
        BY <1>b
      <4>. QED
        BY <2>1, <2>3, <4>1 DEF IInv, RequestsPending
    <3>. QED
      BY <2>1, <2>2, <3>1 DEF IInv, RequestsPending
  <2>. QED
    BY <2>4, <2>5, <2>6, <2>7, <2>8 DEF IInv, RequestsPending
<1>3. Credit'
  <2>1. PICK p : Ledger(p)
    BY DEF IInv, Credit
  <2>2. /\ heldFrom' = heldFrom /\ storedFrom' = storedFrom
        /\ sentFrom' = sentFrom + 1 /\ sentFrom + 1 <= remoteFillPacketLevel
        /\ sentFrom = storedFrom + Len(available)
    BY <1>b, <1>d, Places DEF heldFrom, storedFrom, sentFrom
  <2>3. ASSUME NEW i \in 1..remoteFillPacketLevel PROVE SizeOf(i)' = SizeOf(i)
    <3>0. i \in Int /\ sentFrom \in Nat /\ storedFrom \in Nat /\ heldFrom \in Nat
      BY Places
    <3>1. CASE i <= storedFrom
      BY <2>2, <3>0, <3>1, Places DEF SizeOf
    <3>2. CASE storedFrom < i /\ i <= sentFrom
      <4>1. i - storedFrom \in 1..Len(available)
        BY <1>d, <2>2, <3>0, <3>2
      <4>2. available'[i - storedFrom] = available[i - storedFrom]
        BY <1>d, <4>1
      <4>3. ~(i <= heldFrom) /\ i <= sentFrom + 1
        BY <3>0, <3>2, Places
      <4>. QED
        BY <2>2, <3>0, <3>2, <4>2, <4>3 DEF SizeOf
    <3>3. CASE i = sentFrom + 1
      <4>1. i - storedFrom = Len(available) + 1 /\ i - sentFrom = 1
        BY <1>d, <2>2, <3>0, <3>3
      <4>2. ~(i <= heldFrom) /\ ~(i <= storedFrom) /\ ~(i <= sentFrom) /\ i <= sentFrom + 1
        BY <3>0, <3>3, Places
      <4>. QED
        BY <1>b, <1>d, <2>2, <4>1, <4>2 DEF SizeOf
    <3>4. CASE i > sentFrom + 1
      <4>1. i - (sentFrom + 1) \in 1..(Len(writeWire) - 1) /\ i - (sentFrom + 1) + 1 = i - sentFrom
        BY <1>b, <3>0, <3>4, Places
      <4>2. writeWire'[i - (sentFrom + 1)] = writeWire[i - sentFrom]
        BY <1>b, <4>1
      <4>3. ~(i <= heldFrom) /\ ~(i <= storedFrom) /\ ~(i <= sentFrom) /\ ~(i <= sentFrom + 1)
        BY <3>0, <3>4, Places
      <4>. QED
        BY <2>2, <4>2, <4>3 DEF SizeOf
    <3>. QED
      BY <3>0, <3>1, <3>2, <3>3, <3>4
  <2>4. Ledger(p)'
    <3>1. localFillLevel' = p[sentFrom + 1] - p[heldFrom]
      <4>0. PICK k \in Nat : k = sentFrom + 1
        BY Places
      <4>1. p[k] = p[sentFrom] + SizeOf(k)
        <5>1. k \in 1..remoteFillPacketLevel /\ k - 1 = sentFrom
          BY <2>2, <4>0, Places
        <5>2. p[k] = p[k-1] + SizeOf(k)
          BY <2>1, <5>1 DEF Ledger
        <5>. QED
          BY <5>1, <5>2
      <4>2. SizeOf(k) = Head(writeWire).size
        <5>1. k - sentFrom = 1 /\ ~(k <= heldFrom) /\ ~(k <= storedFrom) /\ ~(k <= sentFrom)
          BY <4>0, Places
        <5>. QED
          BY <1>b, <5>1 DEF SizeOf
      <4>3. /\ p[sentFrom] \in Nat /\ p[heldFrom] \in Nat /\ Head(writeWire).size \in Nat
            /\ localFillLevel = p[sentFrom] - p[heldFrom]
        BY <1>c, <2>1, Places, SizeFits DEF Ledger
      <4>. QED
        BY <4>0, <4>1, <4>2, <4>3
    <3>. QED
      BY <2>1, <2>2, <2>3, <3>1 DEF Ledger
  <2>5. PacketCredit'
    BY <1>b, <1>d DEF IInv, TypeOK, Credit, PacketCredit
  <2>. QED
    BY <2>4, <2>5 DEF IInv, Credit
<1>4. HeldByReaders'
  BY DEF IInv, HeldByReaders, Holders
<1>5. WriterWakeup'
  BY DEF IInv, WriterWakeup
<1>6. ReaderWakeup'
  <2>1. Cardinality(ReadyReaders) \in Nat
    BY HoldersFinite, FS_CardinalityType
  <2>. QED
    BY <1>d, <1>e, <2>1 DEF IInv, ReaderWakeup, ReadyReaders
<1>. QED
  BY <1>1, <1>2, <1>3, <1>4, <1>5, <1>6 DEF IInv

\* a packet moves from the stream to a reader's hands
LEMMA ServeReadIInv ==
    ASSUME IInv, NEW r \in Readers, ServeRead(r)
    PROVE  IInv'
<1> USE DEF ServeRead, sender
<1>a. available \in Seq(Sizes) /\ held \in Seq(Sizes) /\ rpc \in [Readers -> ReaderStates]
  BY DEF IInv, TypeOK
<1>b. /\ available' \in Seq(Sizes)
      /\ Len(available) \in Nat /\ 0 < Len(available) /\ Len(available') = Len(available) - 1
      /\ Head(available) = available[1] /\ Head(available) \in Sizes
      /\ \A i \in 1..(Len(available) - 1) : available'[i] = available[i + 1]
  BY <1>a, HeadAndTail
<1>c. /\ held' \in Seq(Sizes)
      /\ Len(held) \in Nat /\ Len(held') = Len(held) + 1
      /\ \A i \in 1..Len(held) : held'[i] = held[i]
      /\ held'[Len(held) + 1] = Head(available)
  BY <1>a, <1>b, Appended
<1>1. TypeOK'
  BY <1>b, <1>c DEF IInv, TypeOK, ReaderStates
<1>2. RequestsPending'
  BY <1>a DEF IInv, RequestsPending
<1>3. Credit'
  <2>1. PICK p : Ledger(p)
    BY DEF IInv, Credit
  <2>2. /\ heldFrom' = heldFrom /\ storedFrom' = storedFrom + 1
        /\ sentFrom' = sentFrom /\ storedFrom + 1 <= sentFrom
        /\ storedFrom = heldFrom + Len(held) /\ sentFrom = storedFrom + Len(available)
    BY <1>b, <1>c, Places DEF heldFrom, storedFrom, sentFrom
  <2>3. ASSUME NEW i \in 1..remoteFillPacketLevel PROVE SizeOf(i)' = SizeOf(i)
    <3>0. i \in Int /\ sentFrom \in Nat /\ storedFrom \in Nat /\ heldFrom \in Nat
      BY Places
    <3>1. CASE i <= heldFrom
      BY <2>2, <3>1 DEF SizeOf
    <3>2. CASE heldFrom < i /\ i <= storedFrom
      <4>0. storedFrom = heldFrom + Len(held) /\ Len(held) \in Nat
        BY <1>c, <2>2
      <4>1. i - heldFrom \in 1..Len(held) /\ ~(i <= heldFrom) /\ i <= storedFrom + 1
        BY <3>0, <3>2, <4>0
      <4>2. held'[i - heldFrom] = held[i - heldFrom]
        BY <1>c, <4>1
      <4>. QED
        BY <2>2, <3>2, <4>1, <4>2 DEF SizeOf
    <3>3. CASE i = storedFrom + 1
      <4>1. /\ i - heldFrom = Len(held) + 1 /\ i - storedFrom = 1
            /\ ~(i <= heldFrom) /\ ~(i <= storedFrom) /\ i <= storedFrom + 1 /\ i <= sentFrom
        BY <1>c, <2>2, <3>0, <3>3, Places
      <4>. QED
        BY <1>b, <1>c, <2>2, <4>1 DEF SizeOf
    <3>4. CASE storedFrom + 1 < i /\ i <= sentFrom
      <4>1. /\ i - (storedFrom + 1) \in 1..(Len(available) - 1)
            /\ i - (storedFrom + 1) + 1 = i - storedFrom
            /\ ~(i <= heldFrom) /\ ~(i <= storedFrom) /\ ~(i <= storedFrom + 1)
        BY <1>b, <2>2, <3>0, <3>4, Places
      <4>2. available'[i - (storedFrom + 1)] = available[i - storedFrom]
        BY <1>b, <4>1
      <4>. QED
        BY <2>2, <3>4, <4>1, <4>2 DEF SizeOf
    <3>5. CASE i > sentFrom
      <4>1. ~(i <= heldFrom) /\ ~(i <= storedFrom) /\ ~(i <= storedFrom + 1) /\ ~(i <= sentFrom)
        BY <2>2, <3>0, <3>5, Places
      <4>. QED
        BY <2>2, <4>1 DEF SizeOf
    <3>. QED
      BY <3>0, <3>1, <3>2, <3>3, <3>4, <3>5
  <2>4. Ledger(p)'
    BY <2>1, <2>2, <2>3 DEF Ledger
  <2>5. PacketCredit'
    BY <1>b, <1>c DEF IInv, TypeOK, Credit, PacketCredit
  <2>. QED
    BY <2>4, <2>5 DEF IInv, Credit
<1>4. HeldByReaders'
  <2>1. Holders' = Holders \cup {r} /\ r \notin Holders
    BY <1>a DEF Holders
  <2>2. Cardinality(Holders') = Cardinality(Holders) + 1
    BY <2>1, HoldersFinite, FS_AddElement
  <2>. QED
    BY <1>c, <2>2 DEF IInv, HeldByReaders
<1>5. WriterWakeup'
  BY DEF IInv, WriterWakeup
<1>6. ReaderWakeup'
  <2>1. ReadyReaders' = ReadyReaders \ {r}
    BY <1>a DEF ReadyReaders
  <2>2. /\ Cardinality(ReadyReaders) \in Nat /\ Cardinality(ReadyReaders') \in Nat
        /\ Cardinality(ReadyReaders) <= Cardinality(ReadyReaders') + 1
    <3>1. CASE r \in ReadyReaders
      <4>1. Cardinality(ReadyReaders') = Cardinality(ReadyReaders) - 1
        BY <2>1, <3>1, HoldersFinite, FS_RemoveElement
      <4>2. Cardinality(ReadyReaders) \in Nat /\ IsFiniteSet(ReadyReaders')
        BY <2>1, HoldersFinite, FS_CardinalityType, FS_RemoveElement
      <4>3. Cardinality(ReadyReaders') \in Nat
        BY <4>2, FS_CardinalityType
      <4>. QED
        BY <4>1, <4>2, <4>3
    <3>2. CASE r \notin ReadyReaders
      <4>1. ReadyReaders' = ReadyReaders
        BY <2>1, <3>2
      <4>2. Cardinality(ReadyReaders) \in Nat
        BY HoldersFinite, FS_CardinalityType
      <4>. QED
        BY <4>1, <4>2
    <3>. QED
      BY <3>1, <3>2
  <2>3. (\E s \in Readers : rpc'[s] = "blocked") => \E s \in Readers : rpc[s] = "blocked"
    BY <1>a
  <2>4. Len(rQueue') = Len(rQueue) /\ Len(rQueue) \in Nat
    BY DEF IInv, TypeOK
  <2>. QED
    BY <1>b, <2>2, <2>3, <2>4 DEF IInv, ReaderWakeup, ReadyReaders
<1>. QED
  BY <1>1, <1>2, <1>3, <1>4, <1>5, <1>6 DEF IInv

\* a packet leaves a reader's hands and its credit starts on its way back
LEMMA ServeReleaseIInv ==
    ASSUME IInv, NEW r \in Readers, ServeRelease(r)
    PROVE  IInv'
<1> USE DEF ServeRelease, sender
<1>0. PICK size \in Sizes : size = Head(held) /\ size \in Nat
  <2>1. Head(held) \in Sizes
    BY HeadAndTail DEF IInv, TypeOK
  <2>. QED
    BY <2>1, SizeFits
<1>a. /\ held \in Seq(Sizes) /\ rpc \in [Readers -> ReaderStates]
      /\ relWire \in Seq([reader : Readers, size : Sizes])
  BY DEF IInv, TypeOK
<1>b. /\ held' \in Seq(Sizes)
      /\ Len(held) \in Nat /\ 0 < Len(held) /\ Len(held') = Len(held) - 1
      /\ size = held[1]
      /\ \A i \in 1..(Len(held) - 1) : held'[i] = held[i + 1]
  BY <1>0, <1>a, HeadAndTail
<1>c. /\ relWire' \in Seq([reader : Readers, size : Sizes])
      /\ Len(relWire) \in Nat /\ Len(relWire') = Len(relWire) + 1
      /\ \A i \in 1..Len(relWire) : relWire'[i] = relWire[i]
      /\ relWire'[Len(relWire) + 1] = [reader |-> r, size |-> size]
      /\ DOMAIN relWire = 1..Len(relWire) /\ DOMAIN relWire' = 1..(Len(relWire) + 1)
  <2>1. [reader |-> r, size |-> size] \in [reader : Readers, size : Sizes]
    OBVIOUS
  <2>2. relWire' = Append(relWire, [reader |-> r, size |-> size])
    BY <1>0
  <2>. QED
    BY <1>a, <2>1, <2>2, Appended
<1>1. Credit' /\ localFillLevel' \in Nat
  <2>1. PICK p : Ledger(p)
    BY DEF IInv, Credit
  <2>2. /\ heldFrom' = heldFrom + 1 /\ storedFrom' = storedFrom
        /\ sentFrom' = sentFrom /\ heldFrom + 1 <= storedFrom
        /\ storedFrom = heldFrom + Len(held) /\ heldFrom = Len(relWire)
    BY <1>b, <1>c, Places DEF heldFrom, storedFrom, sentFrom
  <2>3. ASSUME NEW i \in 1..remoteFillPacketLevel PROVE SizeOf(i)' = SizeOf(i)
    <3>0. i \in Int /\ sentFrom \in Nat /\ storedFrom \in Nat /\ heldFrom \in Nat
      BY Places
    <3>1. CASE i <= heldFrom
      <4>1. i \in 1..Len(relWire) /\ i <= heldFrom + 1
        BY <1>c, <2>2, <3>0, <3>1
      <4>2. relWire'[i] = relWire[i]
        BY <1>c, <4>1
      <4>. QED
        BY <2>2, <3>1, <4>1, <4>2 DEF SizeOf
    <3>2. CASE i = heldFrom + 1
      <4>1. /\ i = Len(relWire) + 1 /\ i - heldFrom = 1
            /\ ~(i <= heldFrom) /\ i <= heldFrom + 1 /\ i <= storedFrom
        BY <1>c, <2>2, <3>0, <3>2, Places
      <4>. QED
        BY <1>b, <1>c, <2>2, <4>1 DEF SizeOf
    <3>3. CASE heldFrom + 1 < i /\ i <= storedFrom
      <4>1. /\ i - (heldFrom + 1) \in 1..(Len(held) - 1)
            /\ i - (heldFrom + 1) + 1 = i - heldFrom
            /\ ~(i <= heldFrom) /\ ~(i <= heldFrom + 1)
        BY <1>b, <2>2, <3>0, <3>3, Places
      <4>2. held'[i - (heldFrom + 1)] = held[i - heldFrom]
        BY <1>b, <4>1
      <4>. QED
        BY <2>2, <3>3, <4>1, <4>2 DEF SizeOf
    <3>4. CASE i > storedFrom
      <4>1. ~(i <= heldFrom) /\ ~(i <= storedFrom) /\ ~(i <= heldFrom + 1)
        BY <2>2, <3>0, <3>4, Places
      <4>. QED
        BY <2>2, <4>1 DEF SizeOf
    <3>. QED
      BY <3>0, <3>1, <3>2, <3>3, <3>4
  <2>4. localFillLevel' = p[sentFrom] - p[heldFrom + 1] /\ localFillLevel' \in Nat
    <3>0. PICK k \in Nat : k = heldFrom + 1
      BY Places
    <3>1. p[k] = p[heldFrom] + SizeOf(k)
      <4>1. k \in 1..remoteFillPacketLevel /\ k - 1 = heldFrom
        BY <2>2, <3>0, Places
      <4>2. p[k] = p[k-1] + SizeOf(k)
        BY <2>1, <4>1 DEF Ledger
      <4>. QED
        BY <4>1, <4>2
    <3>2. SizeOf(k) = size
      <4>1. k - heldFrom = 1 /\ ~(k <= heldFrom) /\ k <= storedFrom
        BY <2>2, <3>0, Places
      <4>. QED
        BY <1>b, <4>1 DEF SizeOf
    <3>3. /\ p[sentFrom] \in Nat /\ p[heldFrom] \in Nat /\ p[k] \in Nat /\ p[k] <= p[sentFrom]
          /\ localFillLevel = p[sentFrom] - p[heldFrom]
      <4>1. /\ k \in 0..remoteFillPacketLevel /\ sentFrom \in 0..remoteFillPacketLevel
            /\ heldFrom \in 0..remoteFillPacketLevel /\ k <= sentFrom
        BY <2>2, <3>0, Places
      <4>. QED
        BY <2>1, <4>1 DEF Ledger
    <3>. QED
      BY <1>0, <3>0, <3>1, <3>2, <3>3
  <2>5. Ledger(p)'
    BY <2>1, <2>2, <2>3, <2>4 DEF Ledger
  <2>6. PacketCredit'
    BY <1>b, <1>c DEF IInv, TypeOK, Credit, PacketCredit
  <2>. QED
    BY <2>4, <2>5, <2>6 DEF IInv, Credit
<1>2. TypeOK'
  BY <1>b, <1>c, <1>1 DEF IInv, TypeOK, ReaderStates
<1>3. RequestsPending'
  <2>1. \A i \in DOMAIN relWire' :
            \/ (i \in DOMAIN relWire /\ relWire'[i] = relWire[i])
            \/ (i = Len(relWire) + 1 /\ relWire'[i].reader = r)
    BY <1>c
  <2>2. \A i \in DOMAIN relWire : relWire[i].reader # r
    BY DEF IInv, RequestsPending
  <2>3. \A i \in DOMAIN relWire' : rpc'[relWire'[i].reader] = "relPending"
    BY <1>a, <2>1, <2>2 DEF IInv, RequestsPending
  <2>4. \A i, j \in DOMAIN relWire' : relWire'[i].reader = relWire'[j].reader => i = j
    BY <2>1, <2>2 DEF IInv, RequestsPending
  <2>. QED
    BY <2>3, <2>4 DEF IInv, RequestsPending
<1>4. HeldByReaders'
  <2>1. Holders' = Holders \ {r} /\ r \in Holders
    BY <1>a DEF Holders
  <2>2. Cardinality(Holders') = Cardinality(Holders) - 1
    BY <2>1, HoldersFinite, FS_RemoveElement
  <2>. QED
    BY <1>b, <2>2 DEF IInv, HeldByReaders
<1>5. WriterWakeup'
  BY DEF IInv, WriterWakeup
<1>6. ReaderWakeup'
  <2>1. ReadyReaders' = ReadyReaders
    BY <1>a DEF ReadyReaders
  <2>2. (\E s \in Readers : rpc'[s] = "blocked") => \E s \in Readers : rpc[s] = "blocked"
    BY <1>a
  <2>. QED
    BY <2>1, <2>2 DEF IInv, ReaderWakeup, ReadyReaders
<1>. QED
  BY <1>1, <1>2, <1>3, <1>4, <1>5, <1>6 DEF IInv

\* the dispatcher of the receiver wakes a read and answers the writer, which is
\* the one that has been waiting
LEMMA RemoteWriteIInv ==
    ASSUME IInv, RemoteWrite
    PROVE  IInv'
<1> USE DEF RemoteWrite
<1>a. /\ rQueue \in Seq(Writers) /\ wpc \in [Writers -> WriterStates]
      /\ rpc \in [Readers -> ReaderStates]
  BY DEF IInv, TypeOK
<1>0. PICK w \in Writers : w = Head(rQueue)
  BY <1>a, HeadAndTail
<1>b. /\ rQueue' \in Seq(Writers)
      /\ Len(rQueue) \in Nat /\ 0 < Len(rQueue) /\ Len(rQueue') = Len(rQueue) - 1
      /\ w = rQueue[1]
      /\ \A i \in 1..(Len(rQueue) - 1) : rQueue'[i] = rQueue[i + 1]
      /\ DOMAIN rQueue = 1..Len(rQueue) /\ DOMAIN rQueue' = 1..(Len(rQueue) - 1)
  BY <1>0, <1>a, HeadAndTail
<1>c. wpc' = [wpc EXCEPT ![w] = "acked"] /\ wpc[w] = "pending"
  BY <1>0, <1>b DEF IInv, RequestsPending
\* what dispatcherUnblockEvent does to the readers
<1>d. /\ rpc' \in [Readers -> ReaderStates]
      /\ \A r \in Readers : rpc'[r] = rpc[r] \/ (rpc[r] = "blocked" /\ rpc'[r] = "ready")
  BY <1>a DEF UnblockRead, ReaderStates
<1>1. TypeOK'
  BY <1>a, <1>b, <1>c, <1>d DEF IInv, TypeOK, WriterStates
<1>2. RequestsPending'
  <2>1. \A i \in DOMAIN rQueue' : i + 1 \in DOMAIN rQueue /\ rQueue'[i] = rQueue[i+1] /\ i + 1 # 1
    BY <1>b
  <2>2. 1 \in DOMAIN rQueue
    BY <1>b
  <2>3. \A i \in DOMAIN rQueue' : rQueue'[i] # w /\ wpc[rQueue'[i]] = "pending"
    BY <1>b, <2>1, <2>2 DEF IInv, RequestsPending
  <2>4. \A i \in DOMAIN writeWire : writeWire[i].writer # w
    BY <1>b, <2>2 DEF IInv, RequestsPending
  <2>5. /\ \A i \in DOMAIN writeWire : writeWire[i].writer \in Writers
        /\ \A i \in DOMAIN rQueue' : rQueue'[i] \in Writers
    BY <1>b, MessageTypes, ElementType
  <2>6. /\ \A i \in DOMAIN writeWire' : wpc'[writeWire'[i].writer] = "pending"
        /\ \A i \in DOMAIN rQueue' : wpc'[rQueue'[i]] = "pending"
    BY <1>a, <1>c, <2>3, <2>4, <2>5 DEF IInv, RequestsPending
  <2>7. \A i, j \in DOMAIN rQueue' : rQueue'[i] = rQueue'[j] => i = j
    <3>1. \A i, j \in DOMAIN rQueue' : rQueue'[i] = rQueue'[j] => i + 1 = j + 1
      BY <2>1 DEF IInv, RequestsPending
    <3>2. DOMAIN rQueue' \subseteq Nat
      BY <1>b
    <3>. QED
      BY <3>1, <3>2
  <2>8. \A i \in DOMAIN writeWire', j \in DOMAIN rQueue' : writeWire'[i].writer # rQueue'[j]
    BY <2>1 DEF IInv, RequestsPending
  <2>9. \A i \in DOMAIN relWire' : rpc'[relWire'[i].reader] = "relPending"
    <3>1. \A i \in DOMAIN relWire : relWire[i].reader \in Readers
      BY MessageTypes
    <3>. QED
      BY <1>d, <3>1 DEF IInv, RequestsPending
  <2>. QED
    BY <2>6, <2>7, <2>8, <2>9 DEF IInv, RequestsPending
<1>3. Credit'
  BY SameCredit DEF LedgerVars
<1>4. HeldByReaders'
  <2>1. Holders' = Holders
    BY <1>d DEF Holders
  <2>. QED
    BY <2>1 DEF IInv, HeldByReaders
<1>5. WriterWakeup'
  <2>1. \A v \in Writers : wpc'[v] = "blocked" => wpc[v] = "blocked"
    BY <1>a, <1>c
  <2>2. \A v \in Writers : wpc[v] = "ready" => wpc'[v] = "ready"
    BY <1>a, <1>c
  <2>. QED
    BY <2>1, <2>2 DEF IInv, WriterWakeup
<1>6. ReaderWakeup'
  <2>1. CASE \E r \in Readers : rpc[r] = "blocked"
    <3>0. PICK r \in Readers : rpc[r] = "blocked" /\ rpc' = [rpc EXCEPT ![r] = "ready"]
      BY <2>1 DEF UnblockRead
    <3>1. ReadyReaders' = ReadyReaders \cup {r} /\ r \notin ReadyReaders
      BY <1>a, <3>0 DEF ReadyReaders
    <3>2. Cardinality(ReadyReaders') = Cardinality(ReadyReaders) + 1
      BY <3>1, HoldersFinite, FS_AddElement
    <3>3. Cardinality(ReadyReaders) \in Nat
      BY HoldersFinite, FS_CardinalityType
    <3>. QED
      BY <1>b, <2>1, <3>2, <3>3 DEF IInv, ReaderWakeup, ReadyReaders
  <2>2. CASE ~\E r \in Readers : rpc[r] = "blocked"
    BY <1>d, <2>2 DEF ReaderWakeup
  <2>. QED
    BY <2>1, <2>2
<1>. QED
  BY <1>1, <1>2, <1>3, <1>4, <1>5, <1>6 DEF IInv

\* prefix sums without the first summand
LEMMA PrefixTail ==
    ASSUME NEW n \in Nat, n > 0, NEW p \in [0..n -> Nat],
           \A i, j \in 0..n : i <= j => p[i] <= p[j]
    PROVE  LET q == [i \in 0..(n-1) |-> p[i+1] - p[1]]
           IN  /\ q \in [0..(n-1) -> Nat]
               /\ \A i \in 0..(n-1) : q[i] = p[i+1] - p[1] /\ p[i+1] \in Nat
               /\ \A i, j \in 0..(n-1) : i <= j => q[i] <= q[j]
<1> DEFINE q == [i \in 0..(n-1) |-> p[i+1] - p[1]]
<1>1. \A i \in 0..(n-1) : i + 1 \in 0..n /\ 1 \in 0..n /\ 1 <= i + 1
  OBVIOUS
<1>2. \A i \in 0..(n-1) : p[i+1] \in Nat /\ p[1] \in Nat /\ p[1] <= p[i+1]
  BY <1>1
<1>3. \A i \in 0..(n-1) : p[i+1] - p[1] \in Nat
  BY <1>2
<1>4. q \in [0..(n-1) -> Nat]
  BY <1>3
<1>5. \A i \in 0..(n-1) : q[i] = p[i+1] - p[1]
  OBVIOUS
<1>6. ASSUME NEW i \in 0..(n-1), NEW j \in 0..(n-1), i <= j PROVE q[i] <= q[j]
  <2>1. i + 1 <= j + 1
    BY <1>6
  <2>2. p[i+1] <= p[j+1]
    BY <1>1, <2>1
  <2>3. q[i] = p[i+1] - p[1] /\ q[j] = p[j+1] - p[1]
    BY <1>5
  <2>. QED
    BY <1>2, <2>2, <2>3
<1>. QED
  BY <1>2, <1>4, <1>5, <1>6

\* the credit of the oldest packet comes back and one blocked write is woken
LEMMA RemoteReleaseIInv ==
    ASSUME IInv, RemoteRelease
    PROVE  IInv'
<1> USE DEF RemoteRelease
<1>a. /\ relWire \in Seq([reader : Readers, size : Sizes])
      /\ wpc \in [Writers -> WriterStates] /\ rpc \in [Readers -> ReaderStates]
  BY DEF IInv, TypeOK
<1>b. /\ relWire' \in Seq([reader : Readers, size : Sizes])
      /\ Len(relWire) \in Nat /\ 0 < Len(relWire) /\ Len(relWire') = Len(relWire) - 1
      /\ Head(relWire) = relWire[1] /\ relWire[1] \in [reader : Readers, size : Sizes]
      /\ \A i \in 1..(Len(relWire) - 1) : relWire'[i] = relWire[i + 1]
      /\ DOMAIN relWire = 1..Len(relWire) /\ DOMAIN relWire' = 1..(Len(relWire) - 1)
  BY <1>a, HeadAndTail
<1>0. PICK size \in Sizes, r \in Readers :
          relWire[1].size = size /\ relWire[1].reader = r /\ size \in Nat
  BY <1>b, SizeFits
<1>c. rpc' = [rpc EXCEPT ![r] = "relAcked"] /\ rpc[r] = "relPending"
  <2>1. rpc' = [rpc EXCEPT ![r] = "relAcked"]
    BY <1>0, <1>b
  <2>2. 1 \in DOMAIN relWire
    BY <1>b
  <2>3. rpc[relWire[1].reader] = "relPending"
    BY <2>2 DEF IInv, RequestsPending
  <2>. QED
    BY <1>0, <2>1, <2>3
\* what dispatcherUnblockEvent does to the writers
<1>d. /\ wpc' \in [Writers -> WriterStates]
      /\ \A w \in Writers : wpc'[w] = wpc[w] \/ (wpc[w] = "blocked" /\ wpc'[w] = "ready")
  BY <1>a DEF UnblockWrite, WriterStates
<1>1. Credit' /\ remoteFillLevel' \in Nat /\ remoteFillPacketLevel' \in Nat
  <2>0. PICK n \in Nat : n = remoteFillPacketLevel /\ n > 0
    BY <1>b, Places DEF IInv, TypeOK, heldFrom
  <2>1. PICK p : Ledger(p)
    BY DEF IInv, Credit
  <2> DEFINE q == [i \in 0..(n-1) |-> p[i+1] - p[1]]
  <2>2. /\ p \in [0..n -> Nat] /\ \A i, j \in 0..n : i <= j => p[i] <= p[j]
    BY <2>0, <2>1 DEF Ledger
  <2>3. /\ q \in [0..(n-1) -> Nat]
        /\ \A i \in 0..(n-1) : q[i] = p[i+1] - p[1] /\ p[i+1] \in Nat
        /\ \A i, j \in 0..(n-1) : i <= j => q[i] <= q[j]
    BY <2>0, <2>2, PrefixTail
  <2> HIDE DEF q
  <2>4. p[1] = size
    <3>1. 1 \in 1..n /\ 1 - 1 = 0
      BY <2>0
    <3>2. p[1] = p[0] + SizeOf(1) /\ p[0] = 0
      BY <2>0, <2>1, <3>1 DEF Ledger
    <3>3. SizeOf(1) = size
      BY <1>0, <1>b DEF SizeOf, heldFrom
    <3>. QED
      BY <1>0, <3>2, <3>3
  <2>5. /\ remoteFillPacketLevel' = n - 1 /\ n - 1 \in Nat
        /\ heldFrom' = heldFrom - 1 /\ storedFrom' = storedFrom - 1 /\ sentFrom' = sentFrom - 1
        /\ heldFrom = Len(relWire) /\ 0 < heldFrom
        /\ storedFrom = heldFrom + Len(held) /\ sentFrom = storedFrom + Len(available)
    BY <1>b, <2>0, Places DEF IInv, TypeOK, heldFrom, storedFrom, sentFrom
  <2>6. ASSUME NEW i \in 1..(n-1), NEW k \in 1..n, k = i + 1 PROVE SizeOf(i)' = SizeOf(k)
    <3>0. /\ i \in Int /\ k \in Int /\ sentFrom \in Nat /\ storedFrom \in Nat /\ heldFrom \in Nat
          /\ heldFrom <= storedFrom /\ storedFrom <= sentFrom
      BY <2>0, Places
    <3>1. CASE k <= heldFrom
      <4>1. i \in 1..(Len(relWire) - 1) /\ i <= heldFrom - 1
        BY <2>5, <2>6, <3>0, <3>1
      <4>2. relWire'[i] = relWire[k]
        BY <1>b, <2>6, <4>1
      <4>. QED
        BY <2>5, <3>1, <4>1, <4>2 DEF SizeOf
    <3>2. CASE heldFrom < k /\ k <= storedFrom
      <4>1. /\ i - (heldFrom - 1) = k - heldFrom /\ ~(i <= heldFrom - 1) /\ i <= storedFrom - 1
            /\ ~(k <= heldFrom)
        BY <2>6, <3>0, <3>2
      <4>. QED
        BY <2>5, <3>2, <4>1 DEF SizeOf
    <3>3. CASE storedFrom < k /\ k <= sentFrom
      <4>1. /\ i - (storedFrom - 1) = k - storedFrom
            /\ ~(i <= heldFrom - 1) /\ ~(i <= storedFrom - 1) /\ i <= sentFrom - 1
            /\ ~(k <= heldFrom) /\ ~(k <= storedFrom)
        BY <2>6, <3>0, <3>3
      <4>. QED
        BY <2>5, <3>3, <4>1 DEF SizeOf
    <3>4. CASE sentFrom < k
      <4>1. /\ i - (sentFrom - 1) = k - sentFrom
            /\ ~(i <= heldFrom - 1) /\ ~(i <= storedFrom - 1) /\ ~(i <= sentFrom - 1)
            /\ ~(k <= heldFrom) /\ ~(k <= storedFrom) /\ ~(k <= sentFrom)
        BY <2>6, <3>0, <3>4
      <4>. QED
        BY <2>5, <4>1 DEF SizeOf
    <3>. QED
      BY <3>0, <3>1, <3>2, <3>3, <3>4
  <2>7. ASSUME NEW i \in 1..(n-1) PROVE q[i] = q[i-1] + SizeOf(i)'
    <3>0. PICK k \in 1..n : k = i + 1
      BY <2>0
    <3>1. p[k] = p[i] + SizeOf(k)
      <4>1. k - 1 = i
        BY <2>0, <3>0
      <4>2. p[k] = p[k-1] + SizeOf(k)
        BY <2>0, <2>1 DEF Ledger
      <4>. QED
        BY <4>1, <4>2
    <3>2. q[i] = p[k] - p[1] /\ q[i-1] = p[i] - p[1]
      <4>1. i \in 0..(n-1) /\ i - 1 \in 0..(n-1) /\ i - 1 + 1 = i
        BY <2>0
      <4>. QED
        BY <2>3, <3>0, <4>1
    <3>3. p[i] \in Nat /\ p[k] \in Nat /\ p[1] \in Nat
      BY <2>0, <2>2
    <3>4. SizeOf(k) \in Nat
      BY <2>0, SizeOfType
    <3>5. SizeOf(i)' = SizeOf(k)
      BY <2>6, <3>0
    <3>. QED
      BY <3>1, <3>2, <3>3, <3>4, <3>5
  <2>8. /\ q[0] = 0 /\ remoteFillLevel' = q[n-1] /\ remoteFillLevel' \in Nat
        /\ localFillLevel' = q[sentFrom - 1] - q[heldFrom - 1]
        /\ remoteFillLevel' <= WriteSize
    <3>1. q[0] = 0
      <4>1. 0 \in 0..(n-1) /\ 0 + 1 = 1
        BY <2>0
      <4>. QED
        BY <1>0, <2>3, <2>4, <4>1
    <3>2. remoteFillLevel' = q[n-1] /\ remoteFillLevel' \in Nat
      <4>1. n - 1 \in 0..(n-1) /\ n - 1 + 1 = n
        BY <2>0
      <4>2. q[n-1] = p[n] - p[1] /\ q[n-1] \in Nat
        BY <2>3, <4>1
      <4>3. remoteFillLevel = p[n]
        BY <2>0, <2>1 DEF Ledger
      <4>. QED
        BY <1>0, <1>b, <2>4, <4>2, <4>3
    <3>3. localFillLevel' = q[sentFrom - 1] - q[heldFrom - 1]
      <4>1. /\ sentFrom - 1 \in 0..(n-1) /\ sentFrom - 1 + 1 = sentFrom
            /\ heldFrom - 1 \in 0..(n-1) /\ heldFrom - 1 + 1 = heldFrom
            /\ sentFrom \in 0..n /\ heldFrom \in 0..n /\ 1 \in 0..n
        BY <2>0, <2>5, Places
      <4>2. q[sentFrom - 1] = p[sentFrom] - p[1] /\ q[heldFrom - 1] = p[heldFrom] - p[1]
        BY <2>3, <4>1
      <4>3. p[sentFrom] \in Nat /\ p[heldFrom] \in Nat /\ p[1] \in Nat
        BY <2>2, <4>1
      <4>4. localFillLevel' = p[sentFrom] - p[heldFrom]
        BY <2>1 DEF Ledger
      <4>. QED
        BY <4>2, <4>3, <4>4
    <3>4. remoteFillLevel' <= WriteSize
      <4>1. remoteFillLevel' = remoteFillLevel - size
        BY <1>0, <1>b
      <4>2. remoteFillLevel \in Nat /\ remoteFillLevel <= WriteSize
        BY DEF IInv, TypeOK, Credit
      <4>. QED
        BY <1>0, <4>1, <4>2, SizeAssumption
    <3>. QED
      BY <3>1, <3>2, <3>3, <3>4
  <2>9. Ledger(q)'
    BY <2>3, <2>5, <2>7, <2>8 DEF Ledger
  <2>10. PacketCredit' /\ remoteFillPacketLevel' <= MaxPackets
    <3>1. /\ Len(writeWire) \in Nat /\ Len(available) \in Nat /\ Len(held) \in Nat
          /\ n <= MaxPackets /\ PacketCredit
      BY <2>0 DEF IInv, TypeOK, Credit
    <3>. QED
      BY <1>b, <2>0, <2>5, <3>1, SizeAssumption DEF PacketCredit
  <2>. QED
    BY <2>5, <2>8, <2>9, <2>10 DEF Credit
<1>2. TypeOK'
  <2>1. \A w \in Writers : wpc'[w] # "idle" => wsize'[w] \in Sizes
    BY <1>d DEF IInv, TypeOK
  <2>2. rpc' \in [Readers -> ReaderStates]
    BY <1>a, <1>c DEF ReaderStates
  <2>. QED
    BY <1>b, <1>d, <1>1, <2>1, <2>2 DEF IInv, TypeOK
<1>3. RequestsPending'
  <2>1. \A i \in DOMAIN relWire' : i + 1 \in DOMAIN relWire /\ relWire'[i] = relWire[i+1] /\ i + 1 # 1
    BY <1>b
  <2>2. 1 \in DOMAIN relWire
    BY <1>b
  <2>3. \A i \in DOMAIN relWire' : relWire'[i].reader # r /\ rpc[relWire'[i].reader] = "relPending"
    BY <1>0, <2>1, <2>2 DEF IInv, RequestsPending
  <2>4. \A i \in DOMAIN relWire' : relWire'[i].reader \in Readers
    BY <2>1, MessageTypes
  <2>5. \A i \in DOMAIN relWire' : rpc'[relWire'[i].reader] = "relPending"
    BY <1>a, <1>c, <2>3, <2>4
  <2>6. ASSUME NEW i \in DOMAIN relWire', NEW j \in DOMAIN relWire',
               relWire'[i].reader = relWire'[j].reader
        PROVE  i = j
    <3>1. i + 1 = j + 1
      BY <2>1, <2>6 DEF IInv, RequestsPending
    <3>2. i \in Int /\ j \in Int
      BY <1>b
    <3>. QED
      BY <3>1, <3>2
  <2>7. /\ \A i \in DOMAIN writeWire : writeWire[i].writer \in Writers
        /\ \A i \in DOMAIN rQueue : rQueue[i] \in Writers
    BY MessageTypes, ElementType DEF IInv, TypeOK
  <2>8. /\ \A i \in DOMAIN writeWire' : wpc'[writeWire'[i].writer] = "pending"
        /\ \A i \in DOMAIN rQueue' : wpc'[rQueue'[i]] = "pending"
    BY <1>d, <2>7 DEF IInv, RequestsPending
  <2>. QED
    BY <2>5, <2>6, <2>8 DEF IInv, RequestsPending
<1>4. HeldByReaders'
  <2>1. Holders' = Holders
    BY <1>a, <1>c DEF Holders
  <2>. QED
    BY <2>1 DEF IInv, HeldByReaders
<1>5. WriterWakeup'
  <2>1. CASE \E w \in Writers : wpc[w] = "blocked"
    BY <1>a, <2>1 DEF UnblockWrite, WriterWakeup
  <2>2. CASE ~\E w \in Writers : wpc[w] = "blocked"
    BY <1>d, <2>2 DEF WriterWakeup
  <2>. QED
    BY <2>1, <2>2
<1>6. ReaderWakeup'
  <2>1. ReadyReaders' = ReadyReaders
    BY <1>a, <1>c DEF ReadyReaders
  <2>2. (\E s \in Readers : rpc'[s] = "blocked") => \E s \in Readers : rpc[s] = "blocked"
    BY <1>a, <1>c
  <2>. QED
    BY <2>1, <2>2 DEF IInv, ReaderWakeup, ReadyReaders
<1>. QED
  BY <1>1, <1>2, <1>3, <1>4, <1>5, <1>6 DEF IInv

-----------------------------------------------------------------------------
(* The theorems *)

LEMMA NextIInv == IInv /\ [Next]_vars => IInv'
<1> SUFFICES ASSUME IInv, [Next]_vars PROVE IInv'
  OBVIOUS
<1>1. ASSUME NEW w \in Writers, NEW size \in Sizes, XLinkWriteData(w, size) PROVE IInv'
  BY <1>1, XLinkWriteDataIInv
<1>2. ASSUME NEW w \in Writers, SenderStep(w) PROVE IInv'
  BY <1>2, SendWriteIInv, BlockWriteIInv, WriteResponseIInv DEF SenderStep
<1>3. CASE RemoteRelease
  BY <1>3, RemoteReleaseIInv
<1>4. CASE handleIncomingWrite
  BY <1>4, HandleIncomingWriteIInv
<1>5. CASE RemoteWrite
  BY <1>5, RemoteWriteIInv
<1>6. ASSUME NEW r \in Readers, XLinkReadData(r) \/ XLinkReleaseData(r) PROVE IInv'
  BY <1>6, XLinkReadDataIInv, XLinkReleaseDataIInv
<1>7. ASSUME NEW r \in Readers, ReaderStep(r) PROVE IInv'
  BY <1>7, ServeReadIInv, BlockReadIInv, ServeReleaseIInv, ReleaseResponseIInv DEF ReaderStep
<1>8. CASE UNCHANGED vars
  <2> USE <1>8 DEF vars, sender, receiver
  <2>1. TypeOK' /\ RequestsPending' /\ HeldByReaders' /\ WriterWakeup' /\ ReaderWakeup'
    BY DEF IInv, TypeOK, RequestsPending, HeldByReaders, Holders, WriterWakeup, ReaderWakeup
  <2>2. Credit'
    BY SameCredit DEF LedgerVars
  <2>. QED
    BY <2>1, <2>2 DEF IInv
<1>. QED
  BY <1>1, <1>2, <1>3, <1>4, <1>5, <1>6, <1>7, <1>8 DEF Next

LEMMA InvariantHolds == Spec => []IInv
BY InitIInv, NextIInv, PTL DEF Spec

\* Every variable keeps its type; in particular no fill level becomes negative.
THEOREM TypeCorrect == Spec => []TypeOK
<1>1. IInv => TypeOK
  BY DEF IInv
<1>. QED
  BY <1>1, InvariantHolds, PTL

\* The sender's packet count is exactly the number of packets outstanding.
THEOREM CreditConserved == Spec => []PacketCredit
<1>1. IInv => PacketCredit
  BY DEF IInv, Credit
<1>. QED
  BY <1>1, InvariantHolds, PTL

\* The fill levels of both peers stay in range, so that the unsigned counters of
\* the code never wrap, and the buffer the stream was created with suffices.
THEOREM FillLevelsCorrect == Spec => []FillLevelsInRange
<1>1. ASSUME IInv PROVE FillLevelsInRange
  <2>1. PICK p : Ledger(p)
    BY <1>1 DEF IInv, Credit
  <2>2. /\ heldFrom \in 0..remoteFillPacketLevel /\ sentFrom \in 0..remoteFillPacketLevel
        /\ remoteFillPacketLevel \in 0..remoteFillPacketLevel
        /\ heldFrom <= sentFrom /\ sentFrom <= remoteFillPacketLevel
    BY <1>1, Places
  <2>3. /\ p[heldFrom] \in Nat /\ p[sentFrom] \in Nat /\ p[remoteFillPacketLevel] \in Nat
        /\ p[heldFrom] <= p[sentFrom] /\ p[sentFrom] <= p[remoteFillPacketLevel]
    BY <2>1, <2>2 DEF Ledger
  <2>4. localFillLevel = p[sentFrom] - p[heldFrom] /\ remoteFillLevel = p[remoteFillPacketLevel]
    BY <2>1 DEF Ledger
  <2>5. remoteFillLevel <= WriteSize
    BY <1>1 DEF IInv, Credit
  <2>. QED
    BY <2>3, <2>4, <2>5 DEF FillLevelsInRange
<1>. QED
  BY <1>1, InvariantHolds, PTL

\* The receiver has a free place for every packet that arrives: the assert(0) of
\* handleIncomingEvent is unreachable.
THEOREM OverflowImpossible == Spec => []NoStreamOverflow
<1>1. ASSUME IInv PROVE NoStreamOverflow
  <2>1. SUFFICES ASSUME writeWire # <<>>
                 PROVE  Len(available) + Len(held) < MaxPackets
    BY DEF NoStreamOverflow
  <2>2. /\ Len(writeWire) \in Nat /\ Len(writeWire) > 0 /\ Len(relWire) \in Nat
        /\ Len(available) \in Nat /\ Len(held) \in Nat
    BY <1>1, <2>1, HeadAndTail DEF IInv, TypeOK
  <2>3. /\ remoteFillPacketLevel <= MaxPackets
        /\ remoteFillPacketLevel = Len(writeWire) + Len(available) + Len(held) + Len(relWire)
    BY <1>1 DEF IInv, Credit, PacketCredit
  <2>. QED
    BY <2>2, <2>3, SizeAssumption
<1>. QED
  BY <1>1, InvariantHolds, PTL

\* A release always finds a packet: the size sent to the peer is initialised.
THEOREM ReleaseFindsPacket == Spec => []ReleaseHasPacket
<1>1. ASSUME IInv PROVE ReleaseHasPacket
  <2>1. SUFFICES ASSUME NEW r \in Readers, rpc[r] = "relQueued", held = <<>>
                 PROVE  FALSE
    BY DEF ReleaseHasPacket
  <2>2. Cardinality(Holders) = 0
    BY <1>1, <2>1 DEF IInv, HeldByReaders
  <2>3. Holders = {}
    BY <2>2, HoldersFinite, FS_EmptySet
  <2>. QED
    BY <2>1, <2>3 DEF Holders
<1>. QED
  BY <1>1, InvariantHolds, PTL

\* Every request under way has one thread waiting for its response.
THEOREM ResponsesMatched == Spec => []RequestsPending
<1>1. IInv => RequestsPending
  BY DEF IInv
<1>. QED
  BY <1>1, InvariantHolds, PTL

\* The accounts of the two sides agree, all of them.
THEOREM AccountsKept == Spec => []Accounted
<1>1. PacketCredit /\ FillLevelsInRange /\ RequestsPending /\ ReleaseHasPacket <=> Accounted
  BY DEF Accounted
<1>. QED
  BY <1>1, CreditConserved, FillLevelsCorrect, ResponsesMatched, ReleaseFindsPacket, PTL

\* No wake-up of a blocked write or read is lost.
THEOREM NoLostWakeup == Spec => []NoLostWakeups
<1>1. IInv => NoLostWakeups
  BY DEF IInv, NoLostWakeups
<1>. QED
  BY <1>1, InvariantHolds, PTL

-----------------------------------------------------------------------------
(* The bytes of a sequence of packets                                       *)

\* p[n] is the number of bytes of the first n packets.
IsSum(p, packets, n) ==
    /\ p \in [0..n -> Nat] /\ p[0] = 0
    /\ \A i \in 1..n : p[i] = p[i - 1] + packets[i]

\* There are such sums.
LEMMA SumsExist ==
    ASSUME NEW s \in Seq(Nat), NEW n \in 0..Len(s)
    PROVE  \E p : IsSum(p, s, n)
<1> DEFINE Without == {k \in 0..Len(s) : ~ \E p : IsSum(p, s, k)}
<1>1. SUFFICES ASSUME Without # {} PROVE FALSE
  OBVIOUS
<1>2. PICK k \in Without : \A j \in Without : k <= j
  <2>1. Without \subseteq Nat
    OBVIOUS
  <2>. QED
    BY <1>1, <2>1, LeastOfNumbers
<1>3. k \in 0..Len(s) /\ ~ \E p : IsSum(p, s, k)
  BY <1>2
<1>4. k # 0
  <2>1. IsSum([i \in 0..0 |-> 0], s, 0)
    BY DEF IsSum
  <2>. QED
    BY <1>3, <2>1
<1>5. PICK p : IsSum(p, s, k - 1)
  <2>1. k - 1 \in 0..Len(s) /\ ~ k <= k - 1
    BY <1>3, <1>4
  <2>. QED
    BY <1>2, <2>1
<1>6. IsSum([i \in 0..k |-> IF i < k THEN p[i] ELSE p[k - 1] + s[k]], s, k)
  BY <1>3, <1>4, <1>5 DEF IsSum
<1>. QED
  BY <1>3, <1>6

\* The function that adds packets up is defined by its recursion.
LEMMA BytesOf ==
    ASSUME NEW s \in Seq(Nat), NEW p, IsSum(p, s, Len(s))
    PROVE  Pipe!Bytes(s) = p[Len(s)]
<1> DEFINE n == Len(s)
           Adds(f) == f = [i \in 0..n |-> IF i = 0 THEN 0 ELSE f[i - 1] + s[i]]
           sum == CHOOSE f : Adds(f)
<1>1. n \in Nat
  OBVIOUS
<1>2. Adds(p)
  BY DEF IsSum
<1>3. Adds(sum)
  BY <1>2
<1>4. Pipe!Bytes(s) = sum[n]
  BY DEF Pipe!Bytes
<1>5. \A i \in 0..n : sum[i] = IF i = 0 THEN 0 ELSE sum[i - 1] + s[i]
  BY <1>3, Zenon
<1>. HIDE DEF sum
<1>6. \A i \in 0..n : sum[i] = p[i]
  <2> DEFINE Differ == {i \in 0..n : sum[i] # p[i]}
  <2>1. SUFFICES ASSUME Differ # {} PROVE FALSE
    OBVIOUS
  <2>2. PICK i \in Differ : \A j \in Differ : i <= j
    <3>1. Differ \subseteq Nat
      BY <1>1
    <3>. QED
      BY <2>1, <3>1, LeastOfNumbers
  <2>3. i \in 0..n /\ sum[i] # p[i]
    BY <2>2
  <2>4. i # 0
    BY <1>1, <1>5, <2>3 DEF IsSum
  <2>5. sum[i - 1] = p[i - 1]
    <3>1. i - 1 \in 0..n /\ ~ i <= i - 1
      BY <1>1, <2>3, <2>4
    <3>. QED
      BY <2>2, <3>1
  <2>. QED
    BY <1>1, <1>5, <2>3, <2>4, <2>5 DEF IsSum
<1>. QED
  BY <1>1, <1>4, <1>6

\* A number of bytes is a number.
LEMMA BytesType ==
    ASSUME NEW s \in Seq(Nat) PROVE Pipe!Bytes(s) \in Nat
<1>1. Len(s) \in 0..Len(s)
  OBVIOUS
<1>2. PICK p : IsSum(p, s, Len(s))
  BY <1>1, SumsExist
<1>. QED
  BY <1>1, <1>2, BytesOf DEF IsSum

\* No packets, no bytes.
LEMMA BytesEmpty == Pipe!Bytes(<<>>) = 0
<1> DEFINE p == [i \in 0..0 |-> 0]
           s == <<>>
<1>1. IsSum(p, s, 0) /\ p[0] = 0
  BY DEF IsSum
<1>2. s \in Seq(Nat) /\ Len(s) = 0
  OBVIOUS
<1>. HIDE DEF p, s
<1>3. Pipe!Bytes(s) = p[Len(s)]
  BY <1>1, <1>2, BytesOf
<1>. QED
  BY <1>1, <1>2, <1>3 DEF s

\* A packet that is added counts its size.
LEMMA BytesAppend ==
    ASSUME NEW s \in Seq(Nat), NEW size \in Nat
    PROVE  Pipe!Bytes(Append(s, size)) = Pipe!Bytes(s) + size
<1> DEFINE n == Len(s)
<1>1. n \in Nat /\ n \in 0..n
  OBVIOUS
<1>2. PICK p : IsSum(p, s, n)
  BY <1>1, SumsExist
<1> DEFINE q == [i \in 0..(n + 1) |-> IF i <= n THEN p[i] ELSE p[n] + size]
           t == Append(s, size)
<1>3. t \in Seq(Nat) /\ Len(t) = n + 1 /\ t[n + 1] = size /\ \A i \in 1..n : t[i] = s[i]
  OBVIOUS
<1>. HIDE DEF t, n
<1>4. IsSum(q, t, n + 1)
  <2>1. /\ p[0] = 0 /\ \A i \in 0..n : p[i] \in Nat
        /\ \A i \in 1..n : p[i] = p[i - 1] + s[i]
    BY <1>1, <1>2 DEF IsSum
  <2>2. q \in [0..(n + 1) -> Nat] /\ q[0] = 0
    BY <1>1, <2>1
  <2>3. \A i \in 1..n : q[i] = q[i - 1] + t[i]
    BY <1>1, <1>3, <2>1
  <2>4. q[n + 1] = q[n] + t[n + 1]
    BY <1>1, <1>3
  <2>5. \A i \in 1..(n + 1) : q[i] = q[i - 1] + t[i]
    <3>1. \A i \in 1..(n + 1) : i \in 1..n \/ i = n + 1
      BY <1>1
    <3>2. (n + 1) - 1 = n
      BY <1>1
    <3>. HIDE DEF q
    <3>. QED
      BY <3>1, <3>2, <2>3, <2>4
  <2>. HIDE DEF q
  <2>. QED
    BY <2>2, <2>5 DEF IsSum
<1>5. q[n + 1] = p[n] + size
  BY <1>1
<1>6. Pipe!Bytes(t) = q[n + 1]
  BY <1>3, <1>4, BytesOf
<1>7. Pipe!Bytes(s) = p[n]
  BY <1>2, BytesOf DEF n
<1>. QED
  BY <1>5, <1>6, <1>7 DEF t

\* So does the one that is taken.
LEMMA BytesTail ==
    ASSUME NEW s \in Seq(Nat), s # <<>>
    PROVE  Pipe!Bytes(s) = Head(s) + Pipe!Bytes(Tail(s))
<1> DEFINE t == Tail(s)
           n == Len(t)
<1>1. /\ t \in Seq(Nat) /\ n \in Nat /\ n \in 0..n
      /\ Len(s) = n + 1 /\ Head(s) = s[1] /\ s[1] \in Nat
      /\ \A i \in 1..n : t[i] = s[i + 1]
  OBVIOUS
<1>. HIDE DEF t
<1>2. PICK p : IsSum(p, t, n)
  BY <1>1, SumsExist
<1> DEFINE q == [i \in 0..(n + 1) |-> IF i = 0 THEN 0 ELSE s[1] + p[i - 1]]
<1>. HIDE DEF n
<1>3. IsSum(q, s, n + 1)
  <2>1. \A i \in 1..(n + 1) : i # 1 => s[i] = t[i - 1]
    BY <1>1
  <2>2. \A i \in 1..n : p[i] \in Nat /\ p[i] = p[i - 1] + t[i] /\ p[i - 1] \in Nat
    BY <1>1, <1>2 DEF IsSum
  <2>3. p[0] = 0 /\ \A i \in 0..n : p[i] \in Nat
    BY <1>1, <1>2 DEF IsSum
  <2>4. \A i \in 1..(n + 1) : q[i] = q[i - 1] + s[i]
    <3> SUFFICES ASSUME NEW i \in 1..(n + 1) PROVE q[i] = q[i - 1] + s[i]
      OBVIOUS
    <3>1. CASE i = 1
      BY <1>1, <2>3, <3>1
    <3>2. CASE i # 1
      <4>1. i - 1 \in 1..n /\ i - 2 \in 0..n /\ (i - 1) - 1 = i - 2 /\ i - 1 # 0
        BY <1>1, <3>2
      <4>2. p[i - 1] = p[i - 2] + s[i] /\ p[i - 2] \in Nat /\ p[i - 1] \in Nat
        BY <2>1, <2>2, <3>2, <4>1
      <4>3. q[i] = s[1] + p[i - 1] /\ q[i - 1] = s[1] + p[i - 2]
        BY <1>1, <4>1
      <4>4. s[i] \in Nat
        BY <1>1
      <4>. QED
        BY <1>1, <4>2, <4>3, <4>4
    <3>. QED
      BY <3>1, <3>2
  <2>5. q \in [0..(n + 1) -> Nat] /\ q[0] = 0
    <3>1. \A i \in 0..(n + 1) : i # 0 => i - 1 \in 0..n /\ s[1] + p[i - 1] \in Nat
      BY <1>1, <2>3
    <3>. QED
      BY <1>1, <3>1
  <2>. HIDE DEF q
  <2>. QED
    BY <2>4, <2>5 DEF IsSum
<1>4. q[n + 1] = s[1] + p[n]
  BY <1>1
<1>5. Pipe!Bytes(s) = q[n + 1] /\ Pipe!Bytes(t) = p[n]
  BY <1>1, <1>2, <1>3, BytesOf DEF n
<1>. QED
  BY <1>1, <1>4, <1>5 DEF t

\* What is on the wire comes on top of what is stored.
LEMMA BytesConcat ==
    ASSUME NEW s \in Seq(Nat), NEW t \in Seq(Nat)
    PROVE  Pipe!Bytes(s \o t) = Pipe!Bytes(s) + Pipe!Bytes(t)
<1> DEFINE m == Len(s)
           n == Len(t)
           both == s \o t
<1>1. /\ m \in Nat /\ n \in Nat /\ m \in 0..m /\ n \in 0..n
      /\ both \in Seq(Nat) /\ Len(both) = m + n
      /\ \A i \in 1..m : both[i] = s[i]
      /\ \A i \in 1..n : both[m + i] = t[i]
  OBVIOUS
<1>2. PICK p : IsSum(p, s, m)
  BY <1>1, SumsExist
<1>3. PICK q : IsSum(q, t, n)
  BY <1>1, SumsExist
<1> DEFINE r == [i \in 0..(m + n) |-> IF i <= m THEN p[i] ELSE p[m] + q[i - m]]
<1>. HIDE DEF m, n, both
<1>4. /\ p[0] = 0 /\ \A i \in 0..m : p[i] \in Nat
      /\ q[0] = 0 /\ \A i \in 0..n : q[i] \in Nat
  BY <1>1, <1>2, <1>3 DEF IsSum
<1>5. r \in [0..(m + n) -> Nat] /\ r[0] = 0
  <2>1. \A i \in 0..(m + n) : i <= m => i \in 0..m
    BY <1>1
  <2>2. \A i \in 0..(m + n) : ~ i <= m => i - m \in 0..n
    BY <1>1
  <2>3. \A i \in 0..(m + n) : ~ i <= m => p[m] + q[i - m] \in Nat
    BY <1>1, <1>4, <2>2
  <2>. QED
    BY <1>1, <1>4, <2>1, <2>3
<1>6. \A i \in 1..(m + n) : r[i] = r[i - 1] + both[i]
  <2> SUFFICES ASSUME NEW i \in 1..(m + n) PROVE r[i] = r[i - 1] + both[i]
    OBVIOUS
  <2>1. CASE i <= m
    <3>1. i \in 1..m /\ r[i] = p[i] /\ r[i - 1] = p[i - 1]
      BY <1>1, <2>1
    <3>. QED
      BY <1>1, <1>2, <3>1 DEF IsSum
  <2>2. CASE ~ i <= m
    <3> DEFINE j == i - m
    <3>1. j \in 1..n /\ i = m + j /\ j - 1 \in 0..n
      BY <1>1, <2>2
    <3>2. r[i] = p[m] + q[j] /\ r[i - 1] = p[m] + q[j - 1]
      <4>1. i - 1 <= m => i - 1 = m /\ q[j - 1] = 0
        <5>1. i - 1 <= m => i - 1 = m /\ j - 1 = 0
          BY <1>1, <2>2
        <5>. QED
          BY <1>4, <5>1, Zenon
      <4>2. (i - 1) - m = j - 1
        BY <1>1
      <4>3. i \in 0..(m + n) /\ i - 1 \in 0..(m + n) /\ m \in Nat /\ p[m] \in Nat
        BY <1>1, <1>4
      <4>4. r[i] = p[m] + q[j]
        BY <4>3, <2>2
      <4>5. r[i - 1] = IF i - 1 <= m THEN p[i - 1] ELSE p[m] + q[j - 1]
        BY <4>3, <4>2
      <4>6. p[m] + 0 = p[m]
        BY <4>3
      <4>. HIDE DEF r, j
      <4>. QED
        BY <4>1, <4>4, <4>5, <4>6
    <3>3. q[j] = q[j - 1] + t[j] /\ both[i] = t[j]
      BY <1>1, <1>3, <3>1 DEF IsSum
    <3>4. q[j - 1] \in Nat /\ p[m] \in Nat /\ t[j] \in Nat
      <4>1. t[j] \in Nat
        BY <3>1 DEF n
      <4>. QED
        BY <1>1, <1>4, <3>1, <4>1
    <3>. HIDE DEF r, j
    <3>. QED
      BY <3>2, <3>3, <3>4
  <2>. QED
    BY <2>1, <2>2
<1>. HIDE DEF r
<1>7. IsSum(r, both, m + n)
  BY <1>5, <1>6 DEF IsSum
<1>8. Pipe!Bytes(both) = r[m + n]
  BY <1>1, <1>7, BytesOf
<1>9. r[m + n] = p[m] + q[n]
  <2>1. n = 0 => m + n = m
    BY <1>1
  <2>2. n # 0 => ~ m + n <= m
    BY <1>1
  <2>3. (m + n) - m = n /\ m + n \in 0..(m + n)
    BY <1>1
  <2>. QED
    BY <1>1, <1>4, <2>1, <2>2, <2>3 DEF r
<1>10. Pipe!Bytes(s) = p[m] /\ Pipe!Bytes(t) = q[n]
  BY <1>2, <1>3, BytesOf DEF m, n
<1>. QED
  BY <1>8, <1>9, <1>10 DEF both

-----------------------------------------------------------------------------
(* The packets between the peers                                            *)

\* Sizes are numbers.
LEMMA SizesNatural == Sizes \subseteq Nat
  BY FitAssumption, SizeAssumption

\* The sizes of the messages on a wire are sizes of packets ...
LEMMA SizesType ==
    ASSUME NEW T, NEW ms \in Seq(T), \A m \in T : m.size \in Sizes
    PROVE  sizesOf(ms) \in Seq(Sizes) /\ Len(sizesOf(ms)) = Len(ms)
  BY DEF sizesOf

\* ... when one more is sent.
LEMMA SizesAppend ==
    ASSUME NEW T, NEW ms \in Seq(T), NEW m \in T, \A e \in T : e.size \in Sizes
    PROVE  sizesOf(Append(ms, m)) = Append(sizesOf(ms), m.size)
  BY DEF sizesOf

\* ... when the oldest is received.
LEMMA SizesTail ==
    ASSUME NEW T, NEW ms \in Seq(T), ms # <<>>, \A e \in T : e.size \in Sizes
    PROVE  /\ sizesOf(ms) # <<>> /\ Head(sizesOf(ms)) = Head(ms).size
           /\ sizesOf(Tail(ms)) = Tail(sizesOf(ms))
  BY DEF sizesOf

\* The packets in the pipe, when one is sent ...
LEMMA ConcatAppend ==
    ASSUME NEW T, NEW s \in Seq(T), NEW t \in Seq(T), NEW e \in T
    PROVE  s \o Append(t, e) = Append(s \o t, e)
  OBVIOUS

\* ... when the oldest on the wire is stored.
LEMMA ConcatMoves ==
    ASSUME NEW T, NEW s \in Seq(T), NEW t \in Seq(T), t # <<>>
    PROVE  Append(s, Head(t)) \o Tail(t) = s \o t
  OBVIOUS

\* ... when the oldest that is stored is read.
LEMMA ConcatTail ==
    ASSUME NEW T, NEW s \in Seq(T), NEW t \in Seq(T), s # <<>>
    PROVE  s \o t # <<>> /\ Head(s \o t) = Head(s) /\ Tail(s \o t) = Tail(s) \o t
  OBVIOUS

-----------------------------------------------------------------------------
(* The bytes of a stream                                                    *)

\* The sequences of packets, in one direction and the other.
LEMMA PacketTypes ==
    ASSUME TypeOK
    PROVE  /\ available \in Seq(Sizes) /\ held \in Seq(Sizes)
           /\ sizesOf(writeWire) \in Seq(Sizes) /\ sizesOf(relWire) \in Seq(Sizes)
<1> DEFINE W == [writer : Writers, size : Sizes]
           R == [reader : Readers, size : Sizes]
<1>1. writeWire \in Seq(W) /\ relWire \in Seq(R)
  BY DEF TypeOK
<1>2. (\A m \in W : m.size \in Sizes) /\ (\A m \in R : m.size \in Sizes)
  OBVIOUS
<1>. HIDE DEF W, R
<1>3. sizesOf(writeWire) \in Seq(Sizes) /\ sizesOf(relWire) \in Seq(Sizes)
  BY <1>1, <1>2, SizesType
<1>. QED
  BY <1>3 DEF TypeOK

\* Sequences of packets have bytes.
LEMMA PacketBytes ==
    ASSUME NEW s \in Seq(Sizes)
    PROVE  s \in Seq(Nat) /\ Pipe!Bytes(s) \in Nat
<1>1. s \in Seq(Nat)
  BY SizesNatural, SeqMonotonic
<1>. QED
  BY <1>1, BytesType

\* A packet comes into a sequence ...
LEMMA PacketAdded ==
    ASSUME NEW s \in Seq(Sizes), NEW size \in Sizes
    PROVE  size \in Nat /\ Pipe!Bytes(Append(s, size)) = Pipe!Bytes(s) + size
<1>1. s \in Seq(Nat) /\ size \in Nat
  BY PacketBytes, SizesNatural
<1>. QED
  BY <1>1, BytesAppend

\* ... or leaves it.
LEMMA PacketTaken ==
    ASSUME NEW s \in Seq(Sizes), s # <<>>
    PROVE  /\ Head(s) \in Sizes /\ Head(s) \in Nat /\ Tail(s) \in Seq(Sizes)
           /\ Pipe!Bytes(Tail(s)) \in Nat /\ Pipe!Bytes(s) = Head(s) + Pipe!Bytes(Tail(s))
<1>1. Head(s) \in Sizes /\ Tail(s) \in Seq(Sizes)
  OBVIOUS
<1>2. s \in Seq(Nat) /\ Head(s) \in Nat /\ Pipe!Bytes(Tail(s)) \in Nat
  BY <1>1, PacketBytes, SizesNatural
<1>. QED
  BY <1>1, <1>2, BytesTail

\* What each fill level counts.
BytesCounted ==
    /\ localFillLevel = Pipe!Bytes(available) + Pipe!Bytes(held)
    /\ remoteFillLevel = localFillLevel + Pipe!Bytes(sizesOf(writeWire))
                                        + Pipe!Bytes(sizesOf(relWire))

\* Nothing is sent, stored or on its way back.
LEMMA InitCounted == Init => BytesCounted
<1> SUFFICES ASSUME Init PROVE BytesCounted
  OBVIOUS
<1>1. sizesOf(<<>>) = <<>>
  BY DEF sizesOf
<1>. QED
  BY <1>1, BytesEmpty DEF Init, BytesCounted

\* The packet's bytes are charged and on the wire.
LEMMA SendWriteCounted ==
    ASSUME TypeOK, BytesCounted, NEW w \in Writers, SendWrite(w)
    PROVE  /\ sizesOf(writeWire)' = Append(sizesOf(writeWire), wsize[w]) /\ wsize[w] \in Sizes
           /\ BytesCounted'
<1> DEFINE W == [writer : Writers, size : Sizes]
           m == [writer |-> w, size |-> wsize[w]]
<1>1. writeWire \in Seq(W) /\ m \in W /\ wsize[w] \in Sizes /\ m.size = wsize[w]
  BY DEF SendWrite, TypeOK
<1>2. writeWire' = Append(writeWire, m)
  BY DEF SendWrite
<1>3. \A e \in W : e.size \in Sizes
  OBVIOUS
<1>. HIDE DEF W, m
<1>4. sizesOf(writeWire') = Append(sizesOf(writeWire), wsize[w])
  BY <1>1, <1>2, <1>3, SizesAppend
<1> DEFINE onWire == Pipe!Bytes(sizesOf(writeWire))
           back   == Pipe!Bytes(sizesOf(relWire))
<1>5. onWire \in Nat /\ back \in Nat /\ wsize[w] \in Nat /\ localFillLevel \in Nat
      /\ Pipe!Bytes(sizesOf(writeWire')) = onWire + wsize[w]
  BY <1>1, <1>4, PacketTypes, PacketBytes, PacketAdded DEF TypeOK
<1>6. /\ remoteFillLevel' = remoteFillLevel + wsize[w]
      /\ UNCHANGED <<localFillLevel, available, held, relWire>>
  BY DEF SendWrite, receiver
<1>7. remoteFillLevel = localFillLevel + onWire + back
  BY DEF BytesCounted
<1>. HIDE DEF onWire, back
<1>8. remoteFillLevel' = localFillLevel + (onWire + wsize[w]) + back
  BY <1>5, <1>6, <1>7
<1>9. BytesCounted'
  BY <1>5, <1>6, <1>8 DEF BytesCounted, back
<1>. QED
  BY <1>1, <1>4, <1>9

\* They pass from the wire to the receiver, which counts them.
LEMMA StoreCounted ==
    ASSUME TypeOK, BytesCounted, handleIncomingWrite
    PROVE  BytesCounted'
<1> DEFINE W == [writer : Writers, size : Sizes]
           ww == sizesOf(writeWire)
           size == Head(ww)
<1>1. writeWire \in Seq(W) /\ writeWire # <<>>
  BY DEF handleIncomingWrite, TypeOK
<1>2. \A e \in W : e.size \in Sizes
  OBVIOUS
<1>. HIDE DEF W
<1>3. ww # <<>> /\ size = Head(writeWire).size /\ sizesOf(Tail(writeWire)) = Tail(ww)
  BY <1>1, <1>2, SizesTail
<1>4. /\ writeWire' = Tail(writeWire) /\ available' = Append(available, size)
      /\ localFillLevel' = localFillLevel + size
      /\ UNCHANGED <<remoteFillLevel, relWire, held>>
  BY <1>3 DEF handleIncomingWrite, sender
<1>5. ww \in Seq(Sizes) /\ available \in Seq(Sizes) /\ held \in Seq(Sizes) /\ sizesOf(relWire) \in Seq(Sizes)
  BY PacketTypes
<1>. HIDE DEF ww
<1>6. size \in Sizes /\ size \in Nat
  BY <1>3, <1>5, PacketTaken
<1>. HIDE DEF size
<1> DEFINE before == Pipe!Bytes(ww)
           after  == Pipe!Bytes(Tail(ww))
           stored == Pipe!Bytes(available)
           inHand == Pipe!Bytes(held)
           back   == Pipe!Bytes(sizesOf(relWire))
<1>7. before = size + after /\ after \in Nat
  BY <1>3, <1>5, PacketTaken DEF size
<1>8. Pipe!Bytes(available') = stored + size
  BY <1>4, <1>5, <1>6, PacketAdded
<1>9. stored \in Nat /\ inHand \in Nat /\ back \in Nat
  BY <1>5, PacketBytes
<1>10. localFillLevel = stored + inHand /\ remoteFillLevel = localFillLevel + before + back
  BY DEF BytesCounted, ww
<1>11. Pipe!Bytes(sizesOf(writeWire')) = after
  BY <1>3, <1>4
<1>. HIDE DEF before, after, stored, inHand, back
<1>12. /\ localFillLevel' = (stored + size) + inHand
       /\ remoteFillLevel' = localFillLevel' + after + back
  BY <1>4, <1>6, <1>7, <1>9, <1>10
<1>. QED
  BY <1>4, <1>8, <1>11, <1>12 DEF BytesCounted, inHand, back

\* They pass into the hands of a reader.
LEMMA ReadCounted ==
    ASSUME TypeOK, BytesCounted, NEW r \in Readers, ServeRead(r)
    PROVE  BytesCounted'
<1> DEFINE size == Head(available)
           before == Pipe!Bytes(available)
           after  == Pipe!Bytes(Tail(available))
           inHand == Pipe!Bytes(held)
<1>1. /\ available # <<>> /\ available' = Tail(available) /\ held' = Append(held, size)
      /\ UNCHANGED <<localFillLevel, remoteFillLevel, writeWire, relWire>>
  BY DEF ServeRead, sender
<1>2. available \in Seq(Sizes) /\ held \in Seq(Sizes)
  BY PacketTypes
<1>3. size \in Sizes /\ size \in Nat /\ after \in Nat /\ before = size + after
  BY <1>1, <1>2, PacketTaken
<1>4. inHand \in Nat /\ Pipe!Bytes(held') = inHand + size
  BY <1>1, <1>2, <1>3, PacketBytes, PacketAdded
<1>5. localFillLevel = before + inHand
  BY DEF BytesCounted
<1>. HIDE DEF before, inHand, size
<1>6. localFillLevel' = after + (inHand + size)
  BY <1>1, <1>3, <1>4, <1>5
<1>. QED
  BY <1>1, <1>4, <1>6 DEF BytesCounted

\* They are free at the receiver, and on their way back.
LEMMA ReleaseCounted ==
    ASSUME TypeOK, BytesCounted, NEW r \in Readers, ServeRelease(r)
    PROVE  BytesCounted'
<1> DEFINE R == [reader : Readers, size : Sizes]
           size == Head(held)
           m == [reader |-> r, size |-> size]
           before == Pipe!Bytes(held)
           after  == Pipe!Bytes(Tail(held))
           stored == Pipe!Bytes(available)
           onWire == Pipe!Bytes(sizesOf(writeWire))
           back   == Pipe!Bytes(sizesOf(relWire))
<1>1. /\ held # <<>> /\ held' = Tail(held) /\ relWire' = Append(relWire, m)
      /\ localFillLevel' = localFillLevel - size
      /\ UNCHANGED <<remoteFillLevel, writeWire, available>>
  BY DEF ServeRelease, sender
<1>2. /\ available \in Seq(Sizes) /\ held \in Seq(Sizes)
      /\ sizesOf(writeWire) \in Seq(Sizes) /\ sizesOf(relWire) \in Seq(Sizes)
  BY PacketTypes
<1>3. size \in Sizes /\ size \in Nat /\ after \in Nat /\ before = size + after
  BY <1>1, <1>2, PacketTaken
<1>4. stored \in Nat /\ onWire \in Nat /\ back \in Nat
  BY <1>2, PacketBytes
<1>5. Pipe!Bytes(sizesOf(relWire')) = back + size
  <2>1. relWire \in Seq(R) /\ m \in R /\ m.size = size
    BY <1>3 DEF TypeOK
  <2>2. \A e \in R : e.size \in Sizes
    OBVIOUS
  <2>. HIDE DEF R, m, size
  <2>3. sizesOf(relWire') = Append(sizesOf(relWire), size)
    BY <1>1, <2>1, <2>2, SizesAppend
  <2>. QED
    BY <1>2, <1>3, <2>3, PacketAdded
<1>6. localFillLevel = stored + before /\ remoteFillLevel = localFillLevel + onWire + back
  BY DEF BytesCounted
<1>. HIDE DEF before, after, stored, onWire, back, size
<1>7. localFillLevel' = stored + after /\ remoteFillLevel' = localFillLevel' + onWire + (back + size)
  BY <1>1, <1>3, <1>4, <1>6
<1>. QED
  BY <1>1, <1>5, <1>7 DEF BytesCounted, after, stored, onWire

\* They are given back to the sender.
LEMMA CreditCounted ==
    ASSUME TypeOK, BytesCounted, RemoteRelease
    PROVE  BytesCounted'
<1> DEFINE R == [reader : Readers, size : Sizes]
           rel == sizesOf(relWire)
           size == Head(rel)
           before == Pipe!Bytes(rel)
           after  == Pipe!Bytes(Tail(rel))
           onWire == Pipe!Bytes(sizesOf(writeWire))
<1>1. relWire \in Seq(R) /\ relWire # <<>>
  BY DEF RemoteRelease, TypeOK
<1>2. \A e \in R : e.size \in Sizes
  OBVIOUS
<1>. HIDE DEF R
<1>3. rel # <<>> /\ size = Head(relWire).size /\ sizesOf(Tail(relWire)) = Tail(rel)
  BY <1>1, <1>2, SizesTail
<1>4. /\ relWire' = Tail(relWire) /\ remoteFillLevel' = remoteFillLevel - size
      /\ UNCHANGED <<localFillLevel, writeWire, available, held>>
  BY <1>3 DEF RemoteRelease
<1>5. rel \in Seq(Sizes) /\ sizesOf(writeWire) \in Seq(Sizes) /\ localFillLevel \in Nat
  BY PacketTypes DEF TypeOK
<1>. HIDE DEF rel
<1>6. size \in Nat /\ after \in Nat /\ before = size + after
  BY <1>3, <1>5, PacketTaken
<1>7. onWire \in Nat /\ remoteFillLevel = localFillLevel + onWire + before
  BY <1>5, PacketBytes DEF BytesCounted, rel
<1>8. Pipe!Bytes(sizesOf(relWire')) = after
  BY <1>3, <1>4
<1>. HIDE DEF before, after, onWire, size
<1>9. remoteFillLevel' = localFillLevel + onWire + after
  BY <1>4, <1>5, <1>6, <1>7
<1>. QED
  BY <1>4, <1>8, <1>9 DEF BytesCounted, onWire

\* No other step moves packets or fill levels.
LEMMA NextCounted == TypeOK /\ BytesCounted /\ [Next]_vars => BytesCounted'
<1> SUFFICES ASSUME TypeOK, BytesCounted, [Next]_vars PROVE BytesCounted'
  OBVIOUS
<1>1. ASSUME UNCHANGED <<localFillLevel, remoteFillLevel, available, held, writeWire, relWire>>
      PROVE  BytesCounted'
  BY <1>1 DEF BytesCounted
<1>2. ASSUME NEW w \in Writers, NEW size \in Sizes, XLinkWriteData(w, size) PROVE BytesCounted'
  BY <1>1, <1>2 DEF XLinkWriteData, receiver
<1>3. ASSUME NEW w \in Writers, SenderStep(w) PROVE BytesCounted'
  BY <1>1, <1>3, SendWriteCounted DEF SenderStep, BlockWrite, WriteResponse, receiver
<1>4. ASSUME RemoteWrite PROVE BytesCounted'
  BY <1>1, <1>4 DEF RemoteWrite
<1>5. ASSUME NEW r \in Readers, XLinkReadData(r) \/ XLinkReleaseData(r) PROVE BytesCounted'
  BY <1>1, <1>5 DEF XLinkReadData, XLinkReleaseData, sender
<1>6. ASSUME NEW r \in Readers, ReaderStep(r) PROVE BytesCounted'
  BY <1>1, <1>6, ReadCounted, ReleaseCounted
     DEF ReaderStep, BlockRead, ReleaseResponse, sender
<1>7. CASE UNCHANGED vars
  BY <1>1, <1>7 DEF vars, sender, receiver
<1>. QED
  BY <1>2, <1>3, <1>4, <1>5, <1>6, <1>7, StoreCounted, CreditCounted DEF Next

\* The fill levels count bytes exactly, and the sender's never exceeds the buffer
\* (isStreamSpaceEnoughFor, releasePacketFromStream and the READ_REL_REQ handler).
THEOREM BytesAreCounted == Spec => []ByteCredit
<1>1. IInv /\ BytesCounted => ByteCredit
  BY DEF IInv, Credit, BytesCounted, ByteCredit
<1>2. IInv => TypeOK
  BY DEF IInv
<1>3. Spec => []BytesCounted
  BY <1>2, InitCounted, NextCounted, InvariantHolds, PTL DEF Spec
<1>. QED
  BY <1>1, <1>3, InvariantHolds, PTL

-----------------------------------------------------------------------------
(* The refinement of the bounded pipe                                       *)

\* The packets in the pipe: Pipe's unread.
PipeUnread == available \o sizesOf(writeWire)

\* The pipe is empty.
LEMMA InitPipe == Init => Pipe!PipeInit
<1> SUFFICES ASSUME Init PROVE Pipe!PipeInit
  OBVIOUS
<1>1. sizesOf(<<>>) = <<>>
  BY DEF sizesOf
<1>. QED
  BY <1>1 DEF Init, Pipe!PipeInit

\* A packet that is sent is written to the pipe: there is credit for it.
LEMMA SendWritePipe ==
    ASSUME IInv, BytesCounted, NEW w \in Writers, SendWrite(w)
    PROVE  Pipe!PipeNext
<1> DEFINE ww == sizesOf(writeWire)
           size == wsize[w]
<1>1. TypeOK /\ PacketCredit
  BY DEF IInv, Credit
<1>2. sizesOf(writeWire)' = Append(ww, size) /\ size \in Sizes
  BY <1>1, SendWriteCounted
<1>3. available \in Seq(Sizes) /\ held \in Seq(Sizes) /\ ww \in Seq(Sizes)
      /\ sizesOf(relWire) \in Seq(Sizes)
  BY <1>1, PacketTypes
<1>4. /\ available' = available /\ held' = held
      /\ remoteFillPacketLevel < MaxPackets /\ remoteFillLevel + size <= WriteSize
  BY DEF SendWrite, receiver, isStreamSpaceEnoughFor
<1>5. PipeUnread' = Append(PipeUnread, size)
  BY <1>2, <1>3, <1>4, ConcatAppend DEF PipeUnread
<1>6. Len(PipeUnread) + Len(held) < MaxPackets
  <2>1. Len(ww) = Len(writeWire) /\ Len(relWire) \in Nat /\ Len(writeWire) \in Nat
    BY <1>1 DEF sizesOf, TypeOK
  <2>2. Len(PipeUnread) = Len(available) + Len(ww) /\ Len(available) \in Nat /\ Len(held) \in Nat
    BY <1>3 DEF PipeUnread
  <2>. QED
    BY <1>1, <1>4, <2>1, <2>2, SizeAssumption DEF PacketCredit, TypeOK
<1>7. Pipe!Bytes(PipeUnread) + Pipe!Bytes(held) + size <= WriteSize
  <2> DEFINE stored == Pipe!Bytes(available)
             inHand == Pipe!Bytes(held)
             onWire == Pipe!Bytes(ww)
             back   == Pipe!Bytes(sizesOf(relWire))
  <2>1. Pipe!Bytes(PipeUnread) = stored + onWire
    BY <1>3, PacketBytes, BytesConcat DEF PipeUnread
  <2>2. stored \in Nat /\ inHand \in Nat /\ onWire \in Nat /\ back \in Nat /\ size \in Nat
    BY <1>2, <1>3, PacketBytes, SizesNatural
  <2>3. remoteFillLevel = (stored + inHand) + onWire + back
    BY DEF BytesCounted
  <2>. HIDE DEF stored, inHand, onWire, back, size
  <2>. QED
    BY <1>4, <2>1, <2>2, <2>3, SizeAssumption DEF inHand
<1>8. Pipe!Write(size)
  BY <1>4, <1>5, <1>6, <1>7 DEF Pipe!Write, PipeUnread
<1>. QED
  BY <1>2, <1>8 DEF Pipe!PipeNext

\* A packet that is stored stays in the pipe, in its place.
LEMMA StorePipe ==
    ASSUME TypeOK, handleIncomingWrite
    PROVE  PipeUnread' = PipeUnread /\ held' = held
<1> DEFINE W == [writer : Writers, size : Sizes]
           ww == sizesOf(writeWire)
<1>1. writeWire \in Seq(W) /\ writeWire # <<>>
  BY DEF handleIncomingWrite, TypeOK
<1>2. \A e \in W : e.size \in Sizes
  OBVIOUS
<1>. HIDE DEF W
<1>3. ww # <<>> /\ Head(ww) = Head(writeWire).size /\ sizesOf(Tail(writeWire)) = Tail(ww)
  BY <1>1, <1>2, SizesTail
<1>4. available' = Append(available, Head(ww)) /\ sizesOf(writeWire') = Tail(ww) /\ held' = held
  BY <1>3 DEF handleIncomingWrite
<1>5. available \in Seq(Sizes) /\ ww \in Seq(Sizes)
  BY PacketTypes
<1>. HIDE DEF ww
<1>6. Append(available, Head(ww)) \o Tail(ww) = available \o ww
  BY <1>3, <1>5, ConcatMoves
<1>. QED
  BY <1>4, <1>6 DEF PipeUnread, ww

\* A reader gets the oldest packet of the pipe.
LEMMA ReadPipe ==
    ASSUME TypeOK, NEW r \in Readers, ServeRead(r)
    PROVE  Pipe!Read
<1> DEFINE ww == sizesOf(writeWire)
<1>1. /\ available # <<>> /\ available' = Tail(available) /\ held' = Append(held, Head(available))
      /\ writeWire' = writeWire
  BY DEF ServeRead
<1>2. available \in Seq(Sizes) /\ ww \in Seq(Sizes)
  BY PacketTypes
<1>. HIDE DEF ww
<1>3. /\ available \o ww # <<>> /\ Head(available \o ww) = Head(available)
      /\ Tail(available \o ww) = Tail(available) \o ww
  BY <1>1, <1>2, ConcatTail
<1>4. sizesOf(writeWire)' = ww
  BY <1>1 DEF ww
<1>. QED
  BY <1>1, <1>3, <1>4 DEF Pipe!Read, ww

\* The pipe does not see what is done about credit and wake-ups.
LEMMA NextPipe ==
    IInv /\ BytesCounted /\ [Next]_vars
        => [Pipe!PipeNext]_<<available \o sizesOf(writeWire), held>>
<1> SUFFICES ASSUME IInv, BytesCounted, [Next]_vars
             PROVE  Pipe!PipeNext \/ (PipeUnread' = PipeUnread /\ held' = held)
  BY DEF PipeUnread
<1>1. TypeOK
  BY DEF IInv
<1>2. ASSUME UNCHANGED <<available, held, writeWire>>
      PROVE  PipeUnread' = PipeUnread /\ held' = held
  BY <1>2 DEF PipeUnread
<1>3. ASSUME NEW w \in Writers, NEW size \in Sizes, XLinkWriteData(w, size)
      PROVE  PipeUnread' = PipeUnread /\ held' = held
  BY <1>2, <1>3 DEF XLinkWriteData, receiver
<1>4. ASSUME NEW w \in Writers, SenderStep(w)
      PROVE  Pipe!PipeNext \/ (PipeUnread' = PipeUnread /\ held' = held)
  BY <1>2, <1>4, SendWritePipe DEF SenderStep, BlockWrite, WriteResponse, receiver
<1>5. ASSUME RemoteRelease \/ RemoteWrite PROVE PipeUnread' = PipeUnread /\ held' = held
  BY <1>2, <1>5 DEF RemoteRelease, RemoteWrite
<1>6. ASSUME NEW r \in Readers, XLinkReadData(r) \/ XLinkReleaseData(r)
      PROVE  PipeUnread' = PipeUnread /\ held' = held
  BY <1>2, <1>6 DEF XLinkReadData, XLinkReleaseData
<1>7. ASSUME NEW r \in Readers, ServeRelease(r) PROVE Pipe!Release
  BY <1>7 DEF ServeRelease, Pipe!Release
<1>8. ASSUME NEW r \in Readers, ReaderStep(r)
      PROVE  Pipe!PipeNext \/ (PipeUnread' = PipeUnread /\ held' = held)
  BY <1>1, <1>2, <1>7, <1>8, ReadPipe
     DEF ReaderStep, BlockRead, ReleaseResponse, Pipe!PipeNext
<1>9. CASE UNCHANGED vars
  BY <1>2, <1>9 DEF vars, receiver
<1>. QED
  BY <1>1, <1>3, <1>4, <1>5, <1>6, <1>8, <1>9, StorePipe DEF Next

\* Towards its applications a stream is a bounded pipe: what a reader gets is the
\* oldest packet written and not read, none is lost or made, and what is in the
\* stream fits the receive buffer.
THEOREM StreamIsPipe == Spec => ImplementsPipe
<1>1. IInv => TypeOK
  BY DEF IInv
<1>2. Spec => []BytesCounted
  BY <1>1, InitCounted, NextCounted, InvariantHolds, PTL DEF Spec
<1>. QED
  BY <1>2, InitPipe, NextPipe, InvariantHolds, PTL DEF Spec, ImplementsPipe, Pipe!PipeSpec

=============================================================================
