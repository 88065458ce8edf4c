------------------------- MODULE XLinkStreams_proofs -------------------------
(***************************************************************************)
(* Proofs about the messages between the peers of XLinkStreams and about   *)
(* the semaphores of their streams, for any applications, streams, threads *)
(* and numbers of calls.                                                   *)
(*                                                                         *)
(* AnswerOnItsWay speaks of the number of messages of a call, and messages *)
(* change places as others before them are taken; so what is proved is     *)
(* that a call which waits has exactly one place (InOnePlace), and one     *)
(* that does not has none.                                                 *)
(*                                                                         *)
(* A stream that is opened again with a larger size than it has stays      *)
(* locked.  NoStreamLocked is therefore proved of applications that open   *)
(* their streams with one size; it needs that every size on its way and in *)
(* the table is one of theirs.                                             *)
(*                                                                         *)
(* The last part is about links with careful applications: they close a    *)
(* stream only when no other thread of the peer has a call on it under     *)
(* way, and neither peer opens a stream while the other one closes it      *)
(* ("exclusive" in XLinkStreams).  No assertion about a stream fails on    *)
(* them, the two peers agree on every stream when nothing of it is under   *)
(* way, and closing loses no packet: for any number of streams, threads    *)
(* and calls, when every stream is opened with one size (OneSize) and one  *)
(* peer alone opens streams that do not exist (OneOpener).                 *)
(*                                                                         *)
(* The invariant (Careful) says of each stream and direction what is       *)
(* charged and where it is (Credit), what each peer may already know that  *)
(* the other does not (Agreed), which ids the calls under way carry        *)
(* (Fitting) and that a close is alone (Alone).  Of the peer that opens    *)
(* second it says that it always has the stream first (OpensSecond): its   *)
(* numbers are then the only ones given out (Numbered), and an id finds    *)
(* the one stream it names.                                                *)
(*                                                                         *)
(* Of all links, whatever their applications do, it is shown that they     *)
(* give out no more numbers than streams have been opened (NumbersInv);    *)
(* the types of the variables (TypeOK) follow from both invariants.        *)
(***************************************************************************)
EXTENDS XLinkStreams, Integers, Counting, SequenceTheorems, FiniteSetTheorems, TLAPS

Types == {"CREATE", "WRITE", "RELEASE", "CLOSE"}
Numbers == Nat \cup {None}

\* Every stream is opened with one size; then none stays locked.
OneSize == \A u \in Applications : \A a, b \in u.sizes : a = b
Locks == IF OneSize THEN {FALSE} ELSE BOOLEAN

\* A call under way, a message and an entry of the table: a size that is asked
\* for, on its way or set is one of those of the applications that run.
Calls(sizes) ==
    {c \in [type : Types, at : {"queued", "blocked", "pending", "created"},
             name : Names, id : Numbers, size : Nat] : c.type = "CREATE" => c.size \in sizes}
Packets(sizes) ==
    {m \in [type : Types, kind : {"REQ", "RESP"}, thread : Threads, ack : BOOLEAN,
             name : Names, id : Numbers, size : Nat] : m.type = "CREATE" => m.size \in sizes}
Entries(sizes) ==
    [id : Numbers, writeSize : sizes \cup {0}, readSize : sizes \cup {0}, remoteFill : Int,
     localFill : Int, unread : Nat, held : Nat, closing : BOOLEAN, locked : Locks]

\* Types, without what TypeOK says of the ids and of the fill levels.
Typed ==
    /\ app \in Applications /\ aborted \in BOOLEAN
    /\ stream \in [Peers -> [Names -> Entries(app.sizes)]]
    /\ next \in [Peers -> Nat] /\ handle \in [Peers -> [Names -> Numbers]]
    /\ wire \in [Peers -> Seq(Packets(app.sizes))]
    /\ rQueue \in [Peers -> Seq(Packets(app.sizes))]
    /\ event \in [Threads -> Calls(app.sizes) \cup {Idle}]
    /\ calls \in [Peers -> Nat]

\* The messages between the peers, on the wire or in a queue.
Channels == {"wire", "rQueue"} \X Peers
channels == [c \in Channels |-> IF c[1] = "wire" THEN wire[c[2]] ELSE rQueue[c[2]]]

InNoPlace(ch, t) == \A c \in Channels : \A i \in DOMAIN ch[c] : ch[c][i].thread # t
InOnePlace(ch, t) ==
    \E c \in Channels : \E i \in DOMAIN ch[c] :
        /\ ch[c][i].thread = t
        /\ \A d \in Channels : \A j \in DOMAIN ch[d] : ch[d][j].thread = t => d = c /\ j = i

\* A call waits exactly when it has a message under way, and has one then.
Waits(t) == event[t].at = "pending"
OneMessage ==
    ~aborted => \A t \in Threads : IF Waits(t) THEN InOnePlace(channels, t)
                                                ELSE InNoPlace(channels, t)

IInv == Typed /\ OneMessage

-----------------------------------------------------------------------------
(* Peers and threads                                                        *)

\* The peer of a peer is another one.
LEMMA OtherPeer ==
    ASSUME NEW p \in Peers
    PROVE  Other(p) \in Peers /\ Other(p) # p
<1>1. IsFiniteSet(Peers) /\ Cardinality(Peers) = 2
  BY StreamsAssumption
<1>2. Peers # {p}
  BY <1>1, FS_Singleton
<1>3. \E q \in Peers : q # p
  BY <1>2
<1>. QED
  BY <1>3 DEF Other

\* A thread is one of a peer.
LEMMA PeerOfThread ==
    ASSUME NEW t \in Threads
    PROVE  t[1] \in Peers
  BY DEF Threads

\* A thread is idle or has a call.
LEMMA Underway ==
    ASSUME Typed, NEW t \in Threads
    PROVE  /\ event[t] \in Calls(app.sizes) \/ event[t] = Idle
           /\ event[t] = Idle => event[t].at = "idle" /\ event[t].type = "NONE"
           /\ event[t] \in Calls(app.sizes) =>
              /\ event[t].type \in Types /\ event[t].name \in Names
              /\ event[t].id \in Numbers /\ event[t].size \in Nat
              /\ event[t].type = "CREATE" => event[t].size \in app.sizes
              /\ event[t].at \in {"queued", "blocked", "pending", "created"}
  BY DEF Typed, Idle, Calls

-----------------------------------------------------------------------------
(* Channels                                                                 *)

\* A channel gets a message, or loses its first one; one that loses its first
\* message while another gets one of the same call.
Grown(ch, ch2, c, m) ==
    ch2[c] = Append(ch[c], m) /\ \A d \in Channels \ {c} : ch2[d] = ch[d]
Shrunk(ch, ch2, c) ==
    ch[c] # <<>> /\ ch2[c] = Tail(ch[c]) /\ \A d \in Channels \ {c} : ch2[d] = ch[d]
Passed(ch, ch2, b, c, m) ==
    /\ ch[b] # <<>> /\ m.thread = Head(ch[b]).thread
    /\ ch2[b] = Tail(ch[b]) /\ ch2[c] = Append(ch[c], m)
    /\ \A d \in Channels \ {b, c} : ch2[d] = ch[d]

\* A message at the end of a channel: its call has a place more, the others keep theirs.
LEMMA AppendedTo ==
    ASSUME NEW S, NEW ch \in [Channels -> Seq(S)], NEW c \in Channels, NEW m \in S,
           NEW ch2 \in [Channels -> Seq(S)], Grown(ch, ch2, c, m), NEW t
    PROVE  /\ t # m.thread /\ InNoPlace(ch, t) => InNoPlace(ch2, t)
           /\ t # m.thread /\ InOnePlace(ch, t) => InOnePlace(ch2, t)
           /\ t = m.thread /\ InNoPlace(ch, t) => InOnePlace(ch2, t)
<1>. DEFINE n == Len(ch[c]) + 1
<1>3. /\ n \in DOMAIN ch2[c] /\ ch2[c][n] = m /\ n \notin DOMAIN ch[c]
      /\ \A i \in DOMAIN ch[c] : i \in DOMAIN ch2[c] /\ ch2[c][i] = ch[c][i]
      /\ \A i \in DOMAIN ch2[c] : i = n \/ i \in DOMAIN ch[c]
  BY DEF Grown
<1>4. \A d \in Channels \ {c} : ch2[d] = ch[d]
  BY DEF Grown
<1>. HIDE DEF n
<1>5. t # m.thread /\ InNoPlace(ch, t) => InNoPlace(ch2, t)
  BY <1>3, <1>4 DEF InNoPlace
<1>6. ASSUME t # m.thread, InOnePlace(ch, t) PROVE InOnePlace(ch2, t)
  <2>0. PICK d \in Channels : \E i \in DOMAIN ch[d] :
          /\ ch[d][i].thread = t
          /\ \A e \in Channels : \A j \in DOMAIN ch[e] : ch[e][j].thread = t => e = d /\ j = i
    BY <1>6 DEF InOnePlace
  <2>1. PICK i \in DOMAIN ch[d] :
          /\ ch[d][i].thread = t
          /\ \A e \in Channels : \A j \in DOMAIN ch[e] : ch[e][j].thread = t => e = d /\ j = i
    BY <2>0
  <2>2. i \in DOMAIN ch2[d] /\ ch2[d][i].thread = t
    BY <1>3, <1>4, <2>1
  <2>3. \A e \in Channels : \A j \in DOMAIN ch2[e] : ch2[e][j].thread = t => e = d /\ j = i
    <3>. SUFFICES ASSUME NEW e \in Channels, NEW j \in DOMAIN ch2[e], ch2[e][j].thread = t
                  PROVE  e = d /\ j = i
      OBVIOUS
    <3>1. CASE e = c
      <4>1. j # n
        BY <1>3, <1>6, <3>1
      <4>2. j \in DOMAIN ch[e] /\ ch[e][j].thread = t
        BY <1>3, <3>1, <4>1
      <4>. QED
        BY <2>1, <4>2
    <3>2. CASE e # c
      <4>1. j \in DOMAIN ch[e] /\ ch[e][j].thread = t
        BY <1>4, <3>2
      <4>. QED
        BY <2>1, <4>1
    <3>. QED
      BY <3>1, <3>2
  <2>. QED
    BY <2>2, <2>3 DEF InOnePlace
<1>7. ASSUME t = m.thread, InNoPlace(ch, t) PROVE InOnePlace(ch2, t)
  <2>1. \A e \in Channels : \A j \in DOMAIN ch2[e] : ch2[e][j].thread = t => e = c /\ j = n
    BY <1>3, <1>4, <1>7 DEF InNoPlace
  <2>. QED
    BY <1>3, <1>7, <2>1 DEF InOnePlace
<1>. QED
  BY <1>5, <1>6, <1>7

\* The first message of a channel is taken: its call has a place less, the others
\* keep theirs, although messages move up.
LEMMA TakenFrom ==
    ASSUME NEW S, NEW ch \in [Channels -> Seq(S)], NEW c \in Channels, NEW ch2 \in [Channels -> Seq(S)],
           Shrunk(ch, ch2, c), NEW t
    PROVE  /\ t # Head(ch[c]).thread /\ InNoPlace(ch, t) => InNoPlace(ch2, t)
           /\ t # Head(ch[c]).thread /\ InOnePlace(ch, t) => InOnePlace(ch2, t)
           /\ t = Head(ch[c]).thread /\ InOnePlace(ch, t) => InNoPlace(ch2, t)
<1>2. /\ 1 \in DOMAIN ch[c] /\ Head(ch[c]) = ch[c][1]
      /\ DOMAIN ch[c] \subseteq Nat
      /\ \A i \in DOMAIN ch2[c] : i + 1 \in DOMAIN ch[c] /\ ch2[c][i] = ch[c][i + 1] /\ i + 1 # 1
      /\ \A i \in DOMAIN ch[c] : i # 1 => i - 1 \in DOMAIN ch2[c] /\ ch2[c][i - 1] = ch[c][i]
      /\ DOMAIN ch2[c] \subseteq Nat
  BY DEF Shrunk
<1>3. \A d \in Channels \ {c} : ch2[d] = ch[d]
  BY DEF Shrunk
<1>4. t # Head(ch[c]).thread /\ InNoPlace(ch, t) => InNoPlace(ch2, t)
  BY <1>2, <1>3 DEF InNoPlace
<1>5. ASSUME t # Head(ch[c]).thread, InOnePlace(ch, t) PROVE InOnePlace(ch2, t)
  <2>0. PICK d \in Channels : \E i \in DOMAIN ch[d] :
          /\ ch[d][i].thread = t
          /\ \A e \in Channels : \A j \in DOMAIN ch[e] : ch[e][j].thread = t => e = d /\ j = i
    BY <1>5 DEF InOnePlace
  <2>1. PICK i \in DOMAIN ch[d] :
          /\ ch[d][i].thread = t
          /\ \A e \in Channels : \A j \in DOMAIN ch[e] : ch[e][j].thread = t => e = d /\ j = i
    BY <2>0
  <2>2. CASE d = c
    <3>1. i # 1
      BY <1>5, <2>1, <2>2
    <3>2. PICK k \in DOMAIN ch2[c] : k + 1 = i /\ ch2[c][k].thread = t
      <4>1. i \in Nat /\ i - 1 \in DOMAIN ch2[c] /\ ch2[c][i - 1].thread = t
        BY <1>2, <2>1, <2>2, <3>1
      <4>2. PICK k \in DOMAIN ch2[c] : k = i - 1
        BY <4>1
      <4>3. k + 1 = i
        BY <4>2
      <4>. QED
        BY <4>1
    <3>3. ASSUME NEW e \in Channels, NEW j \in DOMAIN ch2[e], ch2[e][j].thread = t
          PROVE  e = c /\ j = k
      <4>1. e = c
        BY <1>3, <2>1, <2>2, <3>3
      <4>2. j \in Nat /\ j + 1 = i /\ k \in Nat
        BY <1>2, <2>1, <3>3, <4>1
      <4>. QED
        BY <3>2, <4>1, <4>2
    <3>. QED
      BY <3>2, <3>3 DEF InOnePlace
  <2>3. CASE d # c
    <3>1. i \in DOMAIN ch2[d] /\ ch2[d][i].thread = t
      BY <1>3, <2>1, <2>3
    <3>2. \A e \in Channels : \A j \in DOMAIN ch2[e] : ch2[e][j].thread = t => e = d /\ j = i
      <4>. SUFFICES ASSUME NEW e \in Channels, NEW j \in DOMAIN ch2[e], ch2[e][j].thread = t
                    PROVE  e = d /\ j = i
        OBVIOUS
      <4>1. CASE e = c
        <5>1. j + 1 \in DOMAIN ch[e] /\ ch[e][j + 1].thread = t
          BY <1>2, <4>1
        <5>. QED
          BY <2>1, <2>3, <4>1, <5>1
      <4>2. CASE e # c
        <5>1. j \in DOMAIN ch[e] /\ ch[e][j].thread = t
          BY <1>3, <4>2
        <5>. QED
          BY <2>1, <5>1
      <4>. QED
        BY <4>1, <4>2
    <3>. QED
      BY <3>1, <3>2 DEF InOnePlace
  <2>. QED
    BY <2>2, <2>3
<1>6. ASSUME t = Head(ch[c]).thread, InOnePlace(ch, t) PROVE InNoPlace(ch2, t)
  <2>1. \A e \in Channels : \A j \in DOMAIN ch[e] : ch[e][j].thread = t => e = c /\ j = 1
    BY <1>2, <1>6 DEF InOnePlace
  <2>. SUFFICES ASSUME NEW e \in Channels, NEW j \in DOMAIN ch2[e], ch2[e][j].thread = t
                PROVE  FALSE
    BY DEF InNoPlace
  <2>2. CASE e = c
    <3>1. j + 1 \in DOMAIN ch[c] /\ ch[c][j + 1].thread = t /\ j + 1 # 1
      BY <1>2, <2>2
    <3>. QED
      BY <2>1, <3>1
  <2>3. CASE e # c
    BY <1>3, <2>1, <2>3
  <2>. QED
    BY <2>2, <2>3
<1>. QED
  BY <1>4, <1>5, <1>6

\* The channels are the wire and the queues.
LEMMA ChannelTypes ==
    ASSUME Typed
    PROVE  /\ channels \in [Channels -> Seq(Packets(app.sizes))]
           /\ \A p \in Peers : /\ <<"wire", p>> \in Channels /\ channels[<<"wire", p>>] = wire[p]
                               /\ <<"rQueue", p>> \in Channels /\ channels[<<"rQueue", p>>] = rQueue[p]
  BY DEF Typed, channels, Channels

\* A channel is the wire or the queue of a peer.
LEMMA ChannelNames ==
    ASSUME NEW c \in Channels
    PROVE  \E p \in Peers : c = <<"wire", p>> \/ c = <<"rQueue", p>>
  BY DEF Channels

\* So they are after a step.
LEMMA NextChannels ==
    ASSUME NEW S, wire' \in [Peers -> Seq(S)], rQueue' \in [Peers -> Seq(S)]
    PROVE  /\ channels' \in [Channels -> Seq(S)]
           /\ \A p \in Peers : /\ channels'[<<"wire", p>>] = wire'[p]
                               /\ channels'[<<"rQueue", p>>] = rQueue'[p]
  BY DEF channels, Channels

\* p sends a message, receives the first one sent to it, answers the first one in
\* its queue, handles it without an answer.
Sent(p, m) == wire' = [wire EXCEPT ![p] = Append(@, m)] /\ rQueue' = rQueue
Received(p) ==
    /\ wire[Other(p)] # <<>>
    /\ rQueue' = [rQueue EXCEPT ![p] = Append(@, Head(wire[Other(p)]))]
    /\ wire' = [wire EXCEPT ![Other(p)] = Tail(@)]
Answered(p, m) ==
    /\ rQueue[p] # <<>> /\ rQueue' = [rQueue EXCEPT ![p] = Tail(@)]
    /\ wire' = [wire EXCEPT ![p] = Append(@, m)]
Handled(p) ==
    /\ rQueue[p] # <<>> /\ rQueue' = [rQueue EXCEPT ![p] = Tail(@)] /\ wire' = wire

\* What such a step does to the messages under way.
Packeted == wire' \in [Peers -> Seq(Packets(app.sizes))] /\ rQueue' \in [Peers -> Seq(Packets(app.sizes))]
Kept(t) ==
    /\ InNoPlace(channels, t) => InNoPlace(channels', t)
    /\ InOnePlace(channels, t) => InOnePlace(channels', t)

\* A message that is sent gets a place on the wire.
LEMMA SentMoves ==
    ASSUME Typed, NEW p \in Peers, NEW m \in Packets(app.sizes), Sent(p, m)
    PROVE  /\ Packeted
           /\ \A t \in Threads \ {m.thread} : Kept(t)
           /\ InNoPlace(channels, m.thread) => InOnePlace(channels', m.thread)
<1>1. \A s \in Seq(Packets(app.sizes)) : Append(s, m) \in Seq(Packets(app.sizes))
  OBVIOUS
<1>2. wire \in [Peers -> Seq(Packets(app.sizes))] /\ rQueue \in [Peers -> Seq(Packets(app.sizes))]
  BY DEF Typed
<1>3. wire' \in [Peers -> Seq(Packets(app.sizes))] /\ rQueue' \in [Peers -> Seq(Packets(app.sizes))]
  BY <1>2 DEF Sent
<1>4. PICK c \in Channels : c = <<"wire", p>>
  BY ChannelTypes
<1>5. channels'[c] = Append(channels[c], m)
  BY <1>3, <1>4, ChannelTypes, NextChannels DEF Sent
<1>6. ASSUME NEW d \in Channels \ {c} PROVE channels'[d] = channels[d]
  <2>1. PICK q \in Peers : d = <<"wire", q>> \/ d = <<"rQueue", q>>
    BY ChannelNames
  <2>2. CASE d = <<"wire", q>>
    <3>1. q # p
      BY <1>4, <2>2
    <3>2. wire'[q] = wire[q]
      BY <3>1 DEF Sent
    <3>. QED
      BY <1>3, <2>2, <3>2, ChannelTypes, NextChannels
  <2>3. CASE d = <<"rQueue", q>>
    BY <1>3, <2>3, ChannelTypes, NextChannels DEF Sent
  <2>. QED
    BY <2>1, <2>2, <2>3
<1>7. Grown(channels, channels', c, m)
  BY <1>5, <1>6 DEF Grown
<1>8. channels \in [Channels -> Seq(Packets(app.sizes))] /\ channels' \in [Channels -> Seq(Packets(app.sizes))]
  BY <1>3, ChannelTypes, NextChannels
<1>9. \A t : /\ t # m.thread /\ InNoPlace(channels, t) => InNoPlace(channels', t)
             /\ t # m.thread /\ InOnePlace(channels, t) => InOnePlace(channels', t)
             /\ t = m.thread /\ InNoPlace(channels, t) => InOnePlace(channels', t)
  BY <1>7, <1>8, AppendedTo
<1>. QED
  BY <1>3, <1>9 DEF Packeted, Kept

\* A message that is handled had the only place of its call, which has none then.
LEMMA HandledMoves ==
    ASSUME Typed, NEW p \in Peers, Handled(p)
    PROVE  /\ Packeted
           /\ Head(rQueue[p]) \in Packets(app.sizes)
           /\ ~InNoPlace(channels, Head(rQueue[p]).thread)
           /\ \A t \in Threads \ {Head(rQueue[p]).thread} : Kept(t)
           /\ InOnePlace(channels, Head(rQueue[p]).thread) => InNoPlace(channels', Head(rQueue[p]).thread)
<1>1. \A s \in Seq(Packets(app.sizes)) : s # <<>> => Tail(s) \in Seq(Packets(app.sizes)) /\ Head(s) \in Packets(app.sizes)
                                           /\ Head(s) = s[1] /\ 1 \in DOMAIN s
  OBVIOUS
<1>2. wire \in [Peers -> Seq(Packets(app.sizes))] /\ rQueue \in [Peers -> Seq(Packets(app.sizes))]
  BY DEF Typed
<1>3. wire' \in [Peers -> Seq(Packets(app.sizes))] /\ rQueue' \in [Peers -> Seq(Packets(app.sizes))]
  BY <1>2 DEF Handled
<1>4. PICK c \in Channels : c = <<"rQueue", p>>
  BY ChannelTypes
<1>5. channels[c] = rQueue[p] /\ channels'[c] = Tail(channels[c])
  BY <1>3, <1>4, ChannelTypes, NextChannels DEF Handled
<1>6. ASSUME NEW d \in Channels \ {c} PROVE channels'[d] = channels[d]
  <2>1. PICK q \in Peers : d = <<"wire", q>> \/ d = <<"rQueue", q>>
    BY ChannelNames
  <2>2. CASE d = <<"rQueue", q>>
    <3>1. q # p
      BY <1>4, <2>2
    <3>2. rQueue'[q] = rQueue[q]
      BY <3>1 DEF Handled
    <3>. QED
      BY <1>3, <2>2, <3>2, ChannelTypes, NextChannels
  <2>3. CASE d = <<"wire", q>>
    BY <1>3, <2>3, ChannelTypes, NextChannels DEF Handled
  <2>. QED
    BY <2>1, <2>2, <2>3
<1>7. Shrunk(channels, channels', c)
  BY <1>5, <1>6 DEF Shrunk, Handled
<1>8. channels \in [Channels -> Seq(Packets(app.sizes))] /\ channels' \in [Channels -> Seq(Packets(app.sizes))]
  BY <1>3, ChannelTypes, NextChannels
<1>9. \A t : /\ t # Head(channels[c]).thread /\ InNoPlace(channels, t) => InNoPlace(channels', t)
             /\ t # Head(channels[c]).thread /\ InOnePlace(channels, t) => InOnePlace(channels', t)
             /\ t = Head(channels[c]).thread /\ InOnePlace(channels, t) => InNoPlace(channels', t)
  BY <1>7, <1>8, TakenFrom
<1>10. Head(rQueue[p]) \in Packets(app.sizes) /\ Head(rQueue[p]) = channels[c][1] /\ 1 \in DOMAIN channels[c]
  BY <1>2, <1>5 DEF Handled
<1>. QED
  BY <1>3, <1>5, <1>9, <1>10 DEF Packeted, Kept, InNoPlace

\* A message that is taken from one channel and passed on to another, or answered,
\* leaves every call as many places as it had.
LEMMA PassedOn ==
    ASSUME NEW S, NEW ch \in [Channels -> Seq(S)], NEW ch2 \in [Channels -> Seq(S)],
           NEW b \in Channels, NEW c \in Channels, b # c, NEW m \in S,
           Passed(ch, ch2, b, c, m), NEW t
    PROVE  /\ InNoPlace(ch, t) => InNoPlace(ch2, t)
           /\ InOnePlace(ch, t) => InOnePlace(ch2, t)
<1>1. Tail(ch[b]) \in Seq(S) /\ Head(ch[b]) = ch[b][1] /\ 1 \in DOMAIN ch[b]
  BY DEF Passed
<1>2. PICK ch1 \in [Channels -> Seq(S)] : ch1 = [ch EXCEPT ![b] = Tail(ch[b])]
  BY <1>1
<1>3. Shrunk(ch, ch1, b)
  BY <1>2 DEF Shrunk
<1>4. Grown(ch1, ch2, c, m)
  <2>1. ch1[c] = ch[c] /\ ch1[b] = Tail(ch[b])
    BY <1>2
  <2>2. \A d \in Channels \ {c} : ch2[d] = ch1[d]
    BY <1>2 DEF Passed
  <2>. QED
    BY <2>1, <2>2 DEF Grown, Passed
<1>5. m.thread = Head(ch[b]).thread
  BY DEF Passed
<1>6. /\ t # m.thread /\ InNoPlace(ch, t) => InNoPlace(ch1, t)
      /\ t # m.thread /\ InOnePlace(ch, t) => InOnePlace(ch1, t)
      /\ t = m.thread /\ InOnePlace(ch, t) => InNoPlace(ch1, t)
  BY <1>3, <1>5, TakenFrom
<1>7. /\ t # m.thread /\ InNoPlace(ch1, t) => InNoPlace(ch2, t)
      /\ t # m.thread /\ InOnePlace(ch1, t) => InOnePlace(ch2, t)
      /\ t = m.thread /\ InNoPlace(ch1, t) => InOnePlace(ch2, t)
  BY <1>4, AppendedTo
<1>8. InNoPlace(ch, t) => t # m.thread
  BY <1>1, <1>5 DEF InNoPlace
<1>. QED
  BY <1>6, <1>7, <1>8

\* A message that is received changes its place,
LEMMA ReceivedMoves ==
    ASSUME Typed, NEW p \in Peers, Received(p)
    PROVE  Packeted /\ \A t : Kept(t)
<1>1. PICK q \in Peers : q = Other(p)
  BY OtherPeer
<1>2. wire \in [Peers -> Seq(Packets(app.sizes))] /\ rQueue \in [Peers -> Seq(Packets(app.sizes))]
  BY DEF Typed
<1>3. \A s \in Seq(Packets(app.sizes)) : s # <<>> => Tail(s) \in Seq(Packets(app.sizes)) /\ Head(s) \in Packets(app.sizes)
  OBVIOUS
<1>4. \A s \in Seq(Packets(app.sizes)), m \in Packets(app.sizes) : Append(s, m) \in Seq(Packets(app.sizes))
  OBVIOUS
<1>5. PICK m \in Packets(app.sizes) : m = Head(wire[q])
  BY <1>1, <1>2 DEF Received
<1>6. /\ wire' = [wire EXCEPT ![q] = Tail(@)] /\ wire[q] # <<>>
      /\ rQueue' = [rQueue EXCEPT ![p] = Append(@, m)]
  BY <1>1, <1>5 DEF Received
<1>7. wire' \in [Peers -> Seq(Packets(app.sizes))] /\ rQueue' \in [Peers -> Seq(Packets(app.sizes))]
  BY <1>2, <1>6
<1>8. PICK b \in Channels, c \in Channels : b = <<"wire", q>> /\ c = <<"rQueue", p>>
  BY ChannelTypes
<1>9. /\ b # c /\ channels[b] = wire[q] /\ channels'[b] = Tail(channels[b])
      /\ channels'[c] = Append(channels[c], m)
  BY <1>6, <1>7, <1>8, ChannelTypes, NextChannels
<1>10. ASSUME NEW d \in Channels \ {b, c} PROVE channels'[d] = channels[d]
  <2>1. PICK r \in Peers : d = <<"wire", r>> \/ d = <<"rQueue", r>>
    BY ChannelNames
  <2>2. CASE d = <<"wire", r>>
    <3>1. r # q
      BY <1>8, <2>2
    <3>2. wire'[r] = wire[r]
      BY <1>6, <3>1
    <3>. QED
      BY <1>7, <2>2, <3>2, ChannelTypes, NextChannels
  <2>3. CASE d = <<"rQueue", r>>
    <3>1. r # p
      BY <1>8, <2>3
    <3>2. rQueue'[r] = rQueue[r]
      BY <1>6, <3>1
    <3>. QED
      BY <1>7, <2>3, <3>2, ChannelTypes, NextChannels
  <2>. QED
    BY <2>1, <2>2, <2>3
<1>11. channels \in [Channels -> Seq(Packets(app.sizes))] /\ channels' \in [Channels -> Seq(Packets(app.sizes))]
  BY <1>7, ChannelTypes, NextChannels
<1>12. m \in Packets(app.sizes) /\ Passed(channels, channels', b, c, m)
  BY <1>5, <1>6, <1>9, <1>10 DEF Passed
<1>13. ASSUME NEW t PROVE Kept(t)
  BY <1>9, <1>11, <1>12, PassedOn DEF Kept
<1>. QED
  BY <1>7, <1>13 DEF Packeted

\* and so does one that is answered.
LEMMA AnsweredMoves ==
    ASSUME Typed, NEW p \in Peers, NEW m \in Packets(app.sizes), Answered(p, m),
           m.thread = Head(rQueue[p]).thread
    PROVE  Packeted /\ \A t : Kept(t)
<1>2. wire \in [Peers -> Seq(Packets(app.sizes))] /\ rQueue \in [Peers -> Seq(Packets(app.sizes))]
  BY DEF Typed
<1>3. \A s \in Seq(Packets(app.sizes)) : s # <<>> => Tail(s) \in Seq(Packets(app.sizes)) /\ Head(s) \in Packets(app.sizes)
  OBVIOUS
<1>4. \A s \in Seq(Packets(app.sizes)) : Append(s, m) \in Seq(Packets(app.sizes))
  OBVIOUS
<1>6. /\ rQueue' = [rQueue EXCEPT ![p] = Tail(@)] /\ rQueue[p] # <<>>
      /\ wire' = [wire EXCEPT ![p] = Append(@, m)]
  BY DEF Answered
<1>7. wire' \in [Peers -> Seq(Packets(app.sizes))] /\ rQueue' \in [Peers -> Seq(Packets(app.sizes))]
  BY <1>2, <1>6
<1>8. PICK b \in Channels, c \in Channels : c = <<"wire", p>> /\ b = <<"rQueue", p>>
  BY ChannelTypes
<1>9. /\ b # c /\ channels[b] = rQueue[p] /\ channels'[b] = Tail(channels[b])
      /\ channels'[c] = Append(channels[c], m)
  BY <1>6, <1>7, <1>8, ChannelTypes, NextChannels
<1>10. ASSUME NEW d \in Channels \ {b, c} PROVE channels'[d] = channels[d]
  <2>1. PICK r \in Peers : d = <<"wire", r>> \/ d = <<"rQueue", r>>
    BY ChannelNames
  <2>2. CASE d = <<"wire", r>>
    <3>1. r # p
      BY <1>8, <2>2
    <3>2. wire'[r] = wire[r]
      BY <1>6, <3>1
    <3>. QED
      BY <1>7, <2>2, <3>2, ChannelTypes, NextChannels
  <2>3. CASE d = <<"rQueue", r>>
    <3>1. r # p
      BY <1>8, <2>3
    <3>2. rQueue'[r] = rQueue[r]
      BY <1>6, <3>1
    <3>. QED
      BY <1>7, <2>3, <3>2, ChannelTypes, NextChannels
  <2>. QED
    BY <2>1, <2>2, <2>3
<1>11. channels \in [Channels -> Seq(Packets(app.sizes))] /\ channels' \in [Channels -> Seq(Packets(app.sizes))]
  BY <1>7, ChannelTypes, NextChannels
<1>12. m \in Packets(app.sizes) /\ Passed(channels, channels', b, c, m)
  BY <1>6, <1>9, <1>10 DEF Passed
<1>13. ASSUME NEW t PROVE Kept(t)
  BY <1>9, <1>11, <1>12, PassedOn DEF Kept
<1>. QED
  BY <1>7, <1>13 DEF Packeted

-----------------------------------------------------------------------------
(* Calls and entries                                                        *)

\* The sizes the applications open streams with.
LEMMA SizesAre ==
    ASSUME Typed
    PROVE  app.sizes \subseteq Nat \ {0} /\ (OneSize => \A a, b \in app.sizes : a = b)
<1>1. app \in Uses
  BY StreamsAssumption DEF Typed
<1>. QED
  BY <1>1 DEF Typed, Uses, OneSize

\* The entry of a stream.
LEMMA EntryAt ==
    ASSUME Typed, NEW p \in Peers, NEW n \in Names
    PROVE  stream[p][n] \in Entries(app.sizes)
  BY DEF Typed

\* What the calls and the handlers do to an entry.
LEMMA EntryChanges ==
    ASSUME Typed, NEW s \in Entries(app.sizes)
    PROVE  /\ Charge(s) \in Entries(app.sizes)
           /\ MarkClosing(s) \in Entries(app.sizes)
           /\ ClosedHere(s) \in Entries(app.sizes)
           /\ \A c \in BOOLEAN : Freed([s EXCEPT !.readSize = 0, !.closing = c]) \in Entries(app.sizes)
           /\ s.held # 0 => [s EXCEPT !.held = @ - 1, !.localFill = @ - 1] \in Entries(app.sizes)
           /\ s.unread > 0 => [s EXCEPT !.unread = @ - 1, !.held = @ + 1] \in Entries(app.sizes)
           /\ [s EXCEPT !.unread = @ + 1, !.localFill = @ + 1] \in Entries(app.sizes)
           /\ [s EXCEPT !.remoteFill = @ - 1] \in Entries(app.sizes)
<1>1. None \in Numbers
  BY DEF Numbers
<1>2. Charge(s) \in Entries(app.sizes)
  BY DEF Entries, Charge
<1>3. MarkClosing(s) \in Entries(app.sizes)
  BY DEF Entries, MarkClosing
<1>4. \A u \in Entries(app.sizes) : Freed(u) \in Entries(app.sizes)
  BY <1>1 DEF Entries, Freed
<1>5. [s EXCEPT !.writeSize = 0] \in Entries(app.sizes)
  BY DEF Entries
<1>6. \A c \in BOOLEAN : [s EXCEPT !.readSize = 0, !.closing = c] \in Entries(app.sizes)
  BY DEF Entries
<1>. s.unread \in Nat /\ s.held \in Nat /\ s.localFill \in Int
  BY DEF Entries
<1>7. s.held # 0 => [s EXCEPT !.held = @ - 1, !.localFill = @ - 1] \in Entries(app.sizes)
  <2>. SUFFICES ASSUME s.held # 0
                PROVE  [s EXCEPT !.held = @ - 1, !.localFill = @ - 1] \in Entries(app.sizes)
    OBVIOUS
  <2>1. PICK held \in Nat, fill \in Int : held = s.held - 1 /\ fill = s.localFill - 1
    OBVIOUS
  <2>2. [s EXCEPT !.held = held, !.localFill = fill] \in Entries(app.sizes)
    BY DEF Entries
  <2>. QED
    BY <2>1, <2>2
<1>8. s.unread > 0 => [s EXCEPT !.unread = @ - 1, !.held = @ + 1] \in Entries(app.sizes)
  <2>. SUFFICES ASSUME s.unread > 0
                PROVE  [s EXCEPT !.unread = @ - 1, !.held = @ + 1] \in Entries(app.sizes)
    OBVIOUS
  <2>1. PICK unread \in Nat, held \in Nat : unread = s.unread - 1 /\ held = s.held + 1
    OBVIOUS
  <2>2. [s EXCEPT !.unread = unread, !.held = held] \in Entries(app.sizes)
    BY DEF Entries
  <2>. QED
    BY <2>1, <2>2
<1>9. [s EXCEPT !.unread = @ + 1, !.localFill = @ + 1] \in Entries(app.sizes)
  <2>1. PICK unread \in Nat, fill \in Int : unread = s.unread + 1 /\ fill = s.localFill + 1
    OBVIOUS
  <2>2. [s EXCEPT !.unread = unread, !.localFill = fill] \in Entries(app.sizes)
    BY DEF Entries
  <2>. QED
    BY <2>1, <2>2
<1>10. [s EXCEPT !.remoteFill = @ - 1] \in Entries(app.sizes)
  BY DEF Entries
<1>. QED
  BY <1>2, <1>3, <1>4, <1>5, <1>6, <1>7, <1>8, <1>9, <1>10 DEF ClosedHere

\* allocateNewStream leaves an entry that is not locked when all sizes are the same.
LEMMA AllocatedEntry ==
    ASSUME Typed, NEW s \in Entries(app.sizes), NEW w \in app.sizes \cup {0},
           NEW r \in app.sizes \cup {0}, NEW id \in Numbers
    PROVE  Allocated(s, w, r, id) \in Entries(app.sizes)
<1>1. CASE s.id = None
  <2>1. 0 \in Int /\ FALSE \in BOOLEAN
    OBVIOUS
  <2>2. Allocated(s, w, r, id) =
          [s EXCEPT !.id = id, !.writeSize = w, !.readSize = r,
                    !.remoteFill = 0, !.localFill = 0, !.closing = FALSE]
    BY <1>1 DEF Allocated
  <2>. QED
    BY <2>1, <2>2 DEF Entries
<1>2. CASE s.id # None /\ TooLarge(s, w, r)
  <2>1. ~OneSize
    BY <1>2, SizesAre DEF Entries, TooLarge
  <2>2. Locks = BOOLEAN
    BY <2>1 DEF Locks
  <2>. QED
    BY <1>2, <2>2 DEF Entries, Allocated
<1>3. CASE s.id # None /\ ~TooLarge(s, w, r)
  BY <1>3 DEF Entries, Allocated, SizeOrNew
<1>. QED
  BY <1>1, <1>2, <1>3

\* A step that changes one entry keeps the type of the table.
LEMMA Put ==
    ASSUME Typed, NEW p \in Peers, NEW n \in Names, NEW e \in Entries(app.sizes),
           stream' = [stream EXCEPT ![p][n] = e]
    PROVE  stream' \in [Peers -> [Names -> Entries(app.sizes)]]
  BY DEF Typed

\* What every step keeps of the types, and what it does to the calls that wait.
TypesKept ==
    /\ app' = app /\ aborted' \in BOOLEAN
    /\ stream' \in [Peers -> [Names -> Entries(app.sizes)]]
    /\ next' \in [Peers -> Nat] /\ handle' \in [Peers -> [Names -> Numbers]]
    /\ Packeted
    /\ event' \in [Threads -> Calls(app.sizes) \cup {Idle}]
    /\ calls' \in [Peers -> Nat]
SameWaits == \A u \in Threads : Waits(u)' <=> Waits(u)

\* TypesKept is Typed after the step.
LEMMA TypesStay ==
    ASSUME Typed, TypesKept
    PROVE  Typed'
  BY DEF Typed, TypesKept, Packeted

\* Messages that only change their places, and calls that wait as before.
LEMMA PassedMessages ==
    ASSUME OneMessage, ~aborted, \A u \in Threads : Kept(u), SameWaits
    PROVE  OneMessage'
  BY DEF OneMessage, Kept, SameWaits

\* A step that leaves the messages and the waiting calls alone.
LEMMA SameMessages ==
    ASSUME OneMessage, ~aborted, UNCHANGED <<wire, rQueue>>, SameWaits
    PROVE  OneMessage'
<1>1. channels' = channels
  BY DEF channels
<1>2. \A u \in Threads : Kept(u)
  BY <1>1 DEF Kept
<1>. QED
  BY <1>2, PassedMessages

\* Nothing is said of a process that has ended.
LEMMA AbortedMessages ==
    ASSUME aborted' = TRUE
    PROVE  OneMessage'
  BY DEF OneMessage

\* A call that begins does not wait yet.
LEMMA CallMade ==
    ASSUME Typed, NEW t \in Threads, NEW type \in Types, NEW n \in Names, NEW id \in Numbers,
           NEW size \in Nat, type = "CREATE" => size \in app.sizes, Call(t, type, n, id, size)
    PROVE  /\ ~aborted /\ app' = app /\ SameWaits
           /\ event' \in [Threads -> Calls(app.sizes) \cup {Idle}]
           /\ calls' \in [Peers -> Nat]
<1>1. PICK c : c = [type |-> type, at |-> "queued", name |-> n, id |-> id, size |-> size]
  OBVIOUS
<1>2. c \in Calls(app.sizes) /\ c.at = "queued"
  BY <1>1 DEF Calls
<1>3. event' = [event EXCEPT ![t] = c] /\ event[t] = Idle
  BY <1>1 DEF Call
<1>4. event' \in [Threads -> Calls(app.sizes) \cup {Idle}]
  BY <1>2, <1>3 DEF Typed
<1>5. SameWaits
  BY <1>2, <1>3 DEF SameWaits, Waits, Idle
<1>6. calls' \in [Peers -> Nat]
  BY PeerOfThread DEF Call, Typed
<1>. QED
  BY <1>4, <1>5, <1>6 DEF Call

\* A dispatched call is blocked, or waits.
LEMMA CallBecomes ==
    ASSUME Typed, NEW t \in Threads, event[t].at = "queued",
           NEW at \in {"queued", "blocked", "pending", "created"}, Becomes(t, at)
    PROVE  /\ event' \in [Threads -> Calls(app.sizes) \cup {Idle}]
           /\ \A u \in Threads \ {t} : Waits(u)' <=> Waits(u)
           /\ Waits(t)' <=> at = "pending"
<1>1. event[t] \in Calls(app.sizes)
  BY Underway
<1>2. PICK c : c = [event[t] EXCEPT !.at = at]
  OBVIOUS
<1>3. c \in Calls(app.sizes) /\ c.at = at
  BY <1>1, <1>2 DEF Calls
<1>4. event' = [event EXCEPT ![t] = c]
  BY <1>2 DEF Becomes
<1>. QED
  BY <1>3, <1>4 DEF Typed, Waits

\* A call that ends waits no more.
LEMMA CallEnds ==
    ASSUME Typed, NEW t \in Threads, event' = [event EXCEPT ![t] = Idle]
    PROVE  /\ event' \in [Threads -> Calls(app.sizes) \cup {Idle}]
           /\ \A u \in Threads \ {t} : Waits(u)' <=> Waits(u)
           /\ ~Waits(t)'
  BY DEF Typed, Waits, Idle

\* A dispatched event goes to the peer.
\* A dispatched call that waits has sent its request, and had none under way.
LEMMA CallSent ==
    ASSUME Typed, OneMessage, ~aborted, NEW t \in Threads, event[t].at = "queued",
           SendPending(t), rQueue' = rQueue
    PROVE  /\ Packeted /\ OneMessage'
           /\ event' \in [Threads -> Calls(app.sizes) \cup {Idle}]
<1>1. event[t] \in Calls(app.sizes)
  BY Underway
<1>2. PICK m : m = Request(t)
  OBVIOUS
<1>3. m \in Packets(app.sizes) /\ m.thread = t
  BY <1>1, <1>2 DEF Request, Packets, Calls
<1>4. t[1] \in Peers /\ Sent(t[1], m)
  BY <1>2, PeerOfThread DEF SendPending, Send, Sent
<1>5. /\ Packeted /\ \A u \in Threads \ {t} : Kept(u)
      /\ InNoPlace(channels, t) => InOnePlace(channels', t)
  BY <1>3, <1>4, SentMoves
<1>6. /\ event' \in [Threads -> Calls(app.sizes) \cup {Idle}]
      /\ \A u \in Threads \ {t} : Waits(u)' <=> Waits(u)
      /\ Waits(t)'
  BY CallBecomes DEF SendPending
<1>7. ~Waits(t)
  BY DEF Waits
<1>8. \A u \in Threads : IF Waits(u)' THEN InOnePlace(channels', u) ELSE InNoPlace(channels', u)
  BY <1>5, <1>6, <1>7 DEF OneMessage, Kept
<1>. QED
  BY <1>5, <1>6, <1>8 DEF OneMessage

-----------------------------------------------------------------------------
(* The application and the dispatched calls                                 *)

\* The calls of the application keep types and messages.
LEMMA ApplicationStep ==
    ASSUME Typed, OneMessage, NEW t \in Threads, Application(t)
    PROVE  TypesKept /\ OneMessage'
<1>0. t[1] \in Peers /\ None \in Numbers
  BY PeerOfThread DEF Numbers
<1>1. ASSUME NEW n \in Names, XLinkOpenStream(t, n) PROVE TypesKept /\ OneMessage'
  <2>1. PICK size \in app.sizes : Call(t, "CREATE", n, None, size)
    BY <1>1 DEF XLinkOpenStream
  <2>2. size \in Nat /\ "CREATE" \in Types
    BY SizesAre DEF Types
  <2>3. /\ ~aborted /\ app' = app /\ SameWaits
        /\ event' \in [Threads -> Calls(app.sizes) \cup {Idle}] /\ calls' \in [Peers -> Nat]
    BY <1>0, <2>1, <2>2, CallMade
  <2>4. UNCHANGED <<stream, next, handle, wire, rQueue, aborted>>
    BY <1>1 DEF XLinkOpenStream
  <2>5. OneMessage'
    BY <2>3, <2>4, SameMessages
  <2>. QED
    BY <2>3, <2>4, <2>5 DEF TypesKept, Packeted, Typed
<1>2. ASSUME NEW n \in Names, XLinkWriteData(t, n) PROVE TypesKept /\ OneMessage'
  <2>1. handle[t[1]][n] \in Numbers
    BY <1>0 DEF Typed
  <2>2. PICK id \in Numbers : id = handle[t[1]][n]
    BY <2>1
  <2>3. Call(t, "WRITE", n, id, 1) /\ "WRITE" \in Types
    BY <1>2, <2>2 DEF XLinkWriteData, Types
  <2>4. /\ ~aborted /\ app' = app /\ SameWaits
        /\ event' \in [Threads -> Calls(app.sizes) \cup {Idle}] /\ calls' \in [Peers -> Nat]
    BY <2>3, CallMade
  <2>5. UNCHANGED <<stream, next, handle, wire, rQueue, aborted>>
    BY <1>2 DEF XLinkWriteData
  <2>6. OneMessage'
    BY <2>4, <2>5, SameMessages
  <2>. QED
    BY <2>4, <2>5, <2>6 DEF TypesKept, Packeted, Typed
<1>3. ASSUME NEW n \in Names, ReadAndRelease(t, n) PROVE TypesKept /\ OneMessage'
  <2>1. stream[t[1]][n] \in Entries(app.sizes)
    BY <1>0, EntryAt
  <2>2. PICK id \in Numbers : id = stream[t[1]][n].id
    BY <2>1 DEF Entries
  <2>3. Call(t, "RELEASE", n, id, 1) /\ "RELEASE" \in Types
    BY <1>3, <2>2 DEF ReadAndRelease, Types
  <2>4. /\ ~aborted /\ app' = app /\ SameWaits
        /\ event' \in [Threads -> Calls(app.sizes) \cup {Idle}] /\ calls' \in [Peers -> Nat]
    BY <2>3, CallMade
  <2>5. UNCHANGED <<next, handle, wire, rQueue, aborted>>
    BY <1>3 DEF ReadAndRelease
  <2>6. OneMessage'
    BY <2>4, <2>5, SameMessages
  <2>7. PICK e : e = [stream[t[1]][n] EXCEPT !.unread = @ - 1, !.held = @ + 1]
    OBVIOUS
  <2>8. e \in Entries(app.sizes)
    BY <1>3, <2>1, <2>7, EntryChanges DEF ReadAndRelease
  <2>9. stream' = [stream EXCEPT ![t[1]][n] = e]
    BY <1>3, <2>7 DEF ReadAndRelease
  <2>10. stream' \in [Peers -> [Names -> Entries(app.sizes)]]
    BY <1>0, <2>8, <2>9, Put
  <2>. QED
    BY <2>4, <2>5, <2>6, <2>10 DEF TypesKept, Packeted, Typed
<1>4. ASSUME NEW n \in Names, XLinkCloseStream(t, n) PROVE TypesKept /\ OneMessage'
  <2>1. handle[t[1]][n] \in Numbers
    BY <1>0 DEF Typed
  <2>2. PICK id \in Numbers : id = handle[t[1]][n]
    BY <2>1
  <2>3. Call(t, "CLOSE", n, id, 0) /\ "CLOSE" \in Types
    BY <1>4, <2>2 DEF XLinkCloseStream, Types
  <2>4. /\ ~aborted /\ app' = app /\ SameWaits
        /\ event' \in [Threads -> Calls(app.sizes) \cup {Idle}] /\ calls' \in [Peers -> Nat]
    BY <2>3, CallMade
  <2>5. UNCHANGED <<stream, next, wire, rQueue, aborted>>
    BY <1>4 DEF XLinkCloseStream
  <2>6. OneMessage'
    BY <2>4, <2>5, SameMessages
  <2>7. handle' \in [Peers -> [Names -> Numbers]]
    BY <1>0, <1>4 DEF XLinkCloseStream, Typed
  <2>. QED
    BY <2>4, <2>5, <2>6, <2>7 DEF TypesKept, Packeted, Typed
<1>5. CASE OpenReturns(t)
  <2>1. event[t] \in Calls(app.sizes)
    BY <1>5, Underway DEF OpenReturns
  <2>2. PICK n \in Names : n = event[t].name
    BY <2>1 DEF Calls
  <2>3. stream[t[1]][n].id \in Numbers
    BY <1>0, EntryAt DEF Entries
  <2>4. handle' \in [Peers -> [Names -> Numbers]]
    BY <1>5, <2>2, <2>3 DEF OpenReturns, Typed
  <2>5. /\ event' \in [Threads -> Calls(app.sizes) \cup {Idle}]
        /\ \A u \in Threads \ {t} : Waits(u)' <=> Waits(u)
        /\ ~Waits(t)'
    BY <1>5, CallEnds DEF OpenReturns
  <2>6. SameWaits
    BY <1>5, <2>5 DEF SameWaits, OpenReturns, Waits
  <2>7. ~aborted /\ UNCHANGED <<stream, next, wire, rQueue, calls, app, aborted>>
    BY <1>5 DEF OpenReturns
  <2>8. OneMessage'
    BY <2>6, <2>7, SameMessages
  <2>. QED
    BY <2>4, <2>5, <2>7, <2>8 DEF TypesKept, Packeted, Typed
<1>. QED
  BY <1>1, <1>2, <1>3, <1>4, <1>5 DEF Application

\* So does the dispatcher thread with local events,
LEMMA DispatchStep ==
    ASSUME Typed, OneMessage, NEW t \in Threads, Dispatch(t)
    PROVE  TypesKept /\ OneMessage'
<1>0. t[1] \in Peers
  BY PeerOfThread
<1>1. CASE DispatchCreate(t)
  <2>1. ~aborted /\ event[t].at = "queued" /\ SendPending(t)
    BY <1>1 DEF DispatchCreate, Queued
  <2>2. UNCHANGED <<stream, next, handle, rQueue, calls, app, aborted>>
    BY <1>1 DEF DispatchCreate
  <2>3. Packeted /\ OneMessage' /\ event' \in [Threads -> Calls(app.sizes) \cup {Idle}]
    BY <2>1, <2>2, CallSent
  <2>. QED
    BY <2>2, <2>3 DEF TypesKept, Typed
<1>2. CASE DispatchWrite(t)
  <2>1. ~aborted /\ event[t].at = "queued"
    BY <1>2 DEF DispatchWrite, Queued
  <2>2. UNCHANGED <<next, handle, rQueue, calls, app, aborted>>
    BY <1>2 DEF DispatchWrite
  <2>3. PICK n \in Names :
          \/ event' = [event EXCEPT ![t] = Idle] /\ UNCHANGED <<stream, wire>>
          \/ Becomes(t, "blocked") /\ UNCHANGED <<stream, wire>>
          \/ stream' = [stream EXCEPT ![t[1]][n] = Charge(@)] /\ SendPending(t)
    BY <1>2 DEF DispatchWrite
  <2>4. CASE event' = [event EXCEPT ![t] = Idle] /\ UNCHANGED <<stream, wire>>
    <3>1. /\ event' \in [Threads -> Calls(app.sizes) \cup {Idle}]
          /\ \A u \in Threads \ {t} : Waits(u)' <=> Waits(u)
          /\ ~Waits(t)'
      BY <2>4, CallEnds
    <3>2. SameWaits
      BY <2>1, <3>1 DEF SameWaits, Waits
    <3>3. OneMessage'
      BY <2>1, <2>2, <2>4, <3>2, SameMessages
    <3>. QED
      BY <2>2, <2>4, <3>3 DEF TypesKept, Packeted, Typed
  <2>5. CASE Becomes(t, "blocked") /\ UNCHANGED <<stream, wire>>
    <3>1. /\ event' \in [Threads -> Calls(app.sizes) \cup {Idle}]
          /\ \A u \in Threads \ {t} : Waits(u)' <=> Waits(u)
          /\ ~Waits(t)'
      BY <2>1, <2>5, CallBecomes
    <3>2. SameWaits
      BY <2>1, <3>1 DEF SameWaits, Waits
    <3>3. OneMessage'
      BY <2>1, <2>2, <2>5, <3>2, SameMessages
    <3>. QED
      BY <2>2, <2>5, <3>1, <3>3 DEF TypesKept, Packeted, Typed
  <2>6. CASE stream' = [stream EXCEPT ![t[1]][n] = Charge(@)] /\ SendPending(t)
    <3>1. Packeted /\ OneMessage' /\ event' \in [Threads -> Calls(app.sizes) \cup {Idle}]
      BY <2>1, <2>2, <2>6, CallSent
    <3>2. PICK e \in Entries(app.sizes) : e = Charge(stream[t[1]][n])
      BY <1>0, EntryAt, EntryChanges
    <3>3. stream' = [stream EXCEPT ![t[1]][n] = e]
      BY <2>6, <3>2
    <3>4. stream' \in [Peers -> [Names -> Entries(app.sizes)]]
      BY <1>0, <3>3, Put
    <3>. QED
      BY <2>2, <3>1, <3>4 DEF TypesKept, Typed
  <2>. QED
    BY <2>3, <2>4, <2>5, <2>6
<1>3. CASE DispatchRelease(t)
  <2>1. ~aborted /\ event[t].at = "queued" /\ SendPending(t)
    BY <1>3 DEF DispatchRelease, Queued
  <2>2. UNCHANGED <<next, handle, rQueue, calls, app, aborted>>
    BY <1>3 DEF DispatchRelease
  <2>3. Packeted /\ OneMessage' /\ event' \in [Threads -> Calls(app.sizes) \cup {Idle}]
    BY <2>1, <2>2, CallSent
  <2>4. PICK n \in Names :
          stream' = [stream EXCEPT ![t[1]][n] =
              IF stream[t[1]][n].held = 0 THEN stream[t[1]][n]
              ELSE [stream[t[1]][n] EXCEPT !.held = @ - 1, !.localFill = @ - 1]]
    BY <1>3 DEF DispatchRelease
  <2>5. PICK s \in Entries(app.sizes) : s = stream[t[1]][n]
    BY <1>0, EntryAt
  <2>6. PICK e : e = IF s.held = 0 THEN s ELSE [s EXCEPT !.held = @ - 1, !.localFill = @ - 1]
    OBVIOUS
  <2>7. e \in Entries(app.sizes)
    BY <2>6, EntryChanges
  <2>8. stream' = [stream EXCEPT ![t[1]][n] = e]
    BY <2>4, <2>5, <2>6
  <2>9. stream' \in [Peers -> [Names -> Entries(app.sizes)]]
    BY <1>0, <2>7, <2>8, Put
  <2>. QED
    BY <2>2, <2>3, <2>9 DEF TypesKept, Typed
<1>4. CASE DispatchClose(t)
  <2>1. ~aborted /\ event[t].at = "queued"
    BY <1>4 DEF DispatchClose, Queued
  <2>2. UNCHANGED <<next, handle, rQueue, calls, app, aborted>>
    BY <1>4 DEF DispatchClose
  <2>3. PICK n \in Names :
          \/ /\ stream' = [stream EXCEPT ![t[1]][n] = MarkClosing(@)]
             /\ Becomes(t, "blocked") /\ UNCHANGED wire
          \/ SendPending(t) /\ UNCHANGED stream
    BY <1>4 DEF DispatchClose
  <2>4. CASE stream' = [stream EXCEPT ![t[1]][n] = MarkClosing(@)] /\ Becomes(t, "blocked") /\ UNCHANGED wire
    <3>1. /\ event' \in [Threads -> Calls(app.sizes) \cup {Idle}]
          /\ \A u \in Threads \ {t} : Waits(u)' <=> Waits(u)
          /\ ~Waits(t)'
      BY <2>1, <2>4, CallBecomes
    <3>2. SameWaits
      BY <2>1, <3>1 DEF SameWaits, Waits
    <3>3. OneMessage'
      BY <2>1, <2>2, <2>4, <3>2, SameMessages
    <3>4. PICK e \in Entries(app.sizes) : e = MarkClosing(stream[t[1]][n])
      BY <1>0, EntryAt, EntryChanges
    <3>5. stream' = [stream EXCEPT ![t[1]][n] = e]
      BY <2>4, <3>4
    <3>6. stream' \in [Peers -> [Names -> Entries(app.sizes)]]
      BY <1>0, <3>5, Put
    <3>. QED
      BY <2>2, <2>4, <3>1, <3>3, <3>6 DEF TypesKept, Packeted, Typed
  <2>5. CASE SendPending(t) /\ UNCHANGED stream
    <3>1. Packeted /\ OneMessage' /\ event' \in [Threads -> Calls(app.sizes) \cup {Idle}]
      BY <2>1, <2>2, <2>5, CallSent
    <3>. QED
      BY <2>2, <2>5, <3>1 DEF TypesKept, Typed
  <2>. QED
    BY <2>3, <2>4, <2>5
<1>5. CASE DispatchAborts(t)
  <2>1. OneMessage'
    BY <1>5, AbortedMessages DEF DispatchAborts
  <2>. QED
    BY <1>5, <2>1 DEF DispatchAborts, TypesKept, Packeted, Typed
<1>. QED
  BY <1>1, <1>2, <1>3, <1>4, <1>5 DEF Dispatch

-----------------------------------------------------------------------------
(* The threads of the peer                                                  *)

\* The event that is handled next is a message.
LEMMA HeadOfQueue ==
    ASSUME Typed, NEW p \in Peers, rQueue[p] # <<>>
    PROVE  Remote(p) \in Packets(app.sizes)
<1>1. \A s \in Seq(Packets(app.sizes)) : s # <<>> => Head(s) \in Packets(app.sizes)
  OBVIOUS
<1>. QED
  BY DEF Typed, Remote

\* The event at the head of the queue is handled and answered.
\* An event that is answered keeps its call waiting for one message.
LEMMA EventAnswered ==
    ASSUME Typed, OneMessage, ~aborted, NEW p \in Peers, rQueue[p] # <<>>,
           NEW id \in Numbers, NEW ack \in BOOLEAN,
           rQueue' = [rQueue EXCEPT ![p] = Tail(@)], Send(p, Response(p, id, ack)), SameWaits
    PROVE  Packeted /\ OneMessage'
<1>1. PICK m : m = Response(p, id, ack)
  OBVIOUS
<1>2. m \in Packets(app.sizes) /\ m.thread = Head(rQueue[p]).thread
  BY <1>1, HeadOfQueue DEF Response, Packets, Remote
<1>3. Answered(p, m)
  BY <1>1 DEF Answered, Send
<1>4. Packeted /\ \A t : Kept(t)
  BY <1>2, <1>3, AnsweredMoves
<1>. QED
  BY <1>4, PassedMessages

\* the reader thread with what arrives,
LEMMA IncomingStep ==
    ASSUME Typed, OneMessage, NEW p \in Peers, handleIncomingEvent(p)
    PROVE  TypesKept /\ OneMessage'
<1>1. ~aborted /\ UNCHANGED <<next, handle, event, calls, app, aborted>>
  BY DEF handleIncomingEvent
<1>2. Received(p)
  BY DEF handleIncomingEvent, Received, Incoming
<1>3. Packeted /\ \A t : Kept(t)
  BY <1>2, ReceivedMoves
<1>4. OneMessage'
  BY <1>1, <1>3, PassedMessages DEF SameWaits, Waits
<1>5. stream' \in [Peers -> [Names -> Entries(app.sizes)]]
  <2>1. CASE UNCHANGED stream
    BY <2>1 DEF Typed
  <2>2. ASSUME NEW n \in WithId(p, Incoming(p).id),
               stream' = [stream EXCEPT ![p][n].unread = @ + 1, ![p][n].localFill = @ + 1]
        PROVE  stream' \in [Peers -> [Names -> Entries(app.sizes)]]
    <3>1. n \in Names
      BY DEF WithId
    <3>2. PICK s \in Entries(app.sizes) : s = stream[p][n]
      BY <3>1, EntryAt
    <3>3. PICK e \in Entries(app.sizes) : e = [s EXCEPT !.unread = @ + 1, !.localFill = @ + 1]
      BY EntryChanges
    <3>4. stream' = [stream EXCEPT ![p][n] = e]
      BY <2>2, <3>2, <3>3
    <3>. QED
      BY <3>1, <3>4, Put
  <2>. QED
    BY <2>1, <2>2 DEF handleIncomingEvent
<1>. QED
  BY <1>1, <1>3, <1>4, <1>5 DEF TypesKept, Typed

\* the dispatcher thread with a release, which wakes blocked calls,
LEMMA ReleaseStep ==
    ASSUME Typed, OneMessage, NEW p \in Peers, HandleRelease(p)
    PROVE  TypesKept /\ OneMessage'
<1>1. /\ ~aborted /\ rQueue[p] # <<>> /\ rQueue' = [rQueue EXCEPT ![p] = Tail(@)]
      /\ UNCHANGED <<next, handle, calls, app, aborted>>
  BY DEF HandleRelease, Handle
<1>2. PICK n \in WithId(p, Remote(p).id) :
        /\ stream' = [stream EXCEPT ![p][n].remoteFill = @ - 1]
        /\ \E writes \in Unblocked(p, "WRITE", Remote(p).id) :
           \E closes \in IF stream[p][n].closing /\ stream[p][n].localFill = 0
                         THEN Unblocked(p, "CLOSE", Remote(p).id) ELSE {{}} :
              event' = [t \in Threads |-> IF t \in writes \cup closes THEN [event[t] EXCEPT !.at = "queued"]
                                                                      ELSE event[t]]
  BY DEF HandleRelease
<1>3. n \in Names
  BY DEF WithId
<1>4. stream' \in [Peers -> [Names -> Entries(app.sizes)]]
  <2>1. PICK s \in Entries(app.sizes) : s = stream[p][n]
    BY <1>3, EntryAt
  <2>2. PICK e \in Entries(app.sizes) : e = [s EXCEPT !.remoteFill = @ - 1]
    BY EntryChanges
  <2>3. stream' = [stream EXCEPT ![p][n] = e]
    BY <1>2, <2>1, <2>2
  <2>. QED
    BY <1>3, <2>3, Put
<1>5. PICK woken : /\ \A t \in woken : t \in Threads /\ event[t].at = "blocked"
                   /\ event' = [t \in Threads |-> IF t \in woken THEN [event[t] EXCEPT !.at = "queued"]
                                                                 ELSE event[t]]
  <2>1. PICK writes \in Unblocked(p, "WRITE", Remote(p).id) :
        \E closes \in IF stream[p][n].closing /\ stream[p][n].localFill = 0
                      THEN Unblocked(p, "CLOSE", Remote(p).id) ELSE {{}} :
           event' = [t \in Threads |-> IF t \in writes \cup closes THEN [event[t] EXCEPT !.at = "queued"]
                                                                   ELSE event[t]]
    BY <1>2
  <2>2. PICK closes \in Unblocked(p, "CLOSE", Remote(p).id) \cup {{}} :
           event' = [t \in Threads |-> IF t \in writes \cup closes THEN [event[t] EXCEPT !.at = "queued"]
                                                                   ELSE event[t]]
    BY <2>1
  <2>3. \A t \in writes \cup closes : t \in Threads /\ event[t].at = "blocked"
    BY DEF Unblocked, BlockedEvents
  <2>. QED
    BY <2>2, <2>3
<1>6. ASSUME NEW t \in Threads
      PROVE  event'[t] \in Calls(app.sizes) \cup {Idle} /\ (Waits(t)' <=> Waits(t))
  <2>1. CASE t \in woken
    <3>1. event[t] \in Calls(app.sizes) /\ event[t].at = "blocked"
      BY <1>5, <2>1, Underway
    <3>2. PICK c : c = [event[t] EXCEPT !.at = "queued"]
      OBVIOUS
    <3>3. c \in Calls(app.sizes) /\ c.at = "queued"
      BY <3>1, <3>2 DEF Calls
    <3>4. event'[t] = c
      BY <1>5, <2>1, <3>2
    <3>. QED
      BY <3>1, <3>3, <3>4 DEF Waits
  <2>2. CASE t \notin woken
    <3>1. event'[t] = event[t]
      BY <1>5, <2>2
    <3>. QED
      BY <3>1 DEF Waits, Typed
  <2>. QED
    BY <2>1, <2>2
<1>7. event' \in [Threads -> Calls(app.sizes) \cup {Idle}] /\ SameWaits
  <2>1. event' = [t \in Threads |-> event'[t]]
    BY <1>5
  <2>. QED
    BY <1>6, <2>1 DEF SameWaits
<1>8. PICK id \in Numbers : id = Remote(p).id
  BY <1>1, HeadOfQueue DEF Packets
<1>9. Send(p, Response(p, id, TRUE))
  BY <1>8 DEF HandleRelease, Respond
<1>10. Packeted /\ OneMessage'
  BY <1>1, <1>7, <1>9, EventAnswered
<1>. QED
  BY <1>1, <1>4, <1>7, <1>10 DEF TypesKept, Typed

\* allocateNewStream keeps the table and the numbers of the streams.
LEMMA AllocatedStream ==
    ASSUME Typed, NEW p \in Peers, NEW n \in Names, NEW w \in app.sizes \cup {0},
           NEW r \in app.sizes \cup {0}, NEW id \in Numbers, allocateNewStream(p, n, w, r, id)
    PROVE  /\ stream' \in [Peers -> [Names -> Entries(app.sizes)]]
           /\ next' \in [Peers -> Nat]
           /\ AllocatedId(p, n, w, r) \in Numbers
<1>1. PICK given \in Numbers : given = IF id = None THEN next[p] ELSE id
  BY DEF Typed, Numbers
<1>2. PICK s \in Entries(app.sizes) : s = stream[p][n]
  BY EntryAt
<1>3. PICK e \in Entries(app.sizes) : e = Allocated(s, w, r, given)
  BY AllocatedEntry
<1>4. stream' = [stream EXCEPT ![p][n] = e]
  BY <1>1, <1>2, <1>3 DEF allocateNewStream
<1>5. stream' \in [Peers -> [Names -> Entries(app.sizes)]]
  BY <1>4, Put
<1>6. next' \in [Peers -> Nat]
  BY DEF allocateNewStream, NextId, Typed
<1>7. AllocatedId(p, n, w, r) \in Numbers
  BY DEF AllocatedId, Entries, Numbers, Typed
<1>. QED
  BY <1>5, <1>6, <1>7

\* with a stream the peer opens,
LEMMA CreateStep ==
    ASSUME Typed, OneMessage, NEW p \in Peers, HandleCreate(p)
    PROVE  TypesKept /\ OneMessage'
<1>1. /\ ~aborted /\ rQueue[p] # <<>> /\ rQueue' = [rQueue EXCEPT ![p] = Tail(@)]
      /\ UNCHANGED <<handle, event, calls, app, aborted>> /\ Remote(p).type = "CREATE"
  BY DEF HandleCreate, Handle, IsRequest
<1>2. PICK n \in Names, size \in app.sizes : n = Remote(p).name /\ size = Remote(p).size
  BY <1>1, HeadOfQueue DEF Packets
<1>3. allocateNewStream(p, n, 0, size, None) /\ None \in Numbers
  BY <1>2 DEF HandleCreate, Numbers
<1>4. /\ stream' \in [Peers -> [Names -> Entries(app.sizes)]] /\ next' \in [Peers -> Nat]
      /\ AllocatedId(p, n, 0, size) \in Numbers
  BY <1>3, AllocatedStream
<1>5. PICK id \in Numbers : id = AllocatedId(p, n, 0, size)
  BY <1>4
<1>6. Send(p, Response(p, id, TRUE))
  BY <1>2, <1>5 DEF HandleCreate
<1>7. Packeted /\ OneMessage'
  BY <1>1, <1>6, EventAnswered DEF SameWaits, Waits
<1>. QED
  BY <1>1, <1>4, <1>7 DEF TypesKept, Typed

\* with one it closes,
LEMMA CloseStep ==
    ASSUME Typed, OneMessage, NEW p \in Peers, HandleClose(p)
    PROVE  TypesKept /\ OneMessage'
<1>1. /\ ~aborted /\ rQueue[p] # <<>> /\ rQueue' = [rQueue EXCEPT ![p] = Tail(@)]
      /\ UNCHANGED <<next, handle, event, calls, app, aborted>>
  BY DEF HandleClose, Handle
<1>2. PICK id \in Numbers : id = Remote(p).id
  BY <1>1, HeadOfQueue DEF Packets
<1>3. PICK ack \in BOOLEAN : Send(p, Response(p, id, ack))
  BY <1>2 DEF HandleClose
<1>4. Packeted /\ OneMessage'
  BY <1>1, <1>3, EventAnswered DEF SameWaits, Waits
<1>5. stream' \in [Peers -> [Names -> Entries(app.sizes)]]
  <2>1. CASE UNCHANGED stream
    BY <2>1 DEF Typed
  <2>2. CASE ~UNCHANGED stream
    <3>1. PICK n \in WithId(p, Remote(p).id) :
            \/ stream' = [stream EXCEPT ![p][n] = Freed(
                  [stream[p][n] EXCEPT !.readSize = 0,
                        !.closing = IF stream[p][n].readSize # 0 THEN FALSE ELSE @])]
            \/ stream' = [stream EXCEPT ![p][n] = MarkClosing(@)]
      BY <2>2 DEF HandleClose
    <3>2. n \in Names
      BY DEF WithId
    <3>3. PICK s \in Entries(app.sizes) : s = stream[p][n]
      BY <3>2, EntryAt
    <3>4. PICK c \in BOOLEAN : c = IF s.readSize # 0 THEN FALSE ELSE s.closing
      BY DEF Entries
    <3>5. \/ stream' = [stream EXCEPT ![p][n] = Freed([s EXCEPT !.readSize = 0, !.closing = c])]
          \/ stream' = [stream EXCEPT ![p][n] = MarkClosing(s)]
      BY <3>1, <3>3, <3>4
    <3>6. PICK e \in Entries(app.sizes) : stream' = [stream EXCEPT ![p][n] = e]
      BY <3>5, EntryChanges
    <3>. QED
      BY <3>2, <3>6, Put
  <2>. QED
    BY <2>1, <2>2
<1>. QED
  BY <1>1, <1>4, <1>5 DEF TypesKept, Typed

\* and with a response, whose call waits for it.
LEMMA ResponseStep ==
    ASSUME Typed, OneMessage, NEW p \in Peers, HandleResponse(p)
    PROVE  TypesKept /\ OneMessage'
<1>1. /\ ~aborted /\ rQueue[p] # <<>> /\ rQueue' = [rQueue EXCEPT ![p] = Tail(@)]
      /\ UNCHANGED <<handle, wire, calls, app, aborted>>
  BY DEF HandleResponse
<1>2. PICK m \in Packets(app.sizes) : m = Remote(p)
  BY <1>1, HeadOfQueue
<1>3. PICK t \in Threads : t = m.thread
  BY DEF Packets
<1>4. Handled(p)
  BY <1>1 DEF Handled
<1>5. /\ Packeted /\ ~InNoPlace(channels, t)
      /\ \A u \in Threads \ {t} : Kept(u)
      /\ InOnePlace(channels, t) => InNoPlace(channels', t)
  BY <1>2, <1>3, <1>4, HandledMoves DEF Remote
<1>6. Waits(t) /\ InNoPlace(channels', t)
  BY <1>1, <1>5 DEF OneMessage
<1>7. event[t] \in Calls(app.sizes)
  BY <1>6, Underway DEF Waits
<1>8. PICK c \in Calls(app.sizes) \cup {Idle} :
        /\ event' = [event EXCEPT ![t] = c]
        /\ c.at # "pending"
  <2>1. event' = [event EXCEPT ![t] = IF event[t].type = "CREATE" THEN [event[t] EXCEPT !.at = "created"] ELSE Idle]
    BY <1>2, <1>3 DEF HandleResponse
  <2>2. CASE event[t].type = "CREATE"
    <3>1. PICK c : c = [event[t] EXCEPT !.at = "created"]
      OBVIOUS
    <3>2. c \in Calls(app.sizes) /\ c.at = "created"
      BY <1>7, <3>1 DEF Calls
    <3>. QED
      BY <2>1, <2>2, <3>1, <3>2
  <2>3. CASE event[t].type # "CREATE"
    <3>1. Idle.at # "pending"
      BY DEF Idle
    <3>. QED
      BY <2>1, <2>3, <3>1
  <2>. QED
    BY <2>2, <2>3
<1>9. event' \in [Threads -> Calls(app.sizes) \cup {Idle}]
  BY <1>8 DEF Typed
<1>10. ~Waits(t)' /\ \A u \in Threads \ {t} : Waits(u)' <=> Waits(u)
  BY <1>8 DEF Typed, Waits
<1>11. \A u \in Threads : IF Waits(u)' THEN InOnePlace(channels', u) ELSE InNoPlace(channels', u)
  BY <1>1, <1>5, <1>10 DEF OneMessage, Kept
<1>12. OneMessage'
  BY <1>11 DEF OneMessage
<1>13. stream' \in [Peers -> [Names -> Entries(app.sizes)]] /\ next' \in [Peers -> Nat]
  <2>1. CASE UNCHANGED <<stream, next>>
    BY <2>1 DEF Typed
  <2>2. CASE Remote(p).type = "CREATE" /\ allocateNewStream(p, Remote(p).name, Remote(p).size, 0, Remote(p).id)
    <3>1. PICK n \in Names, w \in app.sizes, id \in Numbers :
            n = Remote(p).name /\ w = Remote(p).size /\ id = Remote(p).id
      BY <1>2, <2>2 DEF Packets
    <3>2. allocateNewStream(p, n, w, 0, id)
      BY <2>2, <3>1
    <3>. QED
      BY <3>2, AllocatedStream
  <2>3. CASE /\ UNCHANGED next /\ Exists(p, Remote(p).id)
             /\ LET n == getStreamById(p, Remote(p).id) IN
                stream' = [stream EXCEPT ![p][n] = ClosedHere(@)]
    <3>1. PICK n \in Names : n = getStreamById(p, Remote(p).id)
      BY <2>3 DEF Exists, getStreamById, WithId
    <3>2. PICK e \in Entries(app.sizes) : e = ClosedHere(stream[p][n])
      BY EntryAt, EntryChanges
    <3>3. stream' = [stream EXCEPT ![p][n] = e]
      BY <2>3, <3>1, <3>2
    <3>4. stream' \in [Peers -> [Names -> Entries(app.sizes)]]
      BY <3>3, Put
    <3>. QED
      BY <2>3, <3>4 DEF Typed
  <2>. QED
    BY <2>1, <2>2, <2>3 DEF HandleResponse
<1>. QED
  BY <1>1, <1>5, <1>9, <1>12, <1>13 DEF TypesKept, Typed

\* All that a peer does with messages.
LEMMA RemoteStep ==
    ASSUME Typed, OneMessage, NEW p \in Peers, Remotely(p)
    PROVE  TypesKept /\ OneMessage'
<1>1. CASE IncomingAborts(p)
  <2>1. OneMessage'
    BY <1>1, AbortedMessages DEF IncomingAborts
  <2>. QED
    BY <1>1, <2>1 DEF IncomingAborts, TypesKept, Packeted, Typed
<1>2. CASE HandleWrite(p)
  <2>1. /\ ~aborted /\ rQueue[p] # <<>> /\ rQueue' = [rQueue EXCEPT ![p] = Tail(@)]
        /\ UNCHANGED <<stream, next, handle, event, calls, app, aborted>>
    BY <1>2 DEF HandleWrite, Handle
  <2>2. PICK id \in Numbers : id = Remote(p).id
    BY <2>1, HeadOfQueue DEF Packets
  <2>3. Send(p, Response(p, id, TRUE))
    BY <1>2, <2>2 DEF HandleWrite, Respond
  <2>4. Packeted /\ OneMessage'
    BY <2>1, <2>3, EventAnswered DEF SameWaits, Waits
  <2>. QED
    BY <2>1, <2>4 DEF TypesKept, Typed
<1>3. CASE HandleReleaseAborts(p)
  <2>1. OneMessage'
    BY <1>3, AbortedMessages DEF HandleReleaseAborts
  <2>2. Handled(p)
    BY <1>3 DEF HandleReleaseAborts, Handle, Handled
  <2>3. Packeted
    BY <2>2, HandledMoves
  <2>. QED
    BY <1>3, <2>1, <2>3 DEF HandleReleaseAborts, TypesKept, Typed
<1>. QED
  BY <1>1, <1>2, <1>3, IncomingStep, ReleaseStep, CreateStep, CloseStep,
     ResponseStep
     DEF Remotely

-----------------------------------------------------------------------------
(* The invariant                                                            *)

\* The invariant holds initially.
LEMMA Initially ==
    ASSUME Init
    PROVE  IInv
<1>0. None \in Numbers /\ FALSE \in Locks
  BY DEF Numbers, Locks
<1>1. NoStream \in Entries(app.sizes)
  <2>1. 0 \in Int /\ 0 \in Nat /\ 0 \in app.sizes \cup {0} /\ FALSE \in BOOLEAN
    OBVIOUS
  <2>. QED
    BY <1>0, <2>1 DEF Entries, NoStream
<1>2. Typed
  <2>1. /\ wire \in [Peers -> Seq(Packets(app.sizes))]
        /\ rQueue \in [Peers -> Seq(Packets(app.sizes))]
    BY DEF Init
  <2>2. stream \in [Peers -> [Names -> Entries(app.sizes)]]
    BY <1>1 DEF Init
  <2>3. event \in [Threads -> Calls(app.sizes) \cup {Idle}]
    BY DEF Init
  <2>. QED
    BY <1>0, <2>1, <2>2 DEF Init, Typed
<1>3. \A t \in Threads : ~Waits(t)
  BY DEF Init, Waits, Idle
<1>4. \A c \in Channels : channels[c] = <<>>
  BY ChannelNames, ChannelTypes, <1>2 DEF Init
<1>5. \A t \in Threads : InNoPlace(channels, t)
  BY <1>4 DEF InNoPlace
<1>. QED
  BY <1>2, <1>3, <1>5 DEF IInv, OneMessage

\* Every step keeps the invariant.
LEMMA Inductive ==
    ASSUME IInv, [Next]_vars
    PROVE  IInv'
<1>1. CASE Next
  <2>1. TypesKept /\ OneMessage'
    BY <1>1, ApplicationStep, DispatchStep, RemoteStep DEF Next, IInv
  <2>. QED
    BY <2>1, TypesStay DEF IInv
<1>2. CASE UNCHANGED vars
  <2>1. OneMessage'
    <3>1. CASE aborted
      BY <1>2, <3>1 DEF vars, OneMessage
    <3>2. CASE ~aborted
      BY <1>2, <3>2, SameMessages DEF vars, IInv, SameWaits, Waits
    <3>. QED
      BY <3>1, <3>2
  <2>. QED
    BY <1>2, <2>1 DEF vars, IInv, Typed
<1>. QED
  BY <1>1, <1>2

\* How many messages of a call there are, when they are in one place or in none.
\* A call with one place has one message, and a call with none has no message.
LEMMA InPlaces ==
    ASSUME Typed, NEW t \in Threads
    PROVE  /\ InOnePlace(channels, t) => Cardinality(Messages(t)) = 1
           /\ InNoPlace(channels, t) => Cardinality(Messages(t)) = 0
<1>1. \A m : m \in Messages(t) <=>
        \E p \in Peers : \/ \E i \in DOMAIN wire[p] : wire[p][i].thread = t /\ m = <<"wire", p, i>>
                         \/ \E i \in DOMAIN rQueue[p] : rQueue[p][i].thread = t /\ m = <<"rQueue", p, i>>
  BY DEF Messages
<1>2. ASSUME InNoPlace(channels, t) PROVE Messages(t) = {}
  <2>1. \A p \in Peers : /\ \A i \in DOMAIN wire[p] : wire[p][i].thread # t
                         /\ \A i \in DOMAIN rQueue[p] : rQueue[p][i].thread # t
    BY <1>2, ChannelTypes DEF InNoPlace
  <2>. QED
    BY <1>1, <2>1
<1>3. ASSUME InOnePlace(channels, t) PROVE \E m : Messages(t) = {m}
  <2>1. PICK c \in Channels : \E i \in DOMAIN channels[c] :
          /\ channels[c][i].thread = t
          /\ \A d \in Channels : \A j \in DOMAIN channels[d] : channels[d][j].thread = t => d = c /\ j = i
    BY <1>3 DEF InOnePlace
  <2>2. PICK i \in DOMAIN channels[c] :
          /\ channels[c][i].thread = t
          /\ \A d \in Channels : \A j \in DOMAIN channels[d] : channels[d][j].thread = t => d = c /\ j = i
    BY <2>1
  <2>3. PICK p \in Peers : c = <<"wire", p>> \/ c = <<"rQueue", p>>
    BY ChannelNames
  <2>4. \A q \in Peers : \A j \in DOMAIN wire[q] : wire[q][j].thread = t => <<"wire", q>> = c /\ j = i
    BY <2>2, ChannelTypes
  <2>5. \A q \in Peers : \A j \in DOMAIN rQueue[q] : rQueue[q][j].thread = t => <<"rQueue", q>> = c /\ j = i
    BY <2>2, ChannelTypes
  <2>6. CASE c = <<"wire", p>>
    <3>1. i \in DOMAIN wire[p] /\ wire[p][i].thread = t
      BY <2>2, <2>6, ChannelTypes
    <3>2. \A q \in Peers : \A j \in DOMAIN wire[q] : wire[q][j].thread = t => q = p /\ j = i
      BY <2>4, <2>6
    <3>3. \A q \in Peers : \A j \in DOMAIN rQueue[q] : rQueue[q][j].thread # t
      BY <2>5, <2>6
    <3>4. \A m : m \in Messages(t) <=> m \in {<<"wire", p, i>>}
      BY <1>1, <3>1, <3>2, <3>3
    <3>. QED
      BY <3>4
  <2>7. CASE c = <<"rQueue", p>>
    <3>1. i \in DOMAIN rQueue[p] /\ rQueue[p][i].thread = t
      BY <2>2, <2>7, ChannelTypes
    <3>2. \A q \in Peers : \A j \in DOMAIN rQueue[q] : rQueue[q][j].thread = t => q = p /\ j = i
      BY <2>5, <2>7
    <3>3. \A q \in Peers : \A j \in DOMAIN wire[q] : wire[q][j].thread # t
      BY <2>4, <2>7
    <3>4. \A m : m \in Messages(t) <=> m \in {<<"rQueue", p, i>>}
      BY <1>1, <3>1, <3>2, <3>3
    <3>. QED
      BY <3>4
  <2>. QED
    BY <2>3, <2>6, <2>7
<1>. QED
  BY <1>2, <1>3, FS_EmptySet, FS_Singleton

\* Types, and the places of messages, in every state.
THEOREM StreamsInvariant == Spec => []IInv
<1>. QED
  BY Initially, Inductive, PTL DEF Spec

\* A call that waits for the peer has exactly one request or response under way, and
\* no other call has any: dispatcherResponseServe finds the request of every response,
\* also when streams are closed under their users and opened again.
THEOREM AnswersOnTheirWay == Spec => []AnswerOnItsWay
<1>1. IInv => AnswerOnItsWay
  BY InPlaces DEF IInv, OneMessage, AnswerOnItsWay, Waits
<1>. QED
  BY <1>1, StreamsInvariant, PTL

\* Where every stream is opened with one size, no stream stays locked: the return of
\* allocateNewStream that forgets releaseStream is not taken.
THEOREM NoSemaphoreKept ==
    ASSUME OneSize
    PROVE  Spec => []NoStreamLocked
<1>1. IInv => NoStreamLocked
  <2>1. Locks = {FALSE}
    BY DEF Locks
  <2>. QED
    BY <2>1 DEF IInv, Typed, Entries, NoStreamLocked
<1>. QED
  BY <1>1, StreamsInvariant, PTL

-----------------------------------------------------------------------------
(* What holds of a link with careful applications                           *)

\* One peer alone opens streams that do not exist.
OneOpener == \A p, q \in FirstOpeners : p = q

\* The messages a peer has sent and the other has not received, those it has received
\* and not handled, and all that it has sent and the other has not handled.
Elements(s) == {s[i] : i \in DOMAIN s}
On(p) == Elements(wire[p])
In(p) == Elements(rQueue[p])
Under(p) == On(p) \cup In(Other(p))

\* Of these, for one stream: the requests of a peer, the answers on their way to it,
\* and its packets that the other peer has not stored yet.
Is(m, kind, type, n) == m.kind = kind /\ m.type = type /\ m.name = n
Requests(p, type, n) == {m \in Under(p) : Is(m, "REQ", type, n)}
Answers(p, type, n) == {m \in Under(Other(p)) : Is(m, "RESP", type, n)}
Arriving(p, n) == {m \in On(p) : Is(m, "REQ", "WRITE", n)}

\* The calls of a peer that release packets of a stream and are not dispatched.
Releasing(p, n) == {t \in Using(p, n, {"RELEASE"}) : event[t].at = "queued"}

\* A message is that of a call that waits for it.
MessageFits(m) ==
    LET call == event[m.thread] IN
    /\ call.at = "pending" /\ call.type = m.type /\ call.name = m.name
    /\ m.type # "CREATE" => m.id = call.id
MessagesFit ==
    \A p \in Peers : \A m \in Under(p) :
        /\ MessageFits(m)
        /\ m.thread[1] = IF m.kind = "REQ" THEN p ELSE Other(p)

\* What p writes to a stream and the other peer reads: what is charged is on its way,
\* stored, held, or given back and on its way back.
Credit(p, n) ==
    LET P == stream[p][n]
        R == stream[Other(p)][n]
    IN  /\ P.remoteFill = Cardinality(Arriving(p, n)) + R.unread + R.held
                          + Cardinality(Requests(Other(p), "RELEASE", n))
        /\ R.localFill = R.unread + R.held
        /\ R.held = Cardinality(Releasing(Other(p), n))
        /\ P.writeSize = 0 \/ R.readSize = 0 => P.remoteFill = 0

\* Both peers have the stream open for p to write.
IsOpen(p, n) == stream[p][n].writeSize # 0 /\ stream[Other(p)][n].readSize # 0

\* While one has it open and the other has not, the answer to an open or to a close is
\* on its way to the writer; messages have the id that both peers know.
Agreed(p, n) ==
    LET P == stream[p][n]
        R == stream[Other(p)][n]
    IN  /\ P.id = None <=> P.writeSize = 0 /\ P.readSize = 0
        /\ P.id # None /\ R.id # None => P.id = R.id
        /\ P.writeSize # 0 /\ R.readSize = 0 => Answers(p, "CLOSE", n) # {}
        /\ P.writeSize = 0 /\ R.readSize # 0 => Answers(p, "CREATE", n) # {}
        /\ \A m \in Answers(p, "CREATE", n) : R.readSize # 0 /\ m.id = R.id
        /\ \A m \in Answers(p, "CLOSE", n) : P.writeSize # 0 /\ R.readSize = 0 /\ m.id = P.id
        /\ \A m \in Requests(p, "CLOSE", n) : IsOpen(p, n) /\ m.id = P.id /\ P.remoteFill = 0
        /\ \A m \in Requests(Other(p), "RELEASE", n) : m.id = P.id
        /\ \A m \in Arriving(p, n) : m.id = P.id

\* A call that uses a stream has the id that both peers know.
Fitting(p, n) ==
    /\ \A t \in Using(p, n, {"WRITE", "CLOSE"}) :
          event[t].at \in {"queued", "blocked"} => IsOpen(p, n) /\ event[t].id = stream[p][n].id
    /\ \A t \in Using(p, n, Types) :
          event[t].at = "created" => IsOpen(p, n) /\ event[t].type = "CREATE"
    /\ \A t \in Releasing(p, n) : event[t].id = stream[p][n].id
    /\ handle[p][n] # None => /\ IsOpen(p, n) /\ handle[p][n] = stream[p][n].id
                              /\ Using(p, n, {"CLOSE"}) = {}

\* Nobody else uses the stream that a call closes, and the other peer opens none.
Alone(p, n) ==
    \A t \in Using(p, n, {"CLOSE"}) :
        Using(p, n, Types) = {t} /\ Using(Other(p), n, {"CREATE"}) = {}

\* The peer that opens a stream second has it, and the first one has it or gets the
\* answer to its open before the request of the other.
Way(p) == rQueue[p] \o wire[Other(p)]
Ahead(s, n) ==
    \A i \in DOMAIN s : Is(s[i], "REQ", "CREATE", n) =>
        \E j \in 1..(i - 1) : Is(s[j], "RESP", "CREATE", n)
OpensSecond(p, n) ==
    /\ Using(p, n, {"CREATE"}) # {} => stream[p][n].id # None
    /\ stream[Other(p)][n].id # None \/ Ahead(Way(Other(p)), n)

\* The numbers of streams are those the second peer has given out.
Numbered(p, n) ==
    \A a \in Peers : stream[a][n].id # None =>
        /\ stream[a][n].id < next[p]
        /\ \A b \in Peers, m \in Names \ {n} : stream[b][m].id # stream[a][n].id

Direction(p, n) == Credit(p, n) /\ Agreed(p, n) /\ Fitting(p, n) /\ Alone(p, n)
Second(p, n) == OpensSecond(p, n) /\ Numbered(p, n)
Careful ==
    /\ ~aborted /\ MessagesFit
    /\ \A p \in Peers, n \in Names : Direction(p, n)
    /\ \A p \in Peers \ FirstOpeners, n \in Names : Second(p, n)
CarefulInv == app.exclusive => Careful

-----------------------------------------------------------------------------
(* Messages as sets                                                         *)

\* There are two peers.
LEMMA TwoPeers ==
    ASSUME NEW p \in Peers
    PROVE  /\ Other(p) \in Peers /\ Other(p) # p /\ Other(Other(p)) = p
           /\ \A q \in Peers : q = p \/ q = Other(p)
<1>1. Other(p) \in Peers /\ Other(p) # p
  BY OtherPeer
<1>2. IsFiniteSet(Peers) /\ Cardinality(Peers) = 2
  BY StreamsAssumption
<1>3. IsFiniteSet(Peers \ {p}) /\ Cardinality(Peers \ {p}) = 1
  BY <1>2, FS_RemoveElement
<1>4. PICK x : Peers \ {p} = {x}
  BY <1>3, FS_Singleton
<1>5. \A q \in Peers : q = p \/ q = Other(p)
  BY <1>1, <1>4
<1>6. Other(Other(p)) \in Peers /\ Other(Other(p)) # Other(p)
  BY <1>1, OtherPeer
<1>. QED
  BY <1>1, <1>5, <1>6

\* They have finitely many threads.
LEMMA FiniteThreads == IsFiniteSet(Threads)
<1>1. IsFiniteSet(Peers) /\ Cardinality(Peers) = 2 /\ ThreadsOf \in [Peers -> Nat]
  BY StreamsAssumption
<1>2. Peers # {}
  BY <1>1, FS_EmptySet
<1>3. PICK p \in Peers : TRUE
  BY <1>2
<1>4. PICK q \in Peers : q = Other(p) /\ \A a \in Peers : a = p \/ a = q
  BY TwoPeers
<1>5. \A a \in Peers : IsFiniteSet({a} \X (1..ThreadsOf[a]))
  <2>. SUFFICES ASSUME NEW a \in Peers PROVE IsFiniteSet({a} \X (1..ThreadsOf[a]))
    OBVIOUS
  <2>1. ThreadsOf[a] \in Int /\ 1 \in Int
    BY <1>1
  <2>2. IsFiniteSet({a}) /\ IsFiniteSet(1..ThreadsOf[a])
    BY <2>1, FS_Singleton, FS_Interval
  <2>. QED
    BY <2>2, FS_Product
<1>6. Threads = ({p} \X (1..ThreadsOf[p])) \cup ({q} \X (1..ThreadsOf[q]))
  BY <1>4 DEF Threads
<1>. QED
  BY <1>4, <1>5, <1>6, FS_Union

\* What an append and a tail do to the elements of a sequence.
LEMMA ElementsAppended ==
    ASSUME NEW T, NEW s \in Seq(T), NEW m \in T
    PROVE  Elements(Append(s, m)) = Elements(s) \cup {m}
<1>1. /\ DOMAIN Append(s, m) = 1..(Len(s) + 1) /\ DOMAIN s = 1..Len(s) /\ Len(s) \in Nat
      /\ Append(s, m)[Len(s) + 1] = m /\ \A i \in 1..Len(s) : Append(s, m)[i] = s[i]
  OBVIOUS
<1>. QED
  BY <1>1 DEF Elements

LEMMA ElementsLeft ==
    ASSUME NEW T, NEW s \in Seq(T), s # <<>>
    PROVE  Elements(s) = Elements(Tail(s)) \cup {Head(s)}
<1>1. /\ DOMAIN Tail(s) = 1..(Len(s) - 1) /\ DOMAIN s = 1..Len(s) /\ Len(s) \in Nat /\ Len(s) > 0
      /\ Head(s) = s[1] /\ \A i \in 1..(Len(s) - 1) : Tail(s)[i] = s[i + 1]
  OBVIOUS
<1>2. ASSUME NEW i \in 1..Len(s) PROVE s[i] \in {Tail(s)[j] : j \in DOMAIN Tail(s)} \cup {Head(s)}
  <2>1. CASE i = 1
    BY <1>1, <2>1
  <2>2. CASE i # 1
    <3>1. i - 1 \in DOMAIN Tail(s) /\ Tail(s)[i - 1] = s[(i - 1) + 1] /\ (i - 1) + 1 = i
      BY <1>1, <2>2
    <3>. QED
      BY <3>1
  <2>. QED
    BY <2>1, <2>2
<1>3. ASSUME NEW j \in DOMAIN Tail(s) PROVE Tail(s)[j] \in {s[i] : i \in DOMAIN s}
  <2>1. j + 1 \in DOMAIN s /\ Tail(s)[j] = s[j + 1]
    BY <1>1
  <2>. QED
    BY <2>1
<1>4. Head(s) \in {s[i] : i \in DOMAIN s}
  BY <1>1
<1>. QED
  BY <1>1, <1>2, <1>3, <1>4 DEF Elements

LEMMA ElementsFinite ==
    ASSUME NEW T, NEW s \in Seq(T)
    PROVE  IsFiniteSet(Elements(s)) /\ Elements(s) \subseteq T
<1>1. DOMAIN s = 1..Len(s) /\ Len(s) \in Nat
  OBVIOUS
<1>2. IsFiniteSet(DOMAIN s)
  BY <1>1, FS_Interval
<1>3. s \in Surjection(DOMAIN s, {s[i] : i \in DOMAIN s})
  BY <1>1 DEF Surjection
<1>4. IsFiniteSet({s[i] : i \in DOMAIN s})
  BY <1>2, <1>3, FS_Surjection DEF ExistsSurjection
<1>5. {s[i] : i \in DOMAIN s} \subseteq T
  BY <1>1
<1>. QED
  BY <1>4, <1>5 DEF Elements

\* Every message is that of another call, and a call that has one waits.
OneEach ==
    /\ \A p, q \in Peers : \A m \in On(p), k \in In(q) : m.thread # k.thread
    /\ \A p, q \in Peers : \A m \in On(p), k \in On(q) : m.thread = k.thread => p = q /\ m = k
    /\ \A p, q \in Peers : \A m \in In(p), k \in In(q) : m.thread = k.thread => p = q /\ m = k
    /\ \A p \in Peers : \A m \in On(p) \cup In(p) : m \in Packets(app.sizes) /\ Waits(m.thread)

LEMMA OneEachHolds == IInv /\ ~aborted => OneEach
<1>. SUFFICES ASSUME IInv, ~aborted PROVE OneEach
  OBVIOUS
<1>0. Typed /\ OneMessage
  BY DEF IInv
<1>1. ASSUME NEW c \in Channels, NEW i \in DOMAIN channels[c]
      PROVE  channels[c][i] \in Packets(app.sizes) /\ channels[c][i].thread \in Threads
  <2>1. channels[c] \in Seq(Packets(app.sizes))
    BY <1>0, ChannelTypes
  <2>2. channels[c][i] \in Packets(app.sizes)
    BY <2>1
  <2>. QED
    BY <2>2 DEF Packets
<1>2. ASSUME NEW c \in Channels, NEW i \in DOMAIN channels[c]
      PROVE  /\ Waits(channels[c][i].thread)
             /\ \A d \in Channels : \A j \in DOMAIN channels[d] :
                   channels[d][j].thread = channels[c][i].thread => d = c /\ j = i
  <2>1. ~InNoPlace(channels, channels[c][i].thread)
    BY DEF InNoPlace
  <2>2. Waits(channels[c][i].thread) /\ InOnePlace(channels, channels[c][i].thread)
    BY <1>0, <1>1, <2>1 DEF OneMessage
  <2>. QED
    BY <2>2 DEF InOnePlace
<1>3. ASSUME NEW p \in Peers
      PROVE  /\ \A m \in On(p) : \E i \in DOMAIN channels[<<"wire", p>>] : channels[<<"wire", p>>][i] = m
             /\ \A m \in In(p) : \E i \in DOMAIN channels[<<"rQueue", p>>] : channels[<<"rQueue", p>>][i] = m
             /\ <<"wire", p>> \in Channels /\ <<"rQueue", p>> \in Channels
  <2>1. channels[<<"wire", p>>] = wire[p] /\ channels[<<"rQueue", p>>] = rQueue[p]
    BY <1>0, ChannelTypes
  <2>. QED
    BY <2>1 DEF On, In, Elements, Channels
<1>4. ASSUME NEW p \in Peers, NEW m \in On(p) \cup In(p) PROVE m \in Packets(app.sizes) /\ Waits(m.thread)
  <2>1. PICK c \in Channels : \E i \in DOMAIN channels[c] : channels[c][i] = m
    BY <1>3
  <2>2. PICK i \in DOMAIN channels[c] : channels[c][i] = m
    BY <2>1
  <2>. QED
    BY <1>1, <1>2, <2>2
<1>5. ASSUME NEW p \in Peers, NEW q \in Peers, NEW m \in On(p), NEW k \in In(q), m.thread = k.thread
      PROVE  FALSE
  <2>. DEFINE c == <<"wire", p>>
              d == <<"rQueue", q>>
  <2>1. PICK i \in DOMAIN channels[c] : channels[c][i] = m
    BY <1>3
  <2>2. PICK j \in DOMAIN channels[d] : channels[d][j] = k
    BY <1>3
  <2>3. c \in Channels /\ d \in Channels /\ c # d
    BY <1>3
  <2>. HIDE DEF c, d
  <2>. QED
    BY <1>2, <1>5, <2>1, <2>2, <2>3
<1>6. ASSUME NEW p \in Peers, NEW q \in Peers, NEW m \in On(p), NEW k \in On(q), m.thread = k.thread
      PROVE  p = q /\ m = k
  <2>. DEFINE c == <<"wire", p>>
              d == <<"wire", q>>
  <2>1. PICK i \in DOMAIN channels[c] : channels[c][i] = m
    BY <1>3
  <2>2. PICK j \in DOMAIN channels[d] : channels[d][j] = k
    BY <1>3
  <2>3. c \in Channels /\ d \in Channels /\ (c = d => p = q)
    BY <1>3
  <2>. HIDE DEF c, d
  <2>4. c = d /\ i = j
    BY <1>2, <1>6, <2>1, <2>2, <2>3
  <2>. QED
    BY <2>1, <2>2, <2>3, <2>4
<1>7. ASSUME NEW p \in Peers, NEW q \in Peers, NEW m \in In(p), NEW k \in In(q), m.thread = k.thread
      PROVE  p = q /\ m = k
  <2>. DEFINE c == <<"rQueue", p>>
              d == <<"rQueue", q>>
  <2>1. PICK i \in DOMAIN channels[c] : channels[c][i] = m
    BY <1>3
  <2>2. PICK j \in DOMAIN channels[d] : channels[d][j] = k
    BY <1>3
  <2>3. c \in Channels /\ d \in Channels /\ (c = d => p = q)
    BY <1>3
  <2>. HIDE DEF c, d
  <2>4. c = d /\ i = j
    BY <1>2, <1>7, <2>1, <2>2, <2>3
  <2>. QED
    BY <2>1, <2>2, <2>3, <2>4
<1>. QED
  BY <1>4, <1>5, <1>6, <1>7, Zenon DEF OneEach

\* So it is in the next state.
LEMMA OneEachNext == IInv' /\ ~aborted' => OneEach'
  BY OneEachHolds, PTL

\* The messages of a peer and their number.
LEMMA MessageSets ==
    ASSUME Typed, NEW p \in Peers
    PROVE  /\ wire[p] \in Seq(Packets(app.sizes)) /\ rQueue[p] \in Seq(Packets(app.sizes))
           /\ On(p) \subseteq Packets(app.sizes) /\ IsFiniteSet(On(p))
           /\ Under(p) \subseteq Packets(app.sizes) /\ IsFiniteSet(Under(p))
<1>1. /\ wire[p] \in Seq(Packets(app.sizes)) /\ rQueue[p] \in Seq(Packets(app.sizes))
      /\ rQueue[Other(p)] \in Seq(Packets(app.sizes))
  BY TwoPeers DEF Typed
<1>2. /\ On(p) \subseteq Packets(app.sizes) /\ IsFiniteSet(On(p))
      /\ In(Other(p)) \subseteq Packets(app.sizes) /\ IsFiniteSet(In(Other(p)))
  BY <1>1, ElementsFinite DEF On, In
<1>. QED
  BY <1>1, <1>2, FS_Union DEF Under

\* A message that a peer sends is a new one under way.
LEMMA SentSets ==
    ASSUME Typed, OneEach, NEW p \in Peers, NEW m \in Packets(app.sizes), ~Waits(m.thread), Sent(p, m)
    PROVE  /\ On(p)' = On(p) \cup {m} /\ Under(p)' = Under(p) \cup {m} /\ m \notin Under(p)
           /\ On(Other(p))' = On(Other(p)) /\ Under(Other(p))' = Under(Other(p))
<1>1. wire[p] \in Seq(Packets(app.sizes)) /\ wire \in [Peers -> Seq(Packets(app.sizes))]
  BY DEF Typed
<1>2. /\ wire'[p] = Append(wire[p], m) /\ wire'[Other(p)] = wire[Other(p)] /\ rQueue' = rQueue
      /\ Other(p) \in Peers /\ Other(Other(p)) = p
  BY <1>1, TwoPeers DEF Sent
<1>3. On(p)' = On(p) \cup {m}
  BY <1>1, <1>2, ElementsAppended DEF On
<1>4. On(Other(p))' = On(Other(p)) /\ In(p)' = In(p) /\ In(Other(p))' = In(Other(p))
  BY <1>2 DEF On, In
<1>5. m \notin Under(p)
  BY <1>2 DEF OneEach, Under
<1>. QED
  BY <1>2, <1>3, <1>4, <1>5 DEF Under

\* A message that is received stays under way.
LEMMA ReceivedSets ==
    ASSUME Typed, OneEach', NEW p \in Peers, Received(p), NEW h, h = Head(wire[Other(p)])
    PROVE  /\ h \in On(Other(p)) /\ On(Other(p))' = On(Other(p)) \ {h} /\ On(p)' = On(p)
           /\ Under(p)' = Under(p) /\ Under(Other(p))' = Under(Other(p))
<1>1. /\ Other(p) \in Peers /\ Other(Other(p)) = p /\ Other(p) # p
      /\ wire \in [Peers -> Seq(Packets(app.sizes))] /\ rQueue \in [Peers -> Seq(Packets(app.sizes))]
  BY TwoPeers DEF Typed
<1>2. /\ wire'[Other(p)] = Tail(wire[Other(p)]) /\ wire'[p] = wire[p] /\ wire[Other(p)] # <<>>
      /\ rQueue'[p] = Append(rQueue[p], h) /\ rQueue'[Other(p)] = rQueue[Other(p)]
  BY <1>1 DEF Received
<1>3. wire[Other(p)] \in Seq(Packets(app.sizes)) /\ rQueue[p] \in Seq(Packets(app.sizes))
  BY <1>1
<1>4. h \in Packets(app.sizes)
  BY <1>2, <1>3
<1>5. On(Other(p)) = On(Other(p))' \cup {h} /\ In(p)' = In(p) \cup {h}
  BY <1>2, <1>3, <1>4, ElementsAppended, ElementsLeft DEF On, In
<1>6. On(p)' = On(p) /\ In(Other(p))' = In(Other(p))
  BY <1>2 DEF On, In
<1>7. h \notin On(Other(p))'
  BY <1>1, <1>5 DEF OneEach
<1>. QED
  BY <1>1, <1>5, <1>6, <1>7 DEF Under

\* A request that is answered is replaced by its answer.
LEMMA AnsweredSets ==
    ASSUME Typed, OneEach, OneEach', NEW p \in Peers, NEW m \in Packets(app.sizes), Answered(p, m),
           NEW h, h = Head(rQueue[p]), m.thread = h.thread
    PROVE  /\ On(p)' = On(p) \cup {m} /\ On(Other(p))' = On(Other(p))
           /\ Under(p)' = Under(p) \cup {m} /\ m \notin Under(p)
           /\ h \in Under(Other(p)) /\ Under(Other(p))' = Under(Other(p)) \ {h}
<1>1. /\ Other(p) \in Peers /\ Other(Other(p)) = p /\ Other(p) # p
      /\ wire \in [Peers -> Seq(Packets(app.sizes))] /\ rQueue \in [Peers -> Seq(Packets(app.sizes))]
  BY TwoPeers DEF Typed
<1>2. /\ wire'[p] = Append(wire[p], m) /\ wire'[Other(p)] = wire[Other(p)] /\ rQueue[p] # <<>>
      /\ rQueue'[p] = Tail(rQueue[p]) /\ rQueue'[Other(p)] = rQueue[Other(p)]
  BY <1>1 DEF Answered
<1>3. wire[p] \in Seq(Packets(app.sizes)) /\ rQueue[p] \in Seq(Packets(app.sizes))
  BY <1>1
<1>4. On(p)' = On(p) \cup {m} /\ In(p) = In(p)' \cup {h}
  BY <1>2, <1>3, ElementsAppended, ElementsLeft DEF On, In
<1>5. On(Other(p))' = On(Other(p)) /\ In(Other(p))' = In(Other(p))
  BY <1>2 DEF On, In
<1>6. h \notin In(p)' /\ h \notin On(Other(p))
  <2>1. m \in On(p)' /\ h \in In(p)
    BY <1>4
  <2>2. \A k \in In(p)' : m.thread # k.thread
    BY <2>1 DEF OneEach
  <2>3. \A k \in On(Other(p)) : k.thread # h.thread
    BY <1>1, <2>1 DEF OneEach
  <2>. QED
    BY <2>2, <2>3
<1>7. m \notin On(p) /\ m \notin In(Other(p))
  <2>1. h \in In(p)
    BY <1>4
  <2>2. \A k \in On(p) : k.thread # h.thread
    BY <2>1 DEF OneEach
  <2>3. \A k \in In(Other(p)) : k.thread # h.thread
    BY <1>1, <2>1 DEF OneEach
  <2>. QED
    BY <2>2, <2>3
<1>. QED
  BY <1>1, <1>4, <1>5, <1>6, <1>7 DEF Under

\* An answer that is handled is gone; its call no longer waits.
LEMMA HandledSets ==
    ASSUME Typed, OneEach, OneEach', NEW p \in Peers, Handled(p), NEW h, h = Head(rQueue[p]),
           ~Waits(h.thread)'
    PROVE  /\ On(p)' = On(p) /\ On(Other(p))' = On(Other(p)) /\ Under(p)' = Under(p)
           /\ h \in Under(Other(p)) /\ Under(Other(p))' = Under(Other(p)) \ {h}
<1>1. /\ Other(p) \in Peers /\ Other(Other(p)) = p /\ Other(p) # p
      /\ wire \in [Peers -> Seq(Packets(app.sizes))] /\ rQueue \in [Peers -> Seq(Packets(app.sizes))]
  BY TwoPeers DEF Typed
<1>2. /\ wire' = wire /\ rQueue[p] # <<>>
      /\ rQueue'[p] = Tail(rQueue[p]) /\ rQueue'[Other(p)] = rQueue[Other(p)]
  BY <1>1 DEF Handled
<1>3. rQueue[p] \in Seq(Packets(app.sizes))
  BY <1>1
<1>4. In(p) = In(p)' \cup {h}
  BY <1>2, <1>3, ElementsLeft DEF In
<1>5. On(p)' = On(p) /\ On(Other(p))' = On(Other(p)) /\ In(Other(p))' = In(Other(p))
  BY <1>2 DEF On, In
<1>6. h \notin In(p)' /\ h \notin On(Other(p))
  <2>1. \A k \in In(p)' : Waits(k.thread)'
    BY DEF OneEach
  <2>2. \A k \in On(Other(p)) : k.thread # h.thread
    BY <1>1, <1>4 DEF OneEach
  <2>. QED
    BY <2>1, <2>2
<1>. QED
  BY <1>1, <1>4, <1>5, <1>6 DEF Under

\* A request that is made, an answer that is given, a request or an answer that is
\* handled changes one of the sets of messages of one stream.
SameSets(p, n) ==
    /\ Requests(p, "CLOSE", n)' = Requests(p, "CLOSE", n)
    /\ Requests(p, "RELEASE", n)' = Requests(p, "RELEASE", n)
    /\ Answers(p, "CREATE", n)' = Answers(p, "CREATE", n)
    /\ Answers(p, "CLOSE", n)' = Answers(p, "CLOSE", n)
    /\ Arriving(p, n)' = Arriving(p, n)

LEMMA RequestMade ==
    ASSUME Typed, OneEach, NEW p \in Peers, NEW m \in Packets(app.sizes), ~Waits(m.thread), Sent(p, m),
           m.kind = "REQ"
    PROVE  /\ \A n : SameSets(Other(p), n) /\ (n # m.name => SameSets(p, n))
           /\ m \notin Requests(p, m.type, m.name)
           /\ \A type : Requests(p, type, m.name)' =
                 IF type = m.type THEN Requests(p, type, m.name) \cup {m} ELSE Requests(p, type, m.name)
           /\ \A type : Answers(p, type, m.name)' = Answers(p, type, m.name)
           /\ Arriving(p, m.name)' =
                 IF m.type = "WRITE" THEN Arriving(p, m.name) \cup {m} ELSE Arriving(p, m.name)
           /\ m \notin Arriving(p, m.name)
<1>1. /\ On(p)' = On(p) \cup {m} /\ Under(p)' = Under(p) \cup {m} /\ m \notin Under(p)
      /\ On(Other(p))' = On(Other(p)) /\ Under(Other(p))' = Under(Other(p)) /\ Other(Other(p)) = p
  BY SentSets, TwoPeers
<1>2. ASSUME NEW type, NEW n
      PROVE  /\ Requests(Other(p), type, n)' = Requests(Other(p), type, n)
             /\ Answers(Other(p), type, n)' = Answers(Other(p), type, n)
             /\ Arriving(Other(p), n)' = Arriving(Other(p), n)
             /\ Answers(p, type, n)' = Answers(p, type, n)
  BY <1>1 DEF Requests, Answers, Arriving, Is
<1>3. ASSUME NEW type, NEW n
      PROVE  Requests(p, type, n)' =
                 IF type = m.type /\ n = m.name THEN Requests(p, type, n) \cup {m} ELSE Requests(p, type, n)
  BY <1>1 DEF Requests, Is
<1>4. ASSUME NEW n
      PROVE  Arriving(p, n)' =
                 IF m.type = "WRITE" /\ n = m.name THEN Arriving(p, n) \cup {m} ELSE Arriving(p, n)
  BY <1>1 DEF Arriving, Is
<1>5. m \notin Requests(p, m.type, m.name) /\ m \notin Arriving(p, m.name)
  BY <1>1 DEF Requests, Arriving, Under
<1>. QED
  BY <1>2, <1>3, <1>4, <1>5 DEF SameSets

LEMMA MessageReceived ==
    ASSUME Typed, OneEach', NEW p \in Peers, Received(p), NEW h, h = Head(wire[Other(p)])
    PROVE  /\ \A n : SameSets(p, n)
           /\ \A n : ~Is(h, "REQ", "WRITE", n) => SameSets(Other(p), n)
           /\ \A type, n : /\ Requests(Other(p), type, n)' = Requests(Other(p), type, n)
                           /\ Answers(Other(p), type, n)' = Answers(Other(p), type, n)
           /\ \A n : Is(h, "REQ", "WRITE", n) =>
                 h \in Arriving(Other(p), n) /\ Arriving(Other(p), n)' = Arriving(Other(p), n) \ {h}
<1>1. /\ h \in On(Other(p)) /\ On(Other(p))' = On(Other(p)) \ {h} /\ On(p)' = On(p)
      /\ Under(p)' = Under(p) /\ Under(Other(p))' = Under(Other(p)) /\ Other(Other(p)) = p
  BY ReceivedSets, TwoPeers
<1>2. ASSUME NEW type, NEW n
      PROVE  /\ Requests(p, type, n)' = Requests(p, type, n)
             /\ Answers(p, type, n)' = Answers(p, type, n)
             /\ Requests(Other(p), type, n)' = Requests(Other(p), type, n)
             /\ Answers(Other(p), type, n)' = Answers(Other(p), type, n)
             /\ Arriving(p, n)' = Arriving(p, n)
  BY <1>1 DEF Requests, Answers, Arriving, Is
<1>3. ASSUME NEW n
      PROVE  /\ Is(h, "REQ", "WRITE", n) =>
                    h \in Arriving(Other(p), n) /\ Arriving(Other(p), n)' = Arriving(Other(p), n) \ {h}
             /\ ~Is(h, "REQ", "WRITE", n) => Arriving(Other(p), n)' = Arriving(Other(p), n)
  BY <1>1 DEF Arriving, Is
<1>. QED
  BY <1>2, <1>3 DEF SameSets

LEMMA RequestAnswered ==
    ASSUME Typed, OneEach, OneEach', NEW p \in Peers, NEW m \in Packets(app.sizes), Answered(p, m),
           NEW h, h = Head(rQueue[p]), m.thread = h.thread, h.kind = "REQ", m.kind = "RESP",
           m.type = h.type, m.name = h.name
    PROVE  /\ h \in Requests(Other(p), h.type, h.name)
           /\ \A n : SameSets(p, n) /\ (n # m.name => SameSets(Other(p), n))
           /\ \A type : Requests(Other(p), type, h.name)' =
                 IF type = h.type THEN Requests(Other(p), type, h.name) \ {h} ELSE Requests(Other(p), type, h.name)
           /\ \A type : Answers(Other(p), type, h.name)' =
                 IF type = h.type THEN Answers(Other(p), type, h.name) \cup {m} ELSE Answers(Other(p), type, h.name)
           /\ Arriving(Other(p), h.name)' = Arriving(Other(p), h.name)
<1>1. /\ On(p)' = On(p) \cup {m} /\ On(Other(p))' = On(Other(p))
      /\ Under(p)' = Under(p) \cup {m} /\ m \notin Under(p) /\ Other(Other(p)) = p
      /\ h \in Under(Other(p)) /\ Under(Other(p))' = Under(Other(p)) \ {h}
  BY AnsweredSets, TwoPeers
<1>2. ASSUME NEW type, NEW n
      PROVE  /\ Requests(p, type, n)' = Requests(p, type, n)
             /\ Answers(p, type, n)' = Answers(p, type, n)
             /\ Arriving(p, n)' = Arriving(p, n)
             /\ Arriving(Other(p), n)' = Arriving(Other(p), n)
  BY <1>1 DEF Requests, Answers, Arriving, Is
<1>3. ASSUME NEW type, NEW n
      PROVE  /\ Requests(Other(p), type, n)' =
                 IF type = h.type /\ n = h.name THEN Requests(Other(p), type, n) \ {h} ELSE Requests(Other(p), type, n)
             /\ Answers(Other(p), type, n)' =
                 IF type = h.type /\ n = h.name THEN Answers(Other(p), type, n) \cup {m} ELSE Answers(Other(p), type, n)
  BY <1>1 DEF Requests, Answers, Is
<1>4. h \in Requests(Other(p), h.type, h.name)
  BY <1>1 DEF Requests, Is
<1>. QED
  BY <1>2, <1>3, <1>4 DEF SameSets

LEMMA AnswerHandled ==
    ASSUME Typed, OneEach, OneEach', NEW p \in Peers, Handled(p), NEW h, h = Head(rQueue[p]),
           ~Waits(h.thread)', h.kind = "RESP"
    PROVE  /\ h \in Answers(p, h.type, h.name)
           /\ \A n : SameSets(Other(p), n) /\ (n # h.name => SameSets(p, n))
           /\ \A type : Requests(p, type, h.name)' = Requests(p, type, h.name)
           /\ \A type : Answers(p, type, h.name)' =
                 IF type = h.type THEN Answers(p, type, h.name) \ {h} ELSE Answers(p, type, h.name)
           /\ Arriving(p, h.name)' = Arriving(p, h.name)
<1>1. /\ On(p)' = On(p) /\ On(Other(p))' = On(Other(p)) /\ Under(p)' = Under(p) /\ Other(Other(p)) = p
      /\ h \in Under(Other(p)) /\ Under(Other(p))' = Under(Other(p)) \ {h}
  BY HandledSets, TwoPeers
<1>2. ASSUME NEW type, NEW n
      PROVE  /\ Requests(p, type, n)' = Requests(p, type, n)
             /\ Requests(Other(p), type, n)' = Requests(Other(p), type, n)
             /\ Answers(Other(p), type, n)' = Answers(Other(p), type, n)
             /\ Arriving(p, n)' = Arriving(p, n)
             /\ Arriving(Other(p), n)' = Arriving(Other(p), n)
  BY <1>1 DEF Requests, Answers, Arriving, Is
<1>3. ASSUME NEW type, NEW n
      PROVE  Answers(p, type, n)' =
                 IF type = h.type /\ n = h.name THEN Answers(p, type, n) \ {h} ELSE Answers(p, type, n)
  BY <1>1 DEF Answers, Is
<1>4. h \in Answers(p, h.type, h.name)
  BY <1>1 DEF Answers, Is
<1>. QED
  BY <1>2, <1>3, <1>4 DEF SameSets

-----------------------------------------------------------------------------
(* What the invariant says of a stream                                      *)

\* How many elements a set has with one more or one less.
LEMMA OneMoreOrLess ==
    ASSUME NEW S, IsFiniteSet(S), NEW x
    PROVE  /\ Cardinality(S) \in Nat /\ (Cardinality(S) = 0 <=> S = {})
           /\ x \notin S => Cardinality(S \cup {x}) = Cardinality(S) + 1
           /\ x \in S => Cardinality(S \ {x}) = Cardinality(S) - 1
  BY FS_CardinalityType, FS_EmptySet, FS_AddElement, FS_RemoveElement

LEMMA FiniteSets ==
    ASSUME Typed, NEW p \in Peers, NEW n
    PROVE  /\ \A type : IsFiniteSet(Requests(p, type, n)) /\ Requests(p, type, n) \subseteq Packets(app.sizes)
           /\ IsFiniteSet(Arriving(p, n)) /\ IsFiniteSet(Releasing(p, n))
<1>1. /\ On(p) \subseteq Packets(app.sizes) /\ IsFiniteSet(On(p))
      /\ Under(p) \subseteq Packets(app.sizes) /\ IsFiniteSet(Under(p))
  BY MessageSets
<1>2. Arriving(p, n) \subseteq On(p) /\ Releasing(p, n) \subseteq Threads
  BY DEF Arriving, Releasing, Using
<1>3. IsFiniteSet(Arriving(p, n)) /\ IsFiniteSet(Releasing(p, n))
  BY <1>1, <1>2, FiniteThreads, FS_Subset
<1>4. ASSUME NEW type PROVE IsFiniteSet(Requests(p, type, n)) /\ Requests(p, type, n) \subseteq Packets(app.sizes)
  <2>1. Requests(p, type, n) \subseteq Under(p)
    BY DEF Requests
  <2>. QED
    BY <1>1, <2>1, FS_Subset
<1>. QED
  BY <1>3, <1>4

\* A message is that of another call than any other message.
LEMMA OneEachUnder ==
    ASSUME OneEach, NEW p \in Peers, NEW q \in Peers, NEW m \in Under(p), NEW k \in Under(q)
    PROVE  m.thread = k.thread => m = k
  BY TwoPeers DEF OneEach, Under

\* The call of a request or an answer waits for it.
LEMMA WaitsForIt ==
    ASSUME Typed, OneEach, MessagesFit, NEW p \in Peers, NEW type \in Types, NEW n,
           NEW m \in Requests(p, type, n) \cup Answers(p, type, n)
    PROVE  /\ m.thread \in Using(p, n, {type}) /\ event[m.thread].at = "pending"
           /\ type # "CREATE" => event[m.thread].id = m.id
           /\ m \in Under(p) \cup Under(Other(p))
<1>1. PICK q \in Peers : m \in Under(q) /\ q = IF m.kind = "REQ" THEN p ELSE Other(p)
  BY TwoPeers DEF Requests, Answers, Is
<1>2. /\ MessageFits(m) /\ m.thread[1] = p /\ m.type = type /\ m.name = n
  BY <1>1, TwoPeers DEF MessagesFit, Requests, Answers, Is
<1>3. m.thread \in Threads
  BY <1>1, MessageSets DEF Packets
<1>. QED
  BY <1>1, <1>2, <1>3 DEF MessageFits, Using

\* Without a call there is neither.
LEMMA NoCallNoMessage ==
    ASSUME Typed, OneEach, MessagesFit, NEW p \in Peers, NEW type \in Types, NEW n, Using(p, n, {type}) = {}
    PROVE  Requests(p, type, n) = {} /\ Answers(p, type, n) = {}
  BY WaitsForIt

\* A stream that a call uses otherwise is not being closed.
LEMMA NotClosing ==
    ASSUME Typed, OneEach, MessagesFit, NEW p \in Peers, NEW n, Alone(p, n),
           NEW t \in Using(p, n, Types), event[t].type # "CLOSE"
    PROVE  Using(p, n, {"CLOSE"}) = {} /\ Requests(p, "CLOSE", n) = {} /\ Answers(p, "CLOSE", n) = {}
<1>1. Using(p, n, {"CLOSE"}) = {}
  BY DEF Alone, Using, Types
<1>. QED
  BY <1>1, NoCallNoMessage DEF Types

\* One message at most is about closing it, and then no other call uses it.
LEMMA OneToClose ==
    ASSUME Typed, OneEach, MessagesFit, NEW p \in Peers, NEW n, Alone(p, n),
           NEW m \in Requests(p, "CLOSE", n) \cup Answers(p, "CLOSE", n)
    PROVE  /\ \A k \in Requests(p, "CLOSE", n) \cup Answers(p, "CLOSE", n) : k = m
           /\ Using(p, n, Types) = {m.thread} /\ event[m.thread].at = "pending"
           /\ event[m.thread].type = "CLOSE"
           /\ Using(p, n, {"CREATE"}) = {} /\ Answers(p, "CREATE", n) = {}
           /\ Using(Other(p), n, {"CREATE"}) = {}
<1>1. "CLOSE" \in Types /\ "CREATE" \in Types
  BY DEF Types
<1>2. m.thread \in Using(p, n, {"CLOSE"}) /\ m \in Under(p) \cup Under(Other(p)) /\ event[m.thread].at = "pending"
  BY <1>1, WaitsForIt
<1>3. Using(p, n, Types) = {m.thread} /\ Using(Other(p), n, {"CREATE"}) = {} /\ event[m.thread].type = "CLOSE"
  BY <1>2 DEF Alone, Using
<1>4. ASSUME NEW k \in Requests(p, "CLOSE", n) \cup Answers(p, "CLOSE", n) PROVE k = m
  <2>1. k.thread \in Using(p, n, {"CLOSE"}) /\ k \in Under(p) \cup Under(Other(p))
    BY <1>1, WaitsForIt
  <2>2. k.thread \in Using(p, n, Types)
    BY <1>1, <2>1 DEF Using
  <2>. QED
    BY <1>2, <1>3, <2>1, <2>2, OneEachUnder, TwoPeers
<1>5. Using(p, n, {"CREATE"}) = {}
  BY <1>1, <1>3 DEF Using
<1>6. Answers(p, "CREATE", n) = {}
  BY <1>1, <1>5, NoCallNoMessage
<1>. QED
  BY <1>2, <1>3, <1>4, <1>5, <1>6

LEMMA FillLevels ==
    ASSUME NEW f, NEW g, NEW a \in Nat, NEW u \in Nat, NEW h \in Nat, NEW r \in Nat, NEW l \in Nat,
           f = a + u + h + r, g = u + h, h = l
    PROVE  /\ f \in Nat /\ g \in Nat
           /\ f = 0 => a = 0 /\ r = 0 /\ u = 0 /\ h = 0 /\ g = 0 /\ l = 0
  OBVIOUS

\* What is charged, and that nothing is when the fill level is zero.
LEMMA Charged ==
    ASSUME Typed, NEW p \in Peers, NEW n \in Names, Credit(p, n)
    PROVE  LET P == stream[p][n]
               R == stream[Other(p)][n]
           IN  /\ P.remoteFill \in Nat /\ R.localFill \in Nat
               /\ P.remoteFill = 0 =>
                    /\ Arriving(p, n) = {} /\ Requests(Other(p), "RELEASE", n) = {}
                    /\ R.unread = 0 /\ R.held = 0 /\ R.localFill = 0 /\ Releasing(Other(p), n) = {}
               /\ P.remoteFill # 0 => IsOpen(p, n)
<1>1. Other(p) \in Peers
  BY TwoPeers
<1>2. /\ IsFiniteSet(Arriving(p, n)) /\ IsFiniteSet(Requests(Other(p), "RELEASE", n))
      /\ IsFiniteSet(Releasing(Other(p), n))
  BY <1>1, FiniteSets
<1>3. /\ Cardinality(Arriving(p, n)) \in Nat /\ (Cardinality(Arriving(p, n)) = 0 <=> Arriving(p, n) = {})
      /\ Cardinality(Requests(Other(p), "RELEASE", n)) \in Nat
      /\ (Cardinality(Requests(Other(p), "RELEASE", n)) = 0 <=> Requests(Other(p), "RELEASE", n) = {})
      /\ Cardinality(Releasing(Other(p), n)) \in Nat
      /\ (Cardinality(Releasing(Other(p), n)) = 0 <=> Releasing(Other(p), n) = {})
  BY <1>2, OneMoreOrLess
<1>4. stream[Other(p)][n].unread \in Nat /\ stream[Other(p)][n].held \in Nat
  BY <1>1, EntryAt DEF Entries
<1>. DEFINE P == stream[p][n]
            R == stream[Other(p)][n]
            a == Cardinality(Arriving(p, n))
            r == Cardinality(Requests(Other(p), "RELEASE", n))
            l == Cardinality(Releasing(Other(p), n))
<1>5. /\ P.remoteFill = a + R.unread + R.held + r /\ R.localFill = R.unread + R.held
      /\ R.held = l /\ (P.writeSize = 0 \/ R.readSize = 0 => P.remoteFill = 0)
  BY DEF Credit
<1>6. P.remoteFill # 0 => IsOpen(p, n)
  BY <1>5 DEF IsOpen
<1>7. R.unread \in Nat /\ R.held \in Nat /\ a \in Nat /\ r \in Nat /\ l \in Nat
  BY <1>3, <1>4
<1>8. /\ P.remoteFill \in Nat /\ R.localFill \in Nat
      /\ P.remoteFill = 0 => a = 0 /\ r = 0 /\ R.unread = 0 /\ R.held = 0 /\ R.localFill = 0 /\ l = 0
  BY <1>5, <1>7, FillLevels
<1>. QED
  BY <1>3, <1>6, <1>8

\* An open stream has one id on both sides.
LEMMA OpenIds ==
    ASSUME Typed, NEW p \in Peers, NEW n \in Names, Agreed(p, n), Agreed(Other(p), n), IsOpen(p, n)
    PROVE  stream[p][n].id # None /\ stream[Other(p)][n].id = stream[p][n].id
  BY TwoPeers DEF Agreed, IsOpen

\* A stream is found by its id.
LEMMA FoundById ==
    ASSUME OneOpener, Careful, NEW p \in Peers, NEW n \in Names, stream[p][n].id # None
    PROVE  /\ WithId(p, stream[p][n].id) = {n} /\ Exists(p, stream[p][n].id)
           /\ getStreamById(p, stream[p][n].id) = n
<1>1. PICK s \in Peers : s \notin FirstOpeners
  BY TwoPeers DEF OneOpener
<1>2. \A m \in Names \ {n} : stream[p][m].id # stream[p][n].id
  BY <1>1 DEF Careful, Second, Numbered
<1>3. WithId(p, stream[p][n].id) = {n}
  BY <1>2 DEF WithId
<1>. QED
  BY <1>3 DEF Exists, getStreamById

-----------------------------------------------------------------------------
(* The way to a peer                                                        *)

\* A message that is appended stays behind the answer that was ahead of it.
LEMMA AheadAppended ==
    ASSUME NEW T, NEW s \in Seq(T), NEW m \in T, NEW n, Ahead(s, n),
           Is(m, "REQ", "CREATE", n) => \E j \in DOMAIN s : Is(s[j], "RESP", "CREATE", n)
    PROVE  Ahead(Append(s, m), n)
<1>1. /\ DOMAIN Append(s, m) = 1..(Len(s) + 1) /\ DOMAIN s = 1..Len(s) /\ Len(s) \in Nat
      /\ Append(s, m)[Len(s) + 1] = m /\ \A i \in 1..Len(s) : Append(s, m)[i] = s[i]
  OBVIOUS
<1>. SUFFICES ASSUME NEW i \in 1..(Len(s) + 1), Is(Append(s, m)[i], "REQ", "CREATE", n)
              PROVE  \E j \in 1..(i - 1) : Is(Append(s, m)[j], "RESP", "CREATE", n)
  BY <1>1 DEF Ahead
<1>2. CASE i = Len(s) + 1
  <2>1. PICK j \in DOMAIN s : Is(s[j], "RESP", "CREATE", n)
    BY <1>1, <1>2
  <2>2. j \in 1..(i - 1) /\ Append(s, m)[j] = s[j]
    BY <1>1, <1>2, <2>1
  <2>. QED
    BY <2>1, <2>2
<1>3. CASE i # Len(s) + 1
  <2>1. i \in DOMAIN s /\ Is(s[i], "REQ", "CREATE", n)
    BY <1>1, <1>3
  <2>2. PICK j \in 1..(i - 1) : Is(s[j], "RESP", "CREATE", n)
    BY <2>1 DEF Ahead
  <2>3. Append(s, m)[j] = s[j]
    BY <1>1, <2>1
  <2>. QED
    BY <2>2, <2>3
<1>. QED
  BY <1>2, <1>3

\* The first message is taken, and it is not the answer.
LEMMA AheadLeft ==
    ASSUME NEW T, NEW s \in Seq(T), s # <<>>, NEW n, Ahead(s, n), ~Is(Head(s), "RESP", "CREATE", n)
    PROVE  Ahead(Tail(s), n)
<1>1. /\ DOMAIN Tail(s) = 1..(Len(s) - 1) /\ DOMAIN s = 1..Len(s) /\ Len(s) \in Nat /\ Len(s) > 0
      /\ Head(s) = s[1] /\ \A i \in 1..(Len(s) - 1) : Tail(s)[i] = s[i + 1]
  OBVIOUS
<1>. SUFFICES ASSUME NEW i \in 1..(Len(s) - 1), Is(Tail(s)[i], "REQ", "CREATE", n)
              PROVE  \E j \in 1..(i - 1) : Is(Tail(s)[j], "RESP", "CREATE", n)
  BY <1>1 DEF Ahead
<1>2. i + 1 \in DOMAIN s /\ Is(s[i + 1], "REQ", "CREATE", n)
  BY <1>1
<1>3. PICK j \in 1..((i + 1) - 1) : Is(s[j], "RESP", "CREATE", n)
  BY <1>2 DEF Ahead
<1>4. j # 1
  BY <1>1, <1>3
<1>5. j - 1 \in 1..(i - 1) /\ Tail(s)[j - 1] = s[(j - 1) + 1] /\ (j - 1) + 1 = j
  BY <1>1, <1>3, <1>4
<1>. QED
  BY <1>3, <1>5

\* A request at the head has no answer ahead of it.
LEMMA NoneAhead ==
    ASSUME NEW T, NEW s \in Seq(T), s # <<>>, NEW n, Is(Head(s), "REQ", "CREATE", n)
    PROVE  ~Ahead(s, n)
<1>1. 1 \in DOMAIN s /\ s[1] = Head(s) /\ 1..(1 - 1) = {}
  OBVIOUS
<1>. QED
  BY <1>1 DEF Ahead

\* What is appended to the second of two sequences, taken from the first, or moved
\* from the second to the first.
LEMMA Concatenated ==
    ASSUME NEW T, NEW a \in Seq(T), NEW b \in Seq(T)
    PROVE  /\ a \o b \in Seq(T)
           /\ \A m \in T : a \o Append(b, m) = Append(a \o b, m)
           /\ a # <<>> => a \o b # <<>> /\ Tail(a) \o b = Tail(a \o b) /\ Head(a \o b) = Head(a)
           /\ b # <<>> => Append(a, Head(b)) \o Tail(b) = a \o b
<1>1. /\ a \o b \in Seq(T) /\ Len(a \o b) = Len(a) + Len(b) /\ Len(a) \in Nat /\ Len(b) \in Nat
      /\ \A i \in 1..(Len(a) + Len(b)) : (a \o b)[i] = IF i <= Len(a) THEN a[i] ELSE b[i - Len(a)]
  OBVIOUS
<1>2. ASSUME NEW m \in T PROVE a \o Append(b, m) = Append(a \o b, m)
  <2>1. a \o Append(b, m) \in Seq(T) /\ Append(a \o b, m) \in Seq(T)
    OBVIOUS
  <2>2. Len(a \o Append(b, m)) = Len(Append(a \o b, m))
    OBVIOUS
  <2>3. \A i \in 1..Len(a \o Append(b, m)) : (a \o Append(b, m))[i] = Append(a \o b, m)[i]
    BY <1>1
  <2>. QED
    BY <2>1, <2>2, <2>3, SeqEqual
<1>3. ASSUME a # <<>>
      PROVE  a \o b # <<>> /\ Tail(a) \o b = Tail(a \o b) /\ Head(a \o b) = Head(a)
  <2>0. a \o b # <<>> /\ Tail(a) \in Seq(T) /\ Len(Tail(a)) = Len(a) - 1 /\ Len(a) > 0
    BY <1>1, <1>3
  <2>1. Tail(a) \o b \in Seq(T) /\ Tail(a \o b) \in Seq(T)
    BY <1>1, <2>0
  <2>2. Len(Tail(a) \o b) = Len(Tail(a \o b))
    BY <1>1, <2>0
  <2>3. \A i \in 1..Len(Tail(a) \o b) : (Tail(a) \o b)[i] = Tail(a \o b)[i]
    BY <1>1, <2>0
  <2>4. Head(a \o b) = Head(a)
    BY <1>1, <2>0
  <2>. QED
    BY <2>0, <2>1, <2>2, <2>3, <2>4, SeqEqual
<1>4. ASSUME b # <<>> PROVE Append(a, Head(b)) \o Tail(b) = a \o b
  <2>0. /\ Tail(b) \in Seq(T) /\ Len(Tail(b)) = Len(b) - 1 /\ Len(b) > 0 /\ Head(b) \in T
        /\ Append(a, Head(b)) \in Seq(T) /\ Len(Append(a, Head(b))) = Len(a) + 1
    BY <1>1, <1>4
  <2>1. Append(a, Head(b)) \o Tail(b) \in Seq(T)
    BY <2>0
  <2>2. Len(Append(a, Head(b)) \o Tail(b)) = Len(a \o b)
    BY <1>1, <2>0
  <2>3. \A i \in 1..Len(a \o b) : (Append(a, Head(b)) \o Tail(b))[i] = (a \o b)[i]
    BY <1>1, <2>0
  <2>. QED
    BY <1>1, <2>1, <2>2, <2>3, SeqEqual
<1>. QED
  BY <1>1, <1>2, <1>3, <1>4

LEMMA ElementsConcatenated ==
    ASSUME NEW T, NEW a \in Seq(T), NEW b \in Seq(T)
    PROVE  a \o b \in Seq(T) /\ Elements(a \o b) = Elements(a) \cup Elements(b)
<1>1. /\ a \o b \in Seq(T) /\ Len(a \o b) = Len(a) + Len(b) /\ Len(a) \in Nat /\ Len(b) \in Nat
      /\ \A i \in 1..(Len(a) + Len(b)) : (a \o b)[i] = IF i <= Len(a) THEN a[i] ELSE b[i - Len(a)]
  OBVIOUS
<1>2. Elements(a \o b) = Elements(a) \cup Elements(b)
  <2>1. DOMAIN (a \o b) = 1..(Len(a) + Len(b)) /\ DOMAIN a = 1..Len(a) /\ DOMAIN b = 1..Len(b)
    BY <1>1
  <2>2. \A i \in DOMAIN a : i \in DOMAIN (a \o b) /\ (a \o b)[i] = a[i]
    BY <1>1, <2>1
  <2>3. ASSUME NEW i \in DOMAIN b PROVE b[i] \in Elements(a \o b)
    <3>1. i + Len(a) \in DOMAIN (a \o b) /\ (a \o b)[i + Len(a)] = b[i]
      BY <1>1, <2>1
    <3>. QED
      BY <3>1 DEF Elements
  <2>4. ASSUME NEW i \in DOMAIN (a \o b) PROVE (a \o b)[i] \in Elements(a) \cup Elements(b)
    <3>1. CASE i <= Len(a)
      BY <1>1, <2>1, <3>1 DEF Elements
    <3>2. CASE ~(i <= Len(a))
      <4>1. i - Len(a) \in DOMAIN b /\ (a \o b)[i] = b[i - Len(a)]
        BY <1>1, <2>1, <3>2
      <4>. QED
        BY <4>1 DEF Elements
    <3>. QED
      BY <3>1, <3>2
  <2>. QED
    BY <2>2, <2>3, <2>4 DEF Elements
<1>. QED
  BY <1>1, <1>2

\* A peer's way is lengthened by what the other one sends and shortened by what it
\* handles.
LEMMA WayType ==
    ASSUME Typed, NEW p \in Peers
    PROVE  /\ Way(p) \in Seq(Packets(app.sizes))
           /\ Elements(Way(p)) = Under(Other(p))
<1>1. wire[Other(p)] \in Seq(Packets(app.sizes)) /\ rQueue[p] \in Seq(Packets(app.sizes))
  BY TwoPeers DEF Typed
<1>2. ASSUME NEW a \in Seq(Packets(app.sizes)), NEW b \in Seq(Packets(app.sizes))
      PROVE  a \o b \in Seq(Packets(app.sizes)) /\ Elements(a \o b) = Elements(a) \cup Elements(b)
  BY ElementsConcatenated
<1>. QED
  BY <1>1, <1>2, TwoPeers DEF Way, Under, On, In

LEMMA WaySent ==
    ASSUME Typed, NEW p \in Peers, NEW m \in Packets(app.sizes), Sent(p, m)
    PROVE  Way(p)' = Way(p) /\ Way(Other(p))' = Append(Way(Other(p)), m)
<1>1. wire \in [Peers -> Seq(Packets(app.sizes))] /\ wire[p] \in Seq(Packets(app.sizes))
      /\ rQueue[Other(p)] \in Seq(Packets(app.sizes))
  BY TwoPeers DEF Typed
<1>2. wire'[p] = Append(wire[p], m) /\ wire'[Other(p)] = wire[Other(p)] /\ rQueue' = rQueue
      /\ Other(Other(p)) = p
  BY <1>1, TwoPeers DEF Sent
<1>3. ASSUME NEW a \in Seq(Packets(app.sizes)), NEW b \in Seq(Packets(app.sizes))
      PROVE  a \o Append(b, m) = Append(a \o b, m)
  BY Concatenated
<1>. QED
  BY <1>1, <1>2, <1>3 DEF Way

LEMMA WayReceived ==
    ASSUME Typed, NEW p \in Peers, Received(p)
    PROVE  Way(p)' = Way(p) /\ Way(Other(p))' = Way(Other(p))
<1>1. /\ wire \in [Peers -> Seq(Packets(app.sizes))] /\ rQueue \in [Peers -> Seq(Packets(app.sizes))]
      /\ Other(p) \in Peers /\ Other(p) # p /\ Other(Other(p)) = p
  BY TwoPeers DEF Typed
<1>2. /\ wire'[Other(p)] = Tail(wire[Other(p)]) /\ wire'[p] = wire[p] /\ wire[Other(p)] # <<>>
      /\ rQueue'[p] = Append(rQueue[p], Head(wire[Other(p)])) /\ rQueue'[Other(p)] = rQueue[Other(p)]
  BY <1>1 DEF Received
<1>3. wire[Other(p)] \in Seq(Packets(app.sizes)) /\ rQueue[p] \in Seq(Packets(app.sizes))
  BY <1>1
<1>. QED
  BY <1>1, <1>2, <1>3, Concatenated DEF Way

LEMMA WayHandled ==
    ASSUME Typed, NEW p \in Peers, rQueue[p] # <<>>, rQueue' = [rQueue EXCEPT ![p] = Tail(@)]
    PROVE  /\ wire'[Other(p)] = wire[Other(p)] => Way(p)' = Tail(Way(p))
           /\ Way(p) # <<>> /\ Head(Way(p)) = Head(rQueue[p])
           /\ wire' = wire => Way(Other(p))' = Way(Other(p))
           /\ \A m \in Packets(app.sizes) : wire' = [wire EXCEPT ![p] = Append(@, m)] =>
                 /\ Way(p)' = Tail(Way(p))
                 /\ Way(Other(p))' = Append(Way(Other(p)), m)
<1>1. /\ wire \in [Peers -> Seq(Packets(app.sizes))] /\ rQueue \in [Peers -> Seq(Packets(app.sizes))]
      /\ Other(p) \in Peers /\ Other(p) # p /\ Other(Other(p)) = p
  BY TwoPeers DEF Typed
<1>2. rQueue'[p] = Tail(rQueue[p]) /\ rQueue'[Other(p)] = rQueue[Other(p)]
  BY <1>1
<1>3. /\ wire[Other(p)] \in Seq(Packets(app.sizes)) /\ rQueue[p] \in Seq(Packets(app.sizes))
      /\ wire[p] \in Seq(Packets(app.sizes)) /\ rQueue[Other(p)] \in Seq(Packets(app.sizes))
  BY <1>1
<1>8. Tail(rQueue[p]) \o wire[Other(p)] = Tail(rQueue[p] \o wire[Other(p)])
  BY <1>3, Concatenated
<1>4. wire'[Other(p)] = wire[Other(p)] => Way(p)' = Tail(Way(p))
  BY <1>2, <1>8 DEF Way
<1>5. Way(p) # <<>> /\ Head(Way(p)) = Head(rQueue[p])
  BY <1>3, Concatenated DEF Way
<1>6. wire' = wire => Way(Other(p))' = Way(Other(p))
  BY <1>2 DEF Way
<1>7. ASSUME NEW m \in Packets(app.sizes), wire' = [wire EXCEPT ![p] = Append(@, m)]
      PROVE  Way(p)' = Tail(Way(p)) /\ Way(Other(p))' = Append(Way(Other(p)), m)
  <2>1. wire'[p] = Append(wire[p], m) /\ wire'[Other(p)] = wire[Other(p)]
    BY <1>1, <1>7
  <2>. QED
    BY <1>1, <1>2, <1>3, <1>4, <2>1, Concatenated DEF Way
<1>. QED
  BY <1>4, <1>5, <1>6, <1>7

-----------------------------------------------------------------------------
(* Calls                                                                    *)

\* A call that is made, goes on, or ends.
LEMMA CallAdded ==
    ASSUME Typed, NEW t \in Threads, NEW type \in Types, NEW n, NEW id, NEW size, Call(t, type, n, id, size)
    PROVE  /\ \A q, k, types : Using(q, k, types)' =
                 IF q = t[1] /\ k = n /\ type \in types THEN Using(q, k, types) \cup {t}
                 ELSE Using(q, k, types) \ {t}
           /\ \A q, k : Releasing(q, k)' =
                 IF q = t[1] /\ k = n /\ type = "RELEASE" THEN Releasing(q, k) \cup {t} ELSE Releasing(q, k)
           /\ \A q, k : t \notin Using(q, k, Types) /\ t \notin Releasing(q, k)
           /\ \A u \in Threads \ {t} : event'[u] = event[u]
           /\ event'[t].at = "queued" /\ event'[t].id = id /\ event'[t].type = type
<1>1. /\ event'[t] = [type |-> type, at |-> "queued", name |-> n, id |-> id, size |-> size]
      /\ \A u \in Threads \ {t} : event'[u] = event[u]
      /\ event[t].type = "NONE"
  BY DEF Call, Typed, Idle
<1>2. PICK c : c = event'[t] /\ c.at = "queued" /\ c.id = id /\ c.type = type /\ c.name = n
  BY <1>1
<1>3. ASSUME NEW q, NEW k, NEW types
      PROVE  Using(q, k, types)' =
                 IF q = t[1] /\ k = n /\ type \in types THEN Using(q, k, types) \cup {t}
                 ELSE Using(q, k, types) \ {t}
  BY <1>1, <1>2 DEF Using
<1>4. ASSUME NEW q, NEW k
      PROVE  Releasing(q, k)' =
                 IF q = t[1] /\ k = n /\ type = "RELEASE" THEN Releasing(q, k) \cup {t} ELSE Releasing(q, k)
  BY <1>1, <1>2, <1>3 DEF Releasing, Using
<1>5. ASSUME NEW q, NEW k PROVE t \notin Using(q, k, Types) /\ t \notin Releasing(q, k)
  BY <1>1 DEF Using, Releasing, Types
<1>. QED
  BY <1>1, <1>2, <1>3, <1>4, <1>5

LEMMA CallMoved ==
    ASSUME Typed, NEW t \in Threads, NEW at, at # "queued", event[t] # Idle, Becomes(t, at)
    PROVE  /\ \A q, k, types : Using(q, k, types)' = Using(q, k, types)
           /\ \A q, k : Releasing(q, k)' = Releasing(q, k) \ {t}
           /\ \A u \in Threads \ {t} : event'[u] = event[u]
           /\ event'[t].at = at /\ event'[t].id = event[t].id /\ event'[t].type = event[t].type
           /\ event'[t].name = event[t].name
<1>1. event[t] \in Calls(app.sizes)
  BY Underway
<1>2. PICK c : c = [event[t] EXCEPT !.at = at]
  OBVIOUS
<1>3. c.at = at /\ c.type = event[t].type /\ c.name = event[t].name /\ c.id = event[t].id
  BY <1>1, <1>2 DEF Calls
<1>4. event'[t] = c /\ \A u \in Threads \ {t} : event'[u] = event[u]
  BY <1>2 DEF Becomes, Typed
<1>5. ASSUME NEW q, NEW k, NEW types PROVE Using(q, k, types)' = Using(q, k, types)
  BY <1>3, <1>4 DEF Using
<1>6. ASSUME NEW q, NEW k PROVE Releasing(q, k)' = Releasing(q, k) \ {t}
  BY <1>3, <1>4, <1>5 DEF Releasing, Using
<1>. QED
  BY <1>3, <1>4, <1>5, <1>6

LEMMA CallEnded ==
    ASSUME Typed, NEW t \in Threads, event' = [event EXCEPT ![t] = Idle]
    PROVE  /\ \A q, k, types : types \subseteq Types => Using(q, k, types)' = Using(q, k, types) \ {t}
           /\ \A q, k : Releasing(q, k)' = Releasing(q, k) \ {t}
           /\ \A u \in Threads \ {t} : event'[u] = event[u]
<1>1. event'[t].type = "NONE" /\ \A u \in Threads \ {t} : event'[u] = event[u]
  BY DEF Typed, Idle
<1>2. ASSUME NEW q, NEW k, NEW types, types \subseteq Types
      PROVE  Using(q, k, types)' = Using(q, k, types) \ {t}
  BY <1>1, <1>2 DEF Using, Types
<1>3. ASSUME NEW q, NEW k PROVE Releasing(q, k)' = Releasing(q, k) \ {t}
  BY <1>1 DEF Releasing, Using
<1>. QED
  BY <1>1, <1>2, <1>3

-----------------------------------------------------------------------------
(* What a step keeps                                                        *)

\* Of a stream: its entries and messages, its calls and its handles.
SameEntries(n) == \A q \in Peers : stream'[q][n] = stream[q][n]
SameMessagesOf(n) == \A q \in Peers : SameSets(q, n)
SameHandles(n) == \A q \in Peers : handle'[q][n] = handle[q][n]
SameCalls(n) ==
    /\ \A q, types : types \subseteq Types => Using(q, n, types)' = Using(q, n, types)
    /\ \A q : Releasing(q, n)' = Releasing(q, n)
    /\ \A q : \A t \in Using(q, n, Types) : event'[t] = event[t]
FewerCalls(n) == \A q, types : types \subseteq Types => Using(q, n, types)' \subseteq Using(q, n, types)

LEMMA PutAt ==
    ASSUME Typed, NEW p \in Peers, NEW n \in Names, NEW e, stream' = [stream EXCEPT ![p][n] = e]
    PROVE  /\ stream'[p][n] = e
           /\ \A q \in Peers, k \in Names : q # p \/ k # n => stream'[q][k] = stream[q][k]
  BY DEF Typed

LEMMA CreditKept ==
    ASSUME NEW p \in Peers, NEW n \in Names, Credit(p, n),
           stream'[p][n].remoteFill = stream[p][n].remoteFill,
           stream'[p][n].writeSize = stream[p][n].writeSize,
           stream'[Other(p)][n].unread = stream[Other(p)][n].unread,
           stream'[Other(p)][n].held = stream[Other(p)][n].held,
           stream'[Other(p)][n].localFill = stream[Other(p)][n].localFill,
           stream'[Other(p)][n].readSize = stream[Other(p)][n].readSize,
           Arriving(p, n)' = Arriving(p, n),
           Requests(Other(p), "RELEASE", n)' = Requests(Other(p), "RELEASE", n),
           Releasing(Other(p), n)' = Releasing(Other(p), n)
    PROVE  Credit(p, n)'
  BY DEF Credit

\* The numbers that make up the credit of an open stream.
LEMMA CreditIs ==
    ASSUME Typed, NEW p \in Peers, NEW n \in Names, Credit(p, n)
    PROVE  \E a, u, h, r \in Nat :
              /\ a = Cardinality(Arriving(p, n)) /\ u = stream[Other(p)][n].unread
              /\ h = stream[Other(p)][n].held /\ r = Cardinality(Requests(Other(p), "RELEASE", n))
              /\ stream[p][n].remoteFill = a + u + h + r /\ stream[Other(p)][n].localFill = u + h
              /\ h = Cardinality(Releasing(Other(p), n))
<1>1. Other(p) \in Peers
  BY TwoPeers
<1>2. PICK a \in Nat, r \in Nat :
         a = Cardinality(Arriving(p, n)) /\ r = Cardinality(Requests(Other(p), "RELEASE", n))
  BY <1>1, FiniteSets, OneMoreOrLess
<1>3. PICK u \in Nat, h \in Nat : u = stream[Other(p)][n].unread /\ h = stream[Other(p)][n].held
  BY <1>1, EntryAt DEF Entries
<1>. QED
  BY <1>2, <1>3 DEF Credit

LEMMA CreditMade ==
    ASSUME NEW p \in Peers, NEW n \in Names, NEW a, NEW u, NEW h, NEW r,
           a = Cardinality(Arriving(p, n)'), u = stream'[Other(p)][n].unread,
           h = stream'[Other(p)][n].held, r = Cardinality(Requests(Other(p), "RELEASE", n)'),
           stream'[p][n].remoteFill = a + u + h + r, stream'[Other(p)][n].localFill = u + h,
           h = Cardinality(Releasing(Other(p), n)'), IsOpen(p, n)'
    PROVE  Credit(p, n)'
  BY DEF Credit, IsOpen

LEMMA AgreedKept ==
    ASSUME NEW p \in Peers, NEW n \in Names, Agreed(p, n),
           stream'[p][n].id = stream[p][n].id,
           stream'[p][n].remoteFill = stream[p][n].remoteFill,
           stream'[p][n].writeSize = stream[p][n].writeSize,
           stream'[p][n].readSize = stream[p][n].readSize,
           stream'[Other(p)][n].id = stream[Other(p)][n].id,
           stream'[Other(p)][n].readSize = stream[Other(p)][n].readSize,
           SameSets(p, n), Requests(Other(p), "RELEASE", n)' = Requests(Other(p), "RELEASE", n)
    PROVE  Agreed(p, n)'
  BY DEF Agreed, IsOpen, SameSets

\* The same when packets of a stream are given back.
LEMMA AgreedStill ==
    ASSUME NEW p \in Peers, NEW n \in Names, Agreed(p, n),
           stream'[p][n].id = stream[p][n].id,
           stream'[p][n].remoteFill = stream[p][n].remoteFill,
           stream'[p][n].writeSize = stream[p][n].writeSize,
           stream'[p][n].readSize = stream[p][n].readSize,
           stream'[Other(p)][n].id = stream[Other(p)][n].id,
           stream'[Other(p)][n].readSize = stream[Other(p)][n].readSize,
           Answers(p, "CREATE", n)' = Answers(p, "CREATE", n),
           Answers(p, "CLOSE", n)' = Answers(p, "CLOSE", n),
           Requests(p, "CLOSE", n)' = Requests(p, "CLOSE", n),
           Arriving(p, n)' \subseteq Arriving(p, n),
           \A m \in Requests(Other(p), "RELEASE", n)' :
              m \in Requests(Other(p), "RELEASE", n) \/ m.id = stream[p][n].id
    PROVE  Agreed(p, n)'
  BY DEF Agreed, IsOpen

\* An open stream stays open with its id, nothing else is released, and no call is new.
LEMMA FittingKept ==
    ASSUME NEW p \in Peers, NEW n \in Names, Fitting(p, n),
           IsOpen(p, n) => IsOpen(p, n)' /\ stream'[p][n].id = stream[p][n].id,
           Releasing(p, n)' \subseteq Releasing(p, n),
           Releasing(p, n)' # {} => stream'[p][n].id = stream[p][n].id,
           FewerCalls(n),
           \A t \in Using(p, n, Types)' :
              /\ event'[t].id = event[t].id /\ event'[t].type = event[t].type
              /\ event'[t].at \in {"queued", "blocked"} => event[t].at \in {"queued", "blocked"}
              /\ event'[t].at = "created" => event[t].at = "created",
           handle'[p][n] = handle[p][n]
    PROVE  Fitting(p, n)'
<1>1. /\ Using(p, n, {"WRITE", "CLOSE"})' \subseteq Using(p, n, {"WRITE", "CLOSE"})
      /\ Using(p, n, Types)' \subseteq Using(p, n, Types)
      /\ Using(p, n, {"CLOSE"})' \subseteq Using(p, n, {"CLOSE"})
  BY DEF FewerCalls, Types
<1>2. /\ Using(p, n, {"WRITE", "CLOSE"})' \subseteq Using(p, n, Types)'
      /\ Releasing(p, n)' \subseteq Using(p, n, Types)'
  BY DEF Using, Types, Releasing
<1>3. \A t \in Using(p, n, {"WRITE", "CLOSE"})' :
        event'[t].at \in {"queued", "blocked"} => IsOpen(p, n)' /\ event'[t].id = stream'[p][n].id
  BY <1>1, <1>2 DEF Fitting
<1>4. \A t \in Using(p, n, Types)' :
        event'[t].at = "created" => IsOpen(p, n)' /\ event'[t].type = "CREATE"
  BY <1>1, <1>2 DEF Fitting
<1>5. \A t \in Releasing(p, n)' : event'[t].id = stream'[p][n].id
  BY <1>2 DEF Fitting
<1>6. handle'[p][n] # None => /\ IsOpen(p, n)' /\ handle'[p][n] = stream'[p][n].id
                              /\ Using(p, n, {"CLOSE"})' = {}
  BY <1>1 DEF Fitting
<1>. QED
  BY <1>3, <1>4, <1>5, <1>6 DEF Fitting

LEMMA AloneKept ==
    ASSUME NEW p \in Peers, NEW n \in Names, Alone(p, n), FewerCalls(n)
    PROVE  Alone(p, n)'
<1>1. /\ Using(p, n, {"CLOSE"})' \subseteq Using(p, n, {"CLOSE"})
      /\ Using(p, n, Types)' \subseteq Using(p, n, Types)
      /\ Using(Other(p), n, {"CREATE"})' \subseteq Using(Other(p), n, {"CREATE"})
  BY DEF FewerCalls, Types
<1>2. Using(p, n, {"CLOSE"})' \subseteq Using(p, n, Types)'
  BY DEF Using, Types
<1>. QED
  BY <1>1, <1>2 DEF Alone

LEMMA SameCallsAreFewer ==
    ASSUME NEW n, SameCalls(n)
    PROVE  FewerCalls(n)
  BY DEF SameCalls, FewerCalls

\* A stream that a step does not concern.
LEMMA DirectionKept ==
    ASSUME NEW p \in Peers, NEW n \in Names, Direction(p, n),
           SameEntries(n), SameMessagesOf(n), SameCalls(n), SameHandles(n)
    PROVE  Direction(p, n)'
<1>1. Other(p) \in Peers /\ FewerCalls(n)
  BY TwoPeers, SameCallsAreFewer
<1>2. stream'[p][n] = stream[p][n] /\ stream'[Other(p)][n] = stream[Other(p)][n]
  BY <1>1 DEF SameEntries
<1>3. /\ SameSets(p, n) /\ Requests(Other(p), "RELEASE", n)' = Requests(Other(p), "RELEASE", n)
      /\ Arriving(p, n)' = Arriving(p, n)
      /\ Releasing(Other(p), n)' = Releasing(Other(p), n) /\ Releasing(p, n)' = Releasing(p, n)
  BY <1>1 DEF SameMessagesOf, SameSets, SameCalls
<1>4. Credit(p, n)' /\ Agreed(p, n)'
  BY <1>2, <1>3, CreditKept, AgreedKept DEF Direction
<1>5. IsOpen(p, n) => IsOpen(p, n)'
  BY <1>2 DEF IsOpen
<1>6. \A t \in Using(p, n, Types)' : event'[t] = event[t]
  BY DEF SameCalls, Types
<1>7. Fitting(p, n)'
  BY <1>1, <1>2, <1>3, <1>5, <1>6, FittingKept DEF Direction, SameHandles
<1>8. Alone(p, n)'
  BY <1>1, AloneKept DEF Direction
<1>. QED
  BY <1>4, <1>7, <1>8 DEF Direction

\* Messages of calls that stay as they are, and new ones of calls that wait for them.
LEMMA MessagesFitKept ==
    ASSUME MessagesFit,
           \A p \in Peers : \A m \in Under(p)' :
              \/ m \in Under(p) /\ event'[m.thread] = event[m.thread]
              \/ MessageFits(m)' /\ m.thread[1] = IF m.kind = "REQ" THEN p ELSE Other(p)
    PROVE  MessagesFit'
<1>. SUFFICES ASSUME NEW p \in Peers, NEW m \in Under(p)'
              PROVE  MessageFits(m)' /\ m.thread[1] = IF m.kind = "REQ" THEN p ELSE Other(p)
  BY DEF MessagesFit
<1>1. CASE m \in Under(p) /\ event'[m.thread] = event[m.thread]
  BY <1>1 DEF MessagesFit, MessageFits
<1>. QED
  BY <1>1

\* The second peer's streams, when no id is new.
LEMMA SecondKept ==
    ASSUME NEW p \in Peers, NEW n \in Names, Second(p, n), next'[p] = next[p],
           \A q \in Peers, k \in Names : stream'[q][k].id = stream[q][k].id,
           Using(p, n, {"CREATE"})' \subseteq Using(p, n, {"CREATE"}) \/ stream[p][n].id # None,
           stream[Other(p)][n].id # None \/ Ahead(Way(Other(p)), n)'
    PROVE  Second(p, n)'
<1>1. Other(p) \in Peers
  BY TwoPeers
<1>2. Numbered(p, n)'
  BY DEF Second, Numbered
<1>3. OpensSecond(p, n)'
  BY <1>1 DEF Second, OpensSecond
<1>. QED
  BY <1>2, <1>3 DEF Second

\* A step that concerns one stream.
LEMMA CarefulKept ==
    ASSUME Careful, NEW n \in Names, ~aborted', MessagesFit',
           \A k \in Names \ {n} : SameEntries(k) /\ SameMessagesOf(k) /\ SameCalls(k) /\ SameHandles(k),
           \A q \in Peers : Direction(q, n)',
           \A q \in Peers \ FirstOpeners, k \in Names : Second(q, k)'
    PROVE  Careful'
<1>1. ASSUME NEW q \in Peers, NEW k \in Names \ {n} PROVE Direction(q, k)'
  BY DirectionKept DEF Careful
<1>. QED
  BY <1>1 DEF Careful

-----------------------------------------------------------------------------
(* The calls of the applications                                            *)

LEMMA NothingSent ==
    ASSUME UNCHANGED <<wire, rQueue>>
    PROVE  /\ \A q : On(q)' = On(q) /\ Under(q)' = Under(q) /\ Way(q)' = Way(q)
           /\ \A q, k : SameSets(q, k)
           /\ \A q, type, k : Requests(q, type, k)' = Requests(q, type, k)
<1>1. \A q : On(q)' = On(q) /\ In(q)' = In(q) /\ Way(q)' = Way(q)
  BY DEF On, In, Way
<1>2. \A q : Under(q)' = Under(q)
  BY <1>1 DEF Under
<1>3. \A q, type, k : /\ Requests(q, type, k)' = Requests(q, type, k)
                      /\ Answers(q, type, k)' = Answers(q, type, k)
                      /\ Arriving(q, k)' = Arriving(q, k)
  BY <1>1, <1>2 DEF Requests, Answers, Arriving
<1>. QED
  BY <1>1, <1>2, <1>3 DEF SameSets

\* A step of an application: it sends nothing, and what it does to its stream is to
\* be shown.
LEMMA ApplicationKeeps ==
    ASSUME Typed, OneEach, Careful, NEW t \in Threads, NEW n \in Names, event[t].at # "pending",
           UNCHANGED <<wire, rQueue, next, aborted>>,
           \A u \in Threads \ {t} : event'[u] = event[u],
           \A k \in Names \ {n} : SameEntries(k) /\ SameHandles(k) /\ SameCalls(k),
           \A q \in Peers, k \in Names : stream'[q][k].id = stream[q][k].id,
           \A q \in Peers : Direction(q, n)',
           \A q \in Peers \ FirstOpeners :
              Using(q, n, {"CREATE"})' \subseteq Using(q, n, {"CREATE"}) \/ stream[q][n].id # None
    PROVE  Careful'
<1>1. MessagesFit'
  <2>1. ASSUME NEW p \in Peers, NEW m \in Under(p) PROVE event'[m.thread] = event[m.thread]
    <3>1. m.thread \in Threads
      BY MessageSets DEF Packets
    <3>2. MessageFits(m)
      BY DEF Careful, MessagesFit
    <3>. QED
      BY <3>1, <3>2 DEF MessageFits
  <2>. QED
    BY <2>1, NothingSent, MessagesFitKept DEF Careful
<1>2. \A k : SameMessagesOf(k)
  BY NothingSent DEF SameMessagesOf
<1>3. ASSUME NEW q \in Peers \ FirstOpeners, NEW k \in Names PROVE Second(q, k)'
  <2>1. Using(q, k, {"CREATE"})' \subseteq Using(q, k, {"CREATE"}) \/ stream[q][k].id # None
    BY DEF SameCalls, Types
  <2>2. Second(q, k)
    BY DEF Careful
  <2>3. stream[Other(q)][k].id # None \/ Ahead(Way(Other(q)), k)'
    <3>1. Way(Other(q))' = Way(Other(q))
      BY NothingSent
    <3>. QED
      BY <2>2, <3>1 DEF Second, OpensSecond, Ahead
  <2>. QED
    BY <2>1, <2>2, <2>3, SecondKept
<1>. QED
  BY <1>1, <1>2, <1>3, CarefulKept DEF Careful

\* A new call leaves the other streams as they are.
LEMMA CallElsewhere ==
    ASSUME Typed, NEW t \in Threads, NEW type \in Types, NEW n, NEW id, NEW size, Call(t, type, n, id, size)
    PROVE  /\ event[t].at # "pending" /\ event[t] = Idle /\ ~aborted
           /\ \A k \in Names \ {n} : SameCalls(k)
           /\ \A q, types : types \subseteq Types =>
                 Using(q, n, types)' = IF q = t[1] /\ type \in types THEN Using(q, n, types) \cup {t}
                                                                     ELSE Using(q, n, types)
<1>1. event[t] = Idle /\ ~aborted /\ event[t].at # "pending"
  BY DEF Call, Idle
<1>2. \A q, k, types : types \subseteq Types => t \notin Using(q, k, types)
  BY <1>1 DEF Using, Types, Idle
<1>3. \A q, k : \A u \in Using(q, k, Types) : u \in Threads \ {t}
  BY <1>2 DEF Using
<1>4. ASSUME NEW k \in Names \ {n} PROVE SameCalls(k)
  <2>1. ASSUME NEW q, NEW types, types \subseteq Types PROVE Using(q, k, types)' = Using(q, k, types)
    <3>1. Using(q, k, types)' = Using(q, k, types) \ {t}
      BY CallAdded
    <3>2. t \notin Using(q, k, types)
      BY <1>2, <2>1
    <3>. QED
      BY <3>1, <3>2
  <2>2. \A q : Releasing(q, k)' = Releasing(q, k)
    BY CallAdded
  <2>3. \A u \in Threads \ {t} : event'[u] = event[u]
    BY CallAdded
  <2>. QED
    BY <1>3, <2>1, <2>2, <2>3 DEF SameCalls
<1>. QED
  BY <1>1, <1>2, <1>4, CallAdded

LEMMA OpenStreamCareful ==
    ASSUME Typed, OneEach, Careful, app.exclusive, NEW t \in Threads, NEW n \in Names, XLinkOpenStream(t, n)
    PROVE  Careful'
<1>1. PICK size \in app.sizes : Call(t, "CREATE", n, None, size)
  BY DEF XLinkOpenStream
<1>2. /\ UNCHANGED <<stream, next, handle, wire, rQueue, aborted>>
      /\ t[1] \in FirstOpeners \/ stream[t[1]][n].id # None
      /\ Using(t[1], n, {"CLOSE"}) = {} /\ Using(Other(t[1]), n, {"CLOSE"}) = {}
      /\ t[1] \in Peers
  BY PeerOfThread DEF XLinkOpenStream, Call
<1>3. /\ event[t].at # "pending" /\ event[t] = Idle
      /\ \A k \in Names \ {n} : SameCalls(k)
      /\ \A q, types : types \subseteq Types =>
            Using(q, n, types)' = IF q = t[1] /\ "CREATE" \in types THEN Using(q, n, types) \cup {t}
                                                                  ELSE Using(q, n, types)
  BY <1>1, CallElsewhere DEF Types
<1>4. /\ \A q, k : Releasing(q, k)' = Releasing(q, k)
      /\ \A u \in Threads \ {t} : event'[u] = event[u]
      /\ event'[t].at = "queued"
  BY <1>1, CallAdded DEF Types
<1>5. ASSUME NEW q \in Peers PROVE Direction(q, n)'
  <2>1. Direction(q, n) /\ Other(q) \in Peers
    BY TwoPeers DEF Careful
  <2>2. Credit(q, n)' /\ Agreed(q, n)'
    BY <1>2, <1>4, <2>1, NothingSent, CreditKept, AgreedKept DEF Direction, SameSets
  <2>3. Fitting(q, n)'
    <3>1. /\ Using(q, n, {"WRITE", "CLOSE"})' = Using(q, n, {"WRITE", "CLOSE"})
          /\ Using(q, n, {"CLOSE"})' = Using(q, n, {"CLOSE"})
          /\ Using(q, n, Types)' \subseteq Using(q, n, Types) \cup {t}
      BY <1>3 DEF Types
    <3>2. t \notin Using(q, n, {"WRITE", "CLOSE"}) /\ t \notin Releasing(q, n)
      BY <1>3 DEF Using, Releasing, Idle, Types
    <3>3. \A u \in Using(q, n, {"WRITE", "CLOSE"}) \cup Releasing(q, n) : event'[u] = event[u]
      BY <1>4, <3>2 DEF Using, Releasing
    <3>4. \A u \in Using(q, n, Types)' : event'[u].at = "created" => event'[u] = event[u] /\ u \in Using(q, n, Types)
      BY <1>4, <3>1 DEF Using
    <3>5. IsOpen(q, n)' <=> IsOpen(q, n)
      BY <1>2 DEF IsOpen
    <3>. QED
      BY <1>2, <1>4, <2>1, <3>1, <3>3, <3>4, <3>5 DEF Direction, Fitting
  <2>4. Alone(q, n)'
    <3>1. Using(q, n, {"CLOSE"})' = {}
      BY <1>2, <1>3, TwoPeers DEF Types
    <3>. QED
      BY <3>1 DEF Alone
  <2>. QED
    BY <2>2, <2>3, <2>4 DEF Direction
<1>6. \A q \in Peers \ FirstOpeners :
        Using(q, n, {"CREATE"})' \subseteq Using(q, n, {"CREATE"}) \/ stream[q][n].id # None
  BY <1>2, <1>3 DEF Types
<1>7. \A k \in Names \ {n} : SameEntries(k) /\ SameHandles(k) /\ SameCalls(k)
  BY <1>2, <1>3 DEF SameEntries, SameHandles
<1>. QED
  BY <1>2, <1>3, <1>4, <1>5, <1>6, <1>7, ApplicationKeeps

LEMMA WriteDataCareful ==
    ASSUME Typed, OneEach, Careful, app.exclusive, NEW t \in Threads, NEW n \in Names, XLinkWriteData(t, n)
    PROVE  Careful'
<1>1. /\ Call(t, "WRITE", n, handle[t[1]][n], 1) /\ handle[t[1]][n] # None
      /\ UNCHANGED <<stream, next, handle, wire, rQueue, aborted>>
      /\ Using(t[1], n, {"CLOSE"}) = {} /\ t[1] \in Peers
  BY PeerOfThread DEF XLinkWriteData, Call
<1>3. /\ event[t].at # "pending" /\ event[t] = Idle
      /\ \A k \in Names \ {n} : SameCalls(k)
      /\ \A q, types : types \subseteq Types =>
            Using(q, n, types)' = IF q = t[1] /\ "WRITE" \in types THEN Using(q, n, types) \cup {t}
                                                                 ELSE Using(q, n, types)
  BY <1>1, CallElsewhere DEF Types
<1>4. /\ \A q, k : Releasing(q, k)' = Releasing(q, k)
      /\ \A u \in Threads \ {t} : event'[u] = event[u]
      /\ event'[t].at = "queued" /\ event'[t].id = handle[t[1]][n]
  BY <1>1, CallAdded DEF Types
<1>5. ASSUME NEW q \in Peers PROVE Direction(q, n)'
  <2>1. Direction(q, n) /\ Other(q) \in Peers
    BY TwoPeers DEF Careful
  <2>2. Credit(q, n)' /\ Agreed(q, n)'
    BY <1>1, <1>4, <2>1, NothingSent, CreditKept, AgreedKept DEF Direction, SameSets
  <2>3. Fitting(q, n)'
    <3>1. /\ Using(q, n, {"WRITE", "CLOSE"})' = IF q = t[1] THEN Using(q, n, {"WRITE", "CLOSE"}) \cup {t}
                                                            ELSE Using(q, n, {"WRITE", "CLOSE"})
          /\ Using(q, n, {"CLOSE"})' = Using(q, n, {"CLOSE"})
          /\ Using(q, n, Types)' \subseteq Using(q, n, Types) \cup {t}
      BY <1>3 DEF Types
    <3>2. t \notin Using(q, n, Types) \cup Using(q, n, {"WRITE", "CLOSE"}) \cup Releasing(q, n)
      BY <1>3 DEF Using, Releasing, Idle, Types
    <3>3. \A u \in Using(q, n, Types) \cup Using(q, n, {"WRITE", "CLOSE"}) \cup Releasing(q, n) :
             event'[u] = event[u]
      BY <1>4, <3>2 DEF Using, Releasing
    <3>4. q = t[1] => IsOpen(q, n) /\ event'[t].id = stream[q][n].id
      BY <1>1, <1>4, <2>1 DEF Direction, Fitting
    <3>5. IsOpen(q, n)' <=> IsOpen(q, n)
      BY <1>1 DEF IsOpen
    <3>. QED
      BY <1>1, <1>4, <2>1, <3>1, <3>3, <3>4, <3>5 DEF Direction, Fitting
  <2>4. Alone(q, n)'
    <3>1. CASE q = t[1]
      <4>1. Using(q, n, {"CLOSE"})' = {}
        BY <1>1, <1>3, <3>1 DEF Types
      <4>. QED
        BY <4>1 DEF Alone
    <3>2. CASE q # t[1]
      <4>1. /\ Using(q, n, {"CLOSE"})' = Using(q, n, {"CLOSE"})
            /\ Using(q, n, Types)' = Using(q, n, Types)
            /\ Using(Other(q), n, {"CREATE"})' = Using(Other(q), n, {"CREATE"})
        BY <1>3, <3>2 DEF Types
      <4>. QED
        BY <2>1, <4>1 DEF Direction, Alone
    <3>. QED
      BY <3>1, <3>2
  <2>. QED
    BY <2>2, <2>3, <2>4 DEF Direction
<1>6. \A q \in Peers \ FirstOpeners : Using(q, n, {"CREATE"})' \subseteq Using(q, n, {"CREATE"})
  BY <1>3 DEF Types
<1>7. \A k \in Names \ {n} : SameEntries(k) /\ SameHandles(k) /\ SameCalls(k)
  BY <1>1, <1>3 DEF SameEntries, SameHandles
<1>. QED
  BY <1>1, <1>3, <1>4, <1>5, <1>6, <1>7, ApplicationKeeps

LEMMA ReadCareful ==
    ASSUME Typed, OneEach, Careful, app.exclusive, NEW t \in Threads, NEW n \in Names, ReadAndRelease(t, n)
    PROVE  Careful'
<1>0. PICK p \in Peers : p = t[1]
  BY PeerOfThread
<1>1. /\ Call(t, "RELEASE", n, stream[p][n].id, 1) /\ stream[p][n].unread > 0
      /\ UNCHANGED <<next, handle, wire, rQueue, aborted>>
      /\ Using(p, n, {"CLOSE"}) = {} /\ p \in Peers
      /\ stream' = [stream EXCEPT ![p][n] = [stream[p][n] EXCEPT !.unread = @ - 1, !.held = @ + 1]]
  BY <1>0 DEF ReadAndRelease, Call, Typed, Entries
<1>2. PICK s, e :
         /\ s \in Entries(app.sizes) /\ s = stream[p][n] /\ e = [s EXCEPT !.unread = @ - 1, !.held = @ + 1]
         /\ stream' = [stream EXCEPT ![p][n] = e]
  BY <1>1, EntryAt
<1>3. /\ e.unread = s.unread - 1 /\ e.held = s.held + 1 /\ e.id = s.id /\ e.writeSize = s.writeSize
      /\ e.readSize = s.readSize /\ e.remoteFill = s.remoteFill /\ e.localFill = s.localFill
  BY <1>2 DEF Entries
<1>4. /\ stream'[p][n] = e
      /\ \A q \in Peers, k \in Names : q # p \/ k # n => stream'[q][k] = stream[q][k]
  <2>1. stream' = [stream EXCEPT ![p][n] = e] /\ p \in Peers
    BY <1>1, <1>2
  <2>. QED
    BY <2>1, PutAt
<1>5. /\ event[t].at # "pending" /\ event[t] = Idle
      /\ \A k \in Names \ {n} : SameCalls(k)
      /\ \A q, types : types \subseteq Types =>
            Using(q, n, types)' = IF q = p /\ "RELEASE" \in types THEN Using(q, n, types) \cup {t}
                                                                 ELSE Using(q, n, types)
  BY <1>0, <1>1, CallElsewhere DEF Types
<1>6. /\ \A q, k : Releasing(q, k)' = IF q = p /\ k = n THEN Releasing(q, k) \cup {t} ELSE Releasing(q, k)
      /\ \A q, k : t \notin Releasing(q, k)
      /\ \A u \in Threads \ {t} : event'[u] = event[u]
      /\ event'[t].at = "queued" /\ event'[t].id = stream[p][n].id
  BY <1>0, <1>1, CallAdded DEF Types
<1>7. PICK o \in Peers : o = Other(p) /\ p = Other(o) /\ o # p /\ \A q \in Peers : q = p \/ q = o
  BY <1>1, TwoPeers
<1>8. Direction(p, n) /\ Direction(o, n)
  BY <1>1 DEF Careful
<1>9. Credit(p, n)' /\ Credit(o, n)'
  <2>1. Credit(p, n)'
    <3>1. Credit(p, n)
      BY <1>8 DEF Direction
    <3>. QED
      BY <1>1, <1>2, <1>3, <1>4, <1>6, <1>7, <3>1, NothingSent, CreditKept DEF SameSets
  <2>2. Credit(o, n)'
    <3>1. IsFiniteSet(Releasing(p, n)) /\ t \notin Releasing(p, n)
      BY <1>1, <1>6, FiniteSets
    <3>2. Cardinality(Releasing(p, n)') = Cardinality(Releasing(p, n)) + 1 /\ Cardinality(Releasing(p, n)) \in Nat
      BY <1>6, <3>1, OneMoreOrLess
    <3>3. Credit(o, n)
      BY <1>8 DEF Direction
    <3>4. PICK a \in Nat, u \in Nat, h \in Nat, r \in Nat :
              /\ a = Cardinality(Arriving(o, n)) /\ u = s.unread
              /\ h = s.held /\ r = Cardinality(Requests(p, "RELEASE", n))
              /\ stream[o][n].remoteFill = a + u + h + r /\ s.localFill = u + h
              /\ h = Cardinality(Releasing(p, n))
      BY <1>2, <1>7, <3>3, CreditIs
    <3>5. PICK u2 \in Int, h2 \in Int : u2 = u - 1 /\ h2 = h + 1
      OBVIOUS
    <3>6. a + u + h + r = a + u2 + h2 + r /\ u + h = u2 + h2
      BY <3>5
    <3>7. stream[o][n].remoteFill # 0
      BY <1>1, <1>2, <3>4
    <3>8. IsOpen(o, n)
      BY <1>7, <3>3, <3>7, Charged
    <3>9. stream'[o][n] = stream[o][n] /\ stream'[p][n] = e
      BY <1>4, <1>7
    <3>10. IsOpen(o, n)'
      BY <1>2, <1>3, <1>7, <3>8, <3>9 DEF IsOpen
    <3>11. a = Cardinality(Arriving(o, n)') /\ r = Cardinality(Requests(p, "RELEASE", n)')
      BY <1>1, <3>4, NothingSent DEF SameSets
    <3>12. e.unread = u2 /\ e.held = h2 /\ e.localFill = u2 + h2 /\ stream[o][n].remoteFill = a + u2 + h2 + r
      BY <1>3, <3>4, <3>5, <3>6
    <3>13. h2 = Cardinality(Releasing(p, n)')
      BY <3>2, <3>4, <3>5
    <3>. QED
      BY <1>7, <3>9, <3>10, <3>11, <3>12, <3>13 DEF Credit, IsOpen
  <2>. QED
    BY <2>1, <2>2
<1>10. Agreed(p, n)' /\ Agreed(o, n)'
  <2>1. Agreed(p, n) /\ Agreed(o, n)
    BY <1>8 DEF Direction
  <2>2. stream'[o][n] = stream[o][n]
    BY <1>1, <1>4, <1>7
  <2>. QED
    BY <1>1, <1>2, <1>3, <1>4, <1>7, <2>1, <2>2, NothingSent, AgreedKept
<1>11. ASSUME NEW q \in Peers PROVE Fitting(q, n)'
  <2>1. /\ Using(q, n, {"WRITE", "CLOSE"})' = Using(q, n, {"WRITE", "CLOSE"})
        /\ Using(q, n, {"CLOSE"})' = Using(q, n, {"CLOSE"})
        /\ Using(q, n, Types)' \subseteq Using(q, n, Types) \cup {t}
    BY <1>5 DEF Types
  <2>2. t \notin Using(q, n, Types) \cup Using(q, n, {"WRITE", "CLOSE"}) \cup Releasing(q, n)
    BY <1>5 DEF Using, Releasing, Idle, Types
  <2>3. \A u \in Using(q, n, Types) \cup Using(q, n, {"WRITE", "CLOSE"}) \cup Releasing(q, n) :
           event'[u] = event[u]
    BY <1>6, <2>2 DEF Using, Releasing
  <2>4. stream'[q][n].id = stream[q][n].id
    BY <1>2, <1>3, <1>4
  <2>5. IsOpen(q, n)' <=> IsOpen(q, n)
    BY <1>2, <1>3, <1>4, <1>7 DEF IsOpen
  <2>6. Fitting(q, n)
    BY <1>7, <1>8 DEF Direction
  <2>. QED
    BY <1>1, <1>6, <2>1, <2>3, <2>4, <2>5, <2>6 DEF Fitting
<1>12. Alone(p, n)' /\ Alone(o, n)'
  <2>1. Using(p, n, {"CLOSE"})' = {}
    BY <1>1, <1>5 DEF Types
  <2>2. /\ Using(o, n, {"CLOSE"})' = Using(o, n, {"CLOSE"})
        /\ Using(o, n, Types)' = Using(o, n, Types)
        /\ Using(p, n, {"CREATE"})' = Using(p, n, {"CREATE"})
    BY <1>5, <1>7 DEF Types
  <2>. QED
    BY <1>7, <1>8, <2>1, <2>2 DEF Direction, Alone
<1>13. \A q \in Peers : Direction(q, n)'
  BY <1>7, <1>9, <1>10, <1>11, <1>12 DEF Direction
<1>14. \A q \in Peers \ FirstOpeners : Using(q, n, {"CREATE"})' \subseteq Using(q, n, {"CREATE"})
  BY <1>5 DEF Types
<1>15. \A k \in Names \ {n} : SameEntries(k) /\ SameHandles(k) /\ SameCalls(k)
  BY <1>1, <1>4, <1>5 DEF SameEntries, SameHandles
<1>16. \A q \in Peers, k \in Names : stream'[q][k].id = stream[q][k].id
  BY <1>2, <1>3, <1>4
<1>. QED
  BY <1>1, <1>5, <1>6, <1>13, <1>14, <1>15, <1>16, ApplicationKeeps

LEMMA CloseStreamCareful ==
    ASSUME Typed, OneEach, Careful, app.exclusive, NEW t \in Threads, NEW n \in Names, XLinkCloseStream(t, n)
    PROVE  Careful'
<1>0. PICK p \in Peers : p = t[1]
  BY PeerOfThread
<1>1. /\ Call(t, "CLOSE", n, handle[p][n], 0) /\ handle[p][n] # None
      /\ UNCHANGED <<stream, next, wire, rQueue, aborted>>
      /\ handle' = [handle EXCEPT ![p][n] = None]
      /\ Using(p, n, {"CLOSE"}) = {} /\ p \in Peers
      /\ Using(p, n, Working) = {} /\ Using(Other(p), n, {"CREATE"}) = {}
  BY <1>0 DEF XLinkCloseStream, Call
<1>2. /\ handle'[p][n] = None
      /\ \A q \in Peers, k \in Names : q # p \/ k # n => handle'[q][k] = handle[q][k]
  BY <1>1 DEF Typed
<1>3. /\ event[t].at # "pending" /\ event[t] = Idle
      /\ \A k \in Names \ {n} : SameCalls(k)
      /\ \A q, types : types \subseteq Types =>
            Using(q, n, types)' = IF q = p /\ "CLOSE" \in types THEN Using(q, n, types) \cup {t}
                                                               ELSE Using(q, n, types)
  BY <1>0, <1>1, CallElsewhere DEF Types
<1>4. /\ \A q, k : Releasing(q, k)' = Releasing(q, k)
      /\ \A u \in Threads \ {t} : event'[u] = event[u]
      /\ event'[t].at = "queued" /\ event'[t].id = handle[p][n]
  BY <1>0, <1>1, CallAdded DEF Types
<1>5. PICK o \in Peers : o = Other(p) /\ p = Other(o) /\ o # p /\ \A q \in Peers : q = p \/ q = o
  BY <1>1, TwoPeers
<1>6. ASSUME NEW q \in Peers PROVE Credit(q, n)' /\ Agreed(q, n)' /\ Fitting(q, n)'
  <2>1. Direction(q, n) /\ Other(q) \in Peers
    BY TwoPeers DEF Careful
  <2>2. Credit(q, n)' /\ Agreed(q, n)'
    BY <1>1, <1>4, <2>1, NothingSent, CreditKept, AgreedKept DEF Direction, SameSets
  <2>3. Fitting(q, n)'
    <3>1. /\ Using(q, n, {"WRITE", "CLOSE"})' = IF q = p THEN Using(q, n, {"WRITE", "CLOSE"}) \cup {t}
                                                         ELSE Using(q, n, {"WRITE", "CLOSE"})
          /\ q # p => Using(q, n, {"CLOSE"})' = Using(q, n, {"CLOSE"})
          /\ Using(q, n, Types)' \subseteq Using(q, n, Types) \cup {t}
      BY <1>3 DEF Types
    <3>2. t \notin Using(q, n, Types) \cup Using(q, n, {"WRITE", "CLOSE"}) \cup Releasing(q, n)
      BY <1>3 DEF Using, Releasing, Idle, Types
    <3>3. \A u \in Using(q, n, Types) \cup Using(q, n, {"WRITE", "CLOSE"}) \cup Releasing(q, n) :
             event'[u] = event[u]
      BY <1>4, <3>2 DEF Using, Releasing
    <3>4. q = p => IsOpen(q, n) /\ event'[t].id = stream[q][n].id
      BY <1>1, <1>4, <2>1 DEF Direction, Fitting
    <3>5. IsOpen(q, n)' <=> IsOpen(q, n)
      BY <1>1 DEF IsOpen
    <3>. QED
      BY <1>1, <1>2, <1>4, <2>1, <3>1, <3>3, <3>4, <3>5 DEF Direction, Fitting
  <2>. QED
    BY <2>2, <2>3
<1>7. Alone(p, n)'
  <2>1. Using(p, n, {"CLOSE"})' = {t} /\ Using(o, n, {"CREATE"})' = {}
    BY <1>1, <1>3, <1>5 DEF Types
  <2>2. Using(p, n, Types) = {}
    BY <1>1 DEF Using, Types, Working
  <2>3. Using(p, n, Types)' = {t}
    BY <1>3, <2>2 DEF Types
  <2>. QED
    BY <1>5, <2>1, <2>3 DEF Alone
<1>8. Alone(o, n)'
  <2>1. /\ Using(o, n, {"CLOSE"})' = Using(o, n, {"CLOSE"})
        /\ Using(o, n, Types)' = Using(o, n, Types)
        /\ Using(p, n, {"CREATE"})' = Using(p, n, {"CREATE"})
    BY <1>3, <1>5 DEF Types
  <2>2. Alone(o, n)
    BY DEF Careful, Direction
  <2>. QED
    BY <1>5, <2>1, <2>2 DEF Alone
<1>9. \A q \in Peers : Direction(q, n)'
  BY <1>5, <1>6, <1>7, <1>8 DEF Direction
<1>10. \A q \in Peers \ FirstOpeners : Using(q, n, {"CREATE"})' \subseteq Using(q, n, {"CREATE"})
  BY <1>3 DEF Types
<1>11. \A k \in Names \ {n} : SameEntries(k) /\ SameHandles(k) /\ SameCalls(k)
  BY <1>1, <1>2, <1>3 DEF SameEntries, SameHandles
<1>. QED
  BY <1>1, <1>3, <1>4, <1>9, <1>10, <1>11, ApplicationKeeps

LEMMA OpenReturnsCareful ==
    ASSUME Typed, OneEach, Careful, NEW t \in Threads, OpenReturns(t)
    PROVE  Careful'
<1>0. PICK p \in Peers, n \in Names : p = t[1] /\ n = event[t].name
  BY PeerOfThread, Underway DEF OpenReturns, Idle
<1>1. /\ event[t].at = "created" /\ event' = [event EXCEPT ![t] = Idle] /\ ~aborted
      /\ UNCHANGED <<stream, next, wire, rQueue, aborted>>
      /\ handle' = [handle EXCEPT ![p][n] = stream[p][n].id]
      /\ p \in Peers
  BY <1>0 DEF OpenReturns
<1>2. n \in Names /\ event[t].type \in Types /\ event[t].at # "pending" /\ event[t].at # "queued"
  BY <1>0, <1>1, Underway
<1>3. /\ handle'[p][n] = stream[p][n].id
      /\ \A q \in Peers, k \in Names : q # p \/ k # n => handle'[q][k] = handle[q][k]
  BY <1>1, <1>2 DEF Typed
<1>4. /\ \A q, k, types : types \subseteq Types => Using(q, k, types)' = Using(q, k, types) \ {t}
      /\ \A q, k : Releasing(q, k)' = Releasing(q, k)
      /\ \A u \in Threads \ {t} : event'[u] = event[u]
  <2>1. /\ \A q, k, types : types \subseteq Types => Using(q, k, types)' = Using(q, k, types) \ {t}
        /\ \A q, k : Releasing(q, k)' = Releasing(q, k) \ {t}
        /\ \A u \in Threads \ {t} : event'[u] = event[u]
    BY <1>1, CallEnded
  <2>2. \A q, k : t \notin Releasing(q, k)
    BY <1>2 DEF Releasing
  <2>. QED
    BY <2>1, <2>2
<1>5. t \in Using(p, n, {event[t].type}) /\ t \in Using(p, n, Types)
  BY <1>0, <1>2 DEF Using
<1>6. \A q, k : k # n => t \notin Using(q, k, Types)
  BY <1>0 DEF Using
<1>7. PICK o \in Peers : o = Other(p) /\ p = Other(o) /\ o # p /\ \A q \in Peers : q = p \/ q = o
  BY <1>1, TwoPeers
<1>8. Direction(p, n)
  BY <1>1, <1>2 DEF Careful
<1>9. IsOpen(p, n) /\ Using(p, n, {"CLOSE"}) = {}
  <2>1. event[t].type = "CREATE" /\ IsOpen(p, n)
    BY <1>1, <1>5, <1>8 DEF Direction, Fitting
  <2>3. MessagesFit /\ Alone(p, n)
    BY <1>8 DEF Direction, Careful
  <2>. QED
    BY <1>1, <1>5, <2>1, <2>3, NotClosing
<1>10. \A k : FewerCalls(k)
  BY <1>4 DEF FewerCalls
<1>11. ASSUME NEW q \in Peers PROVE Direction(q, n)'
  <2>1. Direction(q, n) /\ Other(q) \in Peers
    BY <1>2, TwoPeers DEF Careful
  <2>2. Credit(q, n)' /\ Agreed(q, n)'
    BY <1>1, <1>2, <1>4, <2>1, NothingSent, CreditKept, AgreedKept DEF Direction, SameSets
  <2>3. Alone(q, n)'
    BY <1>2, <1>10, <2>1, AloneKept DEF Direction
  <2>4. IsOpen(q, n)' <=> IsOpen(q, n)
    BY <1>1 DEF IsOpen
  <2>5. \A u \in Using(q, n, Types)' : event'[u] = event[u]
    BY <1>4 DEF Using
  <2>6. Fitting(q, n)'
    <3>1. CASE q = o
      BY <1>1, <1>2, <1>3, <1>4, <1>7, <1>10, <2>1, <2>4, <2>5, <3>1, FittingKept DEF Direction
    <3>2. CASE q = p
      <4>1. /\ Using(q, n, {"WRITE", "CLOSE"})' \subseteq Using(q, n, {"WRITE", "CLOSE"})
            /\ Using(q, n, Types)' \subseteq Using(q, n, Types)
            /\ Using(q, n, {"CLOSE"})' = {}
        BY <1>4, <1>9, <3>2 DEF Types
      <4>2. \A u \in Using(q, n, Types)' \cup Using(q, n, {"WRITE", "CLOSE"})' \cup Releasing(q, n)' :
               event'[u] = event[u]
        BY <2>5 DEF Using, Releasing, Types
      <4>. QED
        BY <1>1, <1>3, <1>4, <1>9, <2>1, <2>4, <3>2, <4>1, <4>2 DEF Direction, Fitting
    <3>. QED
      BY <1>7, <3>1, <3>2
  <2>. QED
    BY <2>2, <2>3, <2>6 DEF Direction
<1>12. \A q \in Peers \ FirstOpeners : Using(q, n, {"CREATE"})' \subseteq Using(q, n, {"CREATE"})
  BY <1>4 DEF Types
<1>13. ASSUME NEW k \in Names \ {n} PROVE SameEntries(k) /\ SameHandles(k) /\ SameCalls(k)
  <2>1. SameEntries(k) /\ SameHandles(k)
    BY <1>1, <1>3 DEF SameEntries, SameHandles
  <2>2. \A q, types : types \subseteq Types => t \notin Using(q, k, types)
    BY <1>6 DEF Using
  <2>3. \A q : \A u \in Using(q, k, Types) : event'[u] = event[u]
    BY <1>4, <1>6 DEF Using
  <2>4. SameCalls(k)
    BY <1>4, <2>2, <2>3 DEF SameCalls
  <2>. QED
    BY <2>1, <2>4
<1>. QED
  BY <1>1, <1>2, <1>4, <1>11, <1>12, <1>13, ApplicationKeeps

-----------------------------------------------------------------------------
(* Calls are dispatched                                                     *)

\* A call that is queued has the id of the stream of its name.
LEMMA QueuedFits ==
    ASSUME OneOpener, Typed, Careful, NEW t \in Threads, NEW p \in Peers, NEW n \in Names,
           p = t[1], n = event[t].name, event[t].at = "queued",
           event[t].type \in {"WRITE", "RELEASE", "CLOSE"}
    PROVE  /\ event[t].id = stream[p][n].id /\ stream[p][n].id # None
           /\ Exists(p, event[t].id) /\ \A k : Found(t, k) => k = n
           /\ event[t].type \in {"WRITE", "CLOSE"} => IsOpen(p, n)
           /\ event[t].type = "RELEASE" =>
                /\ t \in Releasing(p, n) /\ stream[p][n].held # 0 /\ IsOpen(Other(p), n)
<1>1. Other(p) \in Peers /\ Other(Other(p)) = p
  BY TwoPeers
<1>2. Direction(p, n) /\ Direction(Other(p), n)
  BY <1>1 DEF Careful
<1>3. CASE event[t].type \in {"WRITE", "CLOSE"}
  <2>1. t \in Using(p, n, {"WRITE", "CLOSE"})
    BY <1>3 DEF Using
  <2>2. IsOpen(p, n) /\ event[t].id = stream[p][n].id
    BY <1>2, <2>1 DEF Direction, Fitting
  <2>3. stream[p][n].id # None
    BY <1>2, <2>2, OpenIds DEF Direction
  <2>. QED
    BY <1>3, <2>2, <2>3, FoundById DEF Found
<1>4. CASE event[t].type = "RELEASE"
  <2>1. t \in Releasing(p, n)
    BY <1>4 DEF Releasing, Using
  <2>2. event[t].id = stream[p][n].id
    BY <1>2, <2>1 DEF Direction, Fitting
  <2>3. /\ IsFiniteSet(Releasing(p, n)) /\ stream[p][n].held = Cardinality(Releasing(p, n))
        /\ Credit(Other(p), n)
    BY <1>1, <1>2, FiniteSets DEF Direction, Credit
  <2>4. stream[p][n].held # 0
    BY <2>1, <2>3, OneMoreOrLess
  <2>5. IsOpen(Other(p), n)
    BY <1>1, <2>3, <2>4, Charged
  <2>6. stream[p][n].id # None
    BY <1>1, <1>2, <2>5 DEF Direction, Agreed, IsOpen
  <2>. QED
    BY <1>4, <2>1, <2>2, <2>4, <2>5, <2>6, FoundById DEF Found
<1>. QED
  BY <1>3, <1>4

\* No request comes before the answer that it must not overtake.
LEMMA RequestSecond ==
    ASSUME Typed, Careful, NEW p \in Peers, NEW m \in Packets(app.sizes), Sent(p, m), m.kind = "REQ",
           next' = next, \A q \in Peers, k \in Names : stream'[q][k].id = stream[q][k].id,
           \A q \in Peers, k \in Names : Using(q, k, {"CREATE"})' \subseteq Using(q, k, {"CREATE"}),
           m.type = "CREATE" /\ p \notin FirstOpeners =>
              \/ stream[Other(p)][m.name].id # None
              \/ \E i \in DOMAIN Way(Other(p)) : Is(Way(Other(p))[i], "RESP", "CREATE", m.name)
    PROVE  \A q \in Peers \ FirstOpeners, k \in Names : Second(q, k)'
<1>. SUFFICES ASSUME NEW q \in Peers \ FirstOpeners, NEW k \in Names PROVE Second(q, k)'
  OBVIOUS
<1>1. /\ Way(p)' = Way(p) /\ Way(Other(p))' = Append(Way(Other(p)), m)
      /\ Other(p) \in Peers /\ Other(Other(p)) = p /\ (q = p \/ q = Other(p))
  BY WaySent, TwoPeers
<1>2. Second(q, k)
  BY DEF Careful
<1>3. CASE stream[Other(q)][k].id # None
  BY <1>2, <1>3, SecondKept
<1>4. CASE stream[Other(q)][k].id = None
  <2>1. Ahead(Way(Other(q)), k)
    BY <1>2, <1>4 DEF Second, OpensSecond
  <2>2. Ahead(Way(Other(q)), k)'
    <3>1. CASE q = Other(p)
      BY <1>1, <2>1, <3>1 DEF Ahead
    <3>2. CASE q = p
      <4>1. Is(m, "REQ", "CREATE", k) => \E i \in DOMAIN Way(Other(p)) : Is(Way(Other(p))[i], "RESP", "CREATE", k)
        BY <1>4, <3>2 DEF Is
      <4>2. Way(Other(p)) \in Seq(Packets(app.sizes))
        BY <1>1, WayType
      <4>3. Ahead(Append(Way(Other(p)), m), k)
        BY <2>1, <3>2, <4>1, <4>2, AheadAppended
      <4>. QED
        BY <1>1, <3>2, <4>3 DEF Ahead
    <3>. QED
      BY <1>1, <3>1, <3>2
  <2>. QED
    BY <1>2, <2>2, SecondKept
<1>. QED
  BY <1>3, <1>4

\* The request m of the call t on the stream n of p is sent.
RequestOf(t, p, n, m) ==
    /\ m \in Packets(app.sizes) /\ m.kind = "REQ" /\ m.type = event[t].type /\ m.name = n
    /\ m.id = event[t].id /\ Sent(p, m) /\ ~Waits(m.thread)
CallGoesOn(t, n) ==
    /\ \A k \in Names \ {n} : SameMessagesOf(k) /\ SameCalls(k)
    /\ \A q, k, types : Using(q, k, types)' = Using(q, k, types)
    /\ \A q : Releasing(q, n)' = Releasing(q, n) \ {t}
    /\ \A u \in Threads :
          /\ event'[u].id = event[u].id /\ event'[u].type = event[u].type
          /\ event'[u].at \in {"queued", "blocked"} => event[u].at \in {"queued", "blocked"}
          /\ event'[u].at = "created" => event[u].at = "created"

LEMMA CallWaits ==
    ASSUME Typed, OneEach, Careful, NEW t \in Threads, NEW p \in Peers, NEW n \in Names,
           p = t[1], n = event[t].name, event[t].at = "queued",
           SendPending(t), rQueue' = rQueue, NEW m, m = Request(t)
    PROVE  RequestOf(t, p, n, m) /\ CallGoesOn(t, n) /\ MessagesFit' /\ t \in Using(p, n, Types)
<1>1. event[t] \in Calls(app.sizes) /\ event[t] # Idle
  BY Underway DEF Idle
<1>2. /\ m \in Packets(app.sizes) /\ m.kind = "REQ" /\ m.type = event[t].type /\ m.name = n
      /\ m.id = event[t].id /\ m.thread = t
  BY <1>1 DEF Request, Calls, Packets
<1>3. Sent(p, m) /\ ~Waits(m.thread) /\ Becomes(t, "pending")
  BY <1>2 DEF SendPending, Send, Sent, Waits
<1>4. /\ \A q, k, types : Using(q, k, types)' = Using(q, k, types)
      /\ \A q, k : Releasing(q, k)' = Releasing(q, k) \ {t}
      /\ \A u \in Threads \ {t} : event'[u] = event[u]
      /\ event'[t].at = "pending" /\ event'[t].id = event[t].id /\ event'[t].type = event[t].type
      /\ event'[t].name = event[t].name
  BY <1>1, <1>3, CallMoved
<1>5. t \in Using(p, n, Types)
  BY <1>1 DEF Using, Calls
<1>6. ASSUME NEW k \in Names \ {n} PROVE SameMessagesOf(k) /\ SameCalls(k)
  <2>1. \A q, types : t \notin Using(q, k, types)
    BY DEF Using
  <2>2. \A q : Releasing(q, k)' = Releasing(q, k)
    BY <1>4, <2>1 DEF Releasing
  <2>3. \A q : \A u \in Using(q, k, Types) : event'[u] = event[u]
    BY <1>4, <2>1 DEF Using
  <2>4. SameSets(p, k) /\ SameSets(Other(p), k)
    BY <1>2, <1>3, RequestMade
  <2>. QED
    BY <1>4, <2>2, <2>3, <2>4, TwoPeers DEF SameCalls, SameMessagesOf
<1>7. MessagesFit'
  <2>1. /\ Under(p)' = Under(p) \cup {m} /\ Under(Other(p))' = Under(Other(p))
    BY <1>2, <1>3, SentSets
  <2>2. ASSUME NEW q \in Peers, NEW k \in Under(q) PROVE event'[k.thread] = event[k.thread]
    <3>1. k.thread \in Threads /\ MessageFits(k)
      BY MessageSets DEF Packets, Careful, MessagesFit
    <3>2. k.thread # t
      BY <3>1 DEF MessageFits
    <3>. QED
      BY <1>4, <3>1, <3>2
  <2>3. MessageFits(m)' /\ m.thread[1] = p
    BY <1>2, <1>4 DEF MessageFits
  <2>. QED
    BY <1>2, <2>1, <2>2, <2>3, TwoPeers, MessagesFitKept DEF Careful
<1>8. \A u \in Threads : /\ event'[u].id = event[u].id /\ event'[u].type = event[u].type
                         /\ event'[u].at \in {"queued", "blocked"} => event[u].at \in {"queued", "blocked"}
                         /\ event'[u].at = "created" => event[u].at = "created"
  BY <1>4
<1>. QED
  BY <1>2, <1>3, <1>4, <1>5, <1>6, <1>7, <1>8 DEF RequestOf, CallGoesOn

LEMMA DispatchCreateCareful ==
    ASSUME Typed, OneEach, Careful, NEW t \in Threads, DispatchCreate(t)
    PROVE  Careful'
<1>1. PICK p \in Peers, n \in Names : p = t[1] /\ n = event[t].name
  BY PeerOfThread, Underway DEF DispatchCreate, Queued, Idle
<1>2. /\ event[t].at = "queued" /\ event[t].type = "CREATE" /\ SendPending(t)
      /\ UNCHANGED <<stream, next, handle, rQueue, calls, app, aborted>> /\ ~aborted
  BY DEF DispatchCreate, Queued
<1>3. PICK m : m = Request(t)
  OBVIOUS
<1>4. RequestOf(t, p, n, m) /\ CallGoesOn(t, n) /\ MessagesFit' /\ t \in Using(p, n, Types)
  <2>1. rQueue' = rQueue
    BY <1>2
  <2>. QED
    BY <1>1, <1>2, <1>3, <2>1, CallWaits
<1>5. \A q : Releasing(q, n)' = Releasing(q, n)
  <2>1. \A q : t \notin Releasing(q, n)
    BY <1>2 DEF Releasing, Using
  <2>. QED
    BY <1>4, <2>1 DEF CallGoesOn
<1>6. SameMessagesOf(n)
  <2>1. SameSets(Other(p), n)
    BY <1>4, RequestMade DEF RequestOf
  <2>2. /\ \A type : Requests(p, type, n)' = IF type = "CREATE" THEN Requests(p, type, n) \cup {m}
                                                               ELSE Requests(p, type, n)
        /\ \A type : Answers(p, type, n)' = Answers(p, type, n)
        /\ Arriving(p, n)' = Arriving(p, n)
    <3>1. /\ \A type : Requests(p, type, m.name)' = IF type = m.type THEN Requests(p, type, m.name) \cup {m}
                                                                      ELSE Requests(p, type, m.name)
          /\ \A type : Answers(p, type, m.name)' = Answers(p, type, m.name)
          /\ Arriving(p, m.name)' = IF m.type = "WRITE" THEN Arriving(p, m.name) \cup {m}
                                                         ELSE Arriving(p, m.name)
      BY <1>4, RequestMade DEF RequestOf
    <3>2. m.name = n /\ m.type = "CREATE"
      BY <1>2, <1>4 DEF RequestOf
    <3>. QED
      BY <3>1, <3>2
  <2>3. SameSets(p, n)
    BY <2>2 DEF SameSets
  <2>. QED
    BY <2>1, <2>3, TwoPeers DEF SameMessagesOf
<1>7. ASSUME NEW q \in Peers PROVE Direction(q, n)'
  <2>1. Direction(q, n) /\ Other(q) \in Peers /\ FewerCalls(n)
    BY <1>4, TwoPeers DEF Careful, FewerCalls, CallGoesOn
  <2>2. SameSets(q, n) /\ Requests(Other(q), "RELEASE", n)' = Requests(Other(q), "RELEASE", n)
    BY <1>6, <2>1 DEF SameMessagesOf, SameSets
  <2>3. Credit(q, n)' /\ Agreed(q, n)'
    BY <1>2, <1>5, <2>1, <2>2, CreditKept, AgreedKept DEF Direction, SameSets
  <2>4. Alone(q, n)'
    BY <2>1, AloneKept DEF Direction
  <2>5. IsOpen(q, n) => IsOpen(q, n)'
    BY <1>2 DEF IsOpen
  <2>6. \A u \in Using(q, n, Types)' : u \in Threads
    BY <1>4 DEF Using, CallGoesOn
  <2>7. Fitting(q, n)'
    BY <1>2, <1>4, <1>5, <2>1, <2>5, <2>6, FittingKept DEF Direction, CallGoesOn
  <2>. QED
    BY <2>3, <2>4, <2>7 DEF Direction
<1>8. p \notin FirstOpeners => \/ stream[Other(p)][n].id # None
                               \/ \E i \in DOMAIN Way(Other(p)) : Is(Way(Other(p))[i], "RESP", "CREATE", n)
  <2>. SUFFICES ASSUME p \notin FirstOpeners, stream[Other(p)][n].id = None
                PROVE  \E i \in DOMAIN Way(Other(p)) : Is(Way(Other(p))[i], "RESP", "CREATE", n)
    OBVIOUS
  <2>1. PICK o \in Peers : o = Other(p) /\ p = Other(o)
    BY TwoPeers
  <2>2. Direction(p, n) /\ Direction(o, n) /\ Second(p, n)
    BY DEF Careful
  <2>3. t \in Using(p, n, {"CREATE"})
    BY <1>1, <1>2 DEF Using
  <2>4. stream[p][n].id # None
    BY <2>2, <2>3 DEF Second, OpensSecond
  <2>5. stream[o][n].writeSize = 0 /\ stream[o][n].readSize = 0
    BY <2>1, <2>2 DEF Direction, Agreed
  <2>6. Answers(p, "CLOSE", n) = {}
    BY <1>2, <1>4, <2>2, NotClosing DEF Direction, Careful
  <2>7. stream[p][n].writeSize = 0
    BY <2>1, <2>2, <2>5, <2>6 DEF Direction, Agreed
  <2>8. Answers(o, "CREATE", n) # {}
    BY <2>1, <2>2, <2>4, <2>5, <2>7 DEF Direction, Agreed
  <2>9. PICK k \in Elements(Way(o)) : Is(k, "RESP", "CREATE", n)
    BY <2>1, <2>8, WayType DEF Answers
  <2>. QED
    BY <2>1, <2>9 DEF Elements
<1>9. \A q \in Peers \ FirstOpeners, k \in Names : Second(q, k)'
  BY <1>2, <1>4, <1>8, RequestSecond DEF RequestOf, CallGoesOn
<1>10. \A k \in Names \ {n} : SameEntries(k) /\ SameHandles(k)
  BY <1>2 DEF SameEntries, SameHandles
<1>. QED
  BY <1>2, <1>4, <1>7, <1>9, <1>10, CarefulKept DEF CallGoesOn

\* The request of another call is sent: it keeps the calls of the stream and its sizes.
LEMMA RequestKeeps ==
    ASSUME Typed, OneEach, Careful, NEW t \in Threads, NEW p \in Peers, NEW n \in Names,
           p = t[1], n = event[t].name, event[t].at = "queued", event[t].type # "CREATE",
           SendPending(t), rQueue' = rQueue, next' = next, handle' = handle, aborted' = aborted,
           \A q \in Peers, k \in Names : q # p \/ k # n => stream'[q][k] = stream[q][k],
           stream'[p][n].id = stream[p][n].id, stream'[p][n].writeSize = stream[p][n].writeSize,
           stream'[p][n].readSize = stream[p][n].readSize,
           \A q \in Peers : Credit(q, n)' /\ Agreed(q, n)'
    PROVE  Careful'
<1>1. PICK m : m = Request(t)
  OBVIOUS
<1>2. RequestOf(t, p, n, m) /\ CallGoesOn(t, n) /\ MessagesFit'
  BY <1>1, CallWaits
<1>3. ASSUME NEW q \in Peers PROVE Direction(q, n)'
  <2>1. Direction(q, n) /\ Other(q) \in Peers /\ FewerCalls(n)
    BY <1>2, TwoPeers DEF Careful, FewerCalls, CallGoesOn
  <2>2. Alone(q, n)'
    BY <2>1, AloneKept DEF Direction
  <2>3. /\ stream'[q][n].id = stream[q][n].id
        /\ stream'[q][n].writeSize = stream[q][n].writeSize
        /\ stream'[Other(q)][n].readSize = stream[Other(q)][n].readSize
    BY <2>1
  <2>4. IsOpen(q, n) => IsOpen(q, n)'
    BY <2>3 DEF IsOpen
  <2>5. \A u \in Using(q, n, Types)' : u \in Threads
    BY <1>2 DEF Using, CallGoesOn
  <2>6. Releasing(q, n)' \subseteq Releasing(q, n) /\ handle'[q][n] = handle[q][n]
    BY <1>2 DEF CallGoesOn
  <2>7. Fitting(q, n)'
    BY <1>2, <2>1, <2>3, <2>4, <2>5, <2>6, FittingKept DEF Direction, CallGoesOn
  <2>. QED
    BY <2>2, <2>7 DEF Direction
<1>4. \A q \in Peers, k \in Names : stream'[q][k].id = stream[q][k].id
  OBVIOUS
<1>5. \A q \in Peers \ FirstOpeners, k \in Names : Second(q, k)'
  <2>1. m \in Packets(app.sizes) /\ Sent(p, m) /\ m.kind = "REQ" /\ m.type # "CREATE"
    BY <1>2 DEF RequestOf
  <2>2. \A q \in Peers, k \in Names : Using(q, k, {"CREATE"})' \subseteq Using(q, k, {"CREATE"})
    BY <1>2 DEF CallGoesOn
  <2>. QED
    BY <1>4, <2>1, <2>2, RequestSecond
<1>6. \A k \in Names \ {n} : SameEntries(k) /\ SameHandles(k)
  BY DEF SameEntries, SameHandles
<1>7. ~aborted'
  BY DEF Careful
<1>. QED
  BY <1>2, <1>3, <1>5, <1>6, <1>7, CarefulKept DEF CallGoesOn

\* A call that is blocked keeps everything.
LEMMA BlockedKeeps ==
    ASSUME Typed, OneEach, Careful, NEW t \in Threads, NEW p \in Peers, NEW n \in Names,
           p = t[1], n = event[t].name, event[t].at = "queued", event[t].type # "RELEASE",
           Becomes(t, "blocked"), UNCHANGED <<wire, rQueue, next, handle, aborted>>,
           \/ stream' = stream
           \/ stream' = [stream EXCEPT ![p][n] = MarkClosing(@)]
    PROVE  Careful'
<1>1. /\ \A q, k, types : Using(q, k, types)' = Using(q, k, types)
      /\ \A q, k : Releasing(q, k)' = Releasing(q, k) \ {t}
      /\ \A u \in Threads \ {t} : event'[u] = event[u]
      /\ event'[t].at = "blocked" /\ event'[t].id = event[t].id /\ event'[t].type = event[t].type
  BY CallMoved DEF Idle
<1>2. \A q, k : Releasing(q, k)' = Releasing(q, k)
  <2>1. \A q, k : t \notin Releasing(q, k)
    BY DEF Releasing, Using
  <2>. QED
    BY <1>1, <2>1
<1>3. ASSUME NEW q \in Peers, NEW k \in Names
      PROVE  /\ stream'[q][k].id = stream[q][k].id /\ stream'[q][k].writeSize = stream[q][k].writeSize
             /\ stream'[q][k].readSize = stream[q][k].readSize
             /\ stream'[q][k].remoteFill = stream[q][k].remoteFill
             /\ stream'[q][k].localFill = stream[q][k].localFill
             /\ stream'[q][k].unread = stream[q][k].unread /\ stream'[q][k].held = stream[q][k].held
             /\ k # n => stream'[q][k] = stream[q][k]
  <2>1. CASE stream' = stream
    BY <2>1
  <2>2. CASE stream' = [stream EXCEPT ![p][n] = MarkClosing(@)]
    <3>1. PICK s, e : s \in Entries(app.sizes) /\ s = stream[p][n] /\ e = [s EXCEPT !.closing = TRUE]
      BY EntryAt
    <3>2. stream' = [stream EXCEPT ![p][n] = e]
      BY <2>2, <3>1 DEF MarkClosing, Typed
    <3>3. /\ stream'[p][n] = e
          /\ \A a \in Peers, b \in Names : a # p \/ b # n => stream'[a][b] = stream[a][b]
      BY <3>2 DEF Typed
    <3>4. /\ e.id = s.id /\ e.writeSize = s.writeSize /\ e.readSize = s.readSize
          /\ e.remoteFill = s.remoteFill /\ e.localFill = s.localFill
          /\ e.unread = s.unread /\ e.held = s.held
      BY <3>1 DEF Entries
    <3>5. CASE q = p /\ k = n
      BY <3>1, <3>3, <3>4, <3>5
    <3>6. CASE q # p \/ k # n
      <4>1. stream'[q][k] = stream[q][k]
        BY <3>3, <3>6
      <4>. QED
        BY <4>1
    <3>. QED
      BY <3>5, <3>6
  <2>. QED
    BY <2>1, <2>2
<1>4. ASSUME NEW q \in Peers PROVE Direction(q, n)'
  <2>1. Direction(q, n) /\ Other(q) \in Peers /\ FewerCalls(n)
    BY <1>1, TwoPeers DEF Careful, FewerCalls
  <2>2. Credit(q, n)'
    BY <1>2, <1>3, <2>1, NothingSent, CreditKept DEF Direction, SameSets
  <2>3. Agreed(q, n)'
    BY <1>3, <2>1, NothingSent, AgreedKept DEF Direction
  <2>4. Alone(q, n)'
    BY <2>1, AloneKept DEF Direction
  <2>5. IsOpen(q, n) => IsOpen(q, n)'
    BY <1>3, <2>1 DEF IsOpen
  <2>6. \A u \in Using(q, n, Types)' :
          /\ event'[u].id = event[u].id /\ event'[u].type = event[u].type
          /\ event'[u].at \in {"queued", "blocked"} => event[u].at \in {"queued", "blocked"}
          /\ event'[u].at = "created" => event[u].at = "created"
    BY <1>1 DEF Using
  <2>7. Fitting(q, n)'
    BY <1>2, <1>3, <2>1, <2>5, <2>6, FittingKept DEF Direction
  <2>. QED
    BY <2>2, <2>3, <2>4, <2>7 DEF Direction
<1>5. \A k \in Names \ {n} : SameEntries(k) /\ SameHandles(k) /\ SameCalls(k)
  <2>1. ASSUME NEW k \in Names \ {n} PROVE SameCalls(k)
    <3>1. \A q : \A u \in Using(q, k, Types) : event'[u] = event[u]
      BY <1>1 DEF Using
    <3>. QED
      BY <1>1, <1>2, <3>1 DEF SameCalls
  <2>. QED
    BY <1>3, <2>1 DEF SameEntries, SameHandles
<1>6. \A q \in Peers \ FirstOpeners : Using(q, n, {"CREATE"})' \subseteq Using(q, n, {"CREATE"})
  BY <1>1
<1>. QED
  BY <1>1, <1>3, <1>4, <1>5, <1>6, ApplicationKeeps

LEMMA DispatchWriteCareful ==
    ASSUME OneOpener, Typed, OneEach, Careful, NEW t \in Threads, DispatchWrite(t)
    PROVE  Careful'
<1>1. PICK p \in Peers, n \in Names : p = t[1] /\ n = event[t].name
  BY PeerOfThread, Underway DEF DispatchWrite, Queued, Idle
<1>2. /\ event[t].at = "queued" /\ event[t].type = "WRITE"
      /\ UNCHANGED <<next, handle, rQueue, calls, app, aborted>> /\ ~aborted
  BY DEF DispatchWrite, Queued
<1>3. /\ event[t].id = stream[p][n].id /\ stream[p][n].id # None /\ \A k : Found(t, k) => k = n
      /\ IsOpen(p, n)
  BY <1>1, <1>2, QueuedFits
<1>4. PICK s \in Entries(app.sizes) : s = stream[p][n]
  BY EntryAt
<1>5. s.writeSize # 0
  BY <1>3, <1>4 DEF IsOpen
<1>6. \/ Becomes(t, "blocked") /\ UNCHANGED <<stream, wire>>
      \/ stream' = [stream EXCEPT ![p][n] = Charge(s)] /\ SendPending(t)
  <2>1. PICK k \in Names :
          /\ Found(t, k)
          /\ LET e == stream[t[1]][k] IN
             \/ e.writeSize = 0
             \/ Becomes(t, "blocked") /\ UNCHANGED <<stream, wire>>
             \/ stream' = [stream EXCEPT ![t[1]][k] = Charge(@)] /\ SendPending(t)
    BY DEF DispatchWrite
  <2>2. k = n
    BY <1>3, <2>1
  <2>. QED
    BY <1>1, <1>4, <1>5, <2>1, <2>2 DEF Typed
<1>7. CASE Becomes(t, "blocked") /\ UNCHANGED <<stream, wire>>
  BY <1>1, <1>2, <1>7, BlockedKeeps
<1>8. CASE stream' = [stream EXCEPT ![p][n] = Charge(s)] /\ SendPending(t)
  <2>0. PICK o \in Peers : o = Other(p) /\ p = Other(o) /\ o # p /\ \A q \in Peers : q = p \/ q = o
    BY TwoPeers
  <2>1. PICK e : e = Charge(s)
    OBVIOUS
  <2>2. /\ e.id = s.id /\ e.writeSize = s.writeSize /\ e.readSize = s.readSize
        /\ e.remoteFill = s.remoteFill + 1 /\ e.localFill = s.localFill
        /\ e.unread = s.unread /\ e.held = s.held
    BY <2>1 DEF Charge, Entries
  <2>3. /\ stream'[p][n] = e
        /\ \A q \in Peers, k \in Names : q # p \/ k # n => stream'[q][k] = stream[q][k]
    BY <1>8, <2>1 DEF Typed
  <2>4. PICK m : m = Request(t)
    OBVIOUS
  <2>5. RequestOf(t, p, n, m) /\ CallGoesOn(t, n) /\ t \in Using(p, n, Types)
    <3>1. rQueue' = rQueue
      BY <1>2
    <3>. QED
      BY <1>1, <1>2, <1>8, <2>4, <3>1, CallWaits
  <2>6. /\ SameSets(o, n) /\ m \notin Arriving(p, m.name)
        /\ \A type : Requests(p, type, m.name)' =
              IF type = m.type THEN Requests(p, type, m.name) \cup {m} ELSE Requests(p, type, m.name)
        /\ \A type : Answers(p, type, m.name)' = Answers(p, type, m.name)
        /\ Arriving(p, m.name)' =
              IF m.type = "WRITE" THEN Arriving(p, m.name) \cup {m} ELSE Arriving(p, m.name)
    BY <2>0, <2>5, RequestMade DEF RequestOf
  <2>7. /\ \A type : Answers(p, type, n)' = Answers(p, type, n)
        /\ Requests(p, "RELEASE", n)' = Requests(p, "RELEASE", n)
        /\ Requests(p, "CLOSE", n)' = Requests(p, "CLOSE", n)
        /\ Arriving(p, n)' = Arriving(p, n) \cup {m} /\ m \notin Arriving(p, n)
        /\ m.id = stream[p][n].id
    BY <1>2, <1>3, <2>5, <2>6 DEF RequestOf
  <2>8. \A q : Releasing(q, n)' = Releasing(q, n)
    <3>1. \A q : t \notin Releasing(q, n)
      BY <1>2 DEF Releasing, Using
    <3>. QED
      BY <2>5, <3>1 DEF CallGoesOn
  <2>9. Direction(p, n) /\ Direction(o, n)
    BY DEF Careful
  <2>10. Requests(p, "CLOSE", n) = {}
    BY <1>2, <2>5, <2>9, NotClosing DEF Direction, Careful
  <2>11. stream'[o][n] = stream[o][n] /\ IsOpen(p, n)'
    <3>1. stream'[o][n] = stream[o][n]
      BY <2>0, <2>3
    <3>. QED
      BY <1>3, <1>4, <2>0, <2>2, <2>3, <3>1 DEF IsOpen
  <2>12. Credit(p, n)'
    <3>1. PICK a \in Nat, u \in Nat, h \in Nat, r \in Nat :
              /\ a = Cardinality(Arriving(p, n)) /\ u = stream[o][n].unread
              /\ h = stream[o][n].held /\ r = Cardinality(Requests(o, "RELEASE", n))
              /\ s.remoteFill = a + u + h + r /\ stream[o][n].localFill = u + h
              /\ h = Cardinality(Releasing(o, n))
      BY <1>4, <2>0, <2>9, CreditIs DEF Direction
    <3>2. Cardinality(Arriving(p, n)') = a + 1
      BY <2>7, <3>1, FiniteSets, OneMoreOrLess
    <3>3. /\ Cardinality(Requests(o, "RELEASE", n)') = r
          /\ Cardinality(Releasing(o, n)') = h
      BY <2>6, <2>8, <3>1 DEF SameSets
    <3>4. e.remoteFill = (a + 1) + u + h + r
      BY <2>2, <3>1
    <3>. QED
      BY <2>0, <2>3, <2>11, <3>1, <3>2, <3>3, <3>4 DEF Credit, IsOpen
  <2>13. Credit(o, n)'
    BY <1>4, <2>0, <2>2, <2>3, <2>6, <2>7, <2>8, <2>9, <2>11, CreditKept DEF Direction, SameSets
  <2>14. Agreed(o, n)'
    BY <1>4, <2>0, <2>2, <2>3, <2>6, <2>7, <2>9, <2>11, AgreedKept DEF Direction
  <2>15. Agreed(p, n)'
    <3>1. Agreed(p, n) /\ Requests(o, "RELEASE", n)' = Requests(o, "RELEASE", n)
      BY <2>6, <2>9 DEF Direction, SameSets
    <3>. QED
      BY <1>4, <2>0, <2>2, <2>3, <2>7, <2>10, <2>11, <3>1 DEF Agreed, IsOpen
  <2>16. \A q \in Peers : Credit(q, n)' /\ Agreed(q, n)'
    BY <2>0, <2>12, <2>13, <2>14, <2>15
  <2>17. /\ stream'[p][n].id = stream[p][n].id /\ stream'[p][n].writeSize = stream[p][n].writeSize
         /\ stream'[p][n].readSize = stream[p][n].readSize
    BY <1>4, <2>2, <2>3
  <2>. QED
    BY <1>1, <1>2, <1>8, <2>3, <2>16, <2>17, RequestKeeps
<1>. QED
  BY <1>6, <1>7, <1>8

LEMMA DispatchReleaseCareful ==
    ASSUME OneOpener, Typed, OneEach, Careful, NEW t \in Threads, DispatchRelease(t)
    PROVE  Careful'
<1>1. PICK p \in Peers, n \in Names : p = t[1] /\ n = event[t].name
  BY PeerOfThread, Underway DEF DispatchRelease, Queued, Idle
<1>2. /\ event[t].at = "queued" /\ event[t].type = "RELEASE" /\ SendPending(t)
      /\ UNCHANGED <<next, handle, rQueue, calls, app, aborted>> /\ ~aborted
  BY DEF DispatchRelease, Queued
<1>3. /\ event[t].id = stream[p][n].id /\ stream[p][n].id # None /\ \A k : Found(t, k) => k = n
      /\ IsOpen(Other(p), n) /\ t \in Releasing(p, n) /\ stream[p][n].held # 0
  BY <1>1, <1>2, QueuedFits
<1>4. PICK s, e :
        s \in Entries(app.sizes) /\ s = stream[p][n] /\ e = [s EXCEPT !.held = @ - 1, !.localFill = @ - 1]
  BY EntryAt
<1>5. stream' = [stream EXCEPT ![p][n] = e]
  <2>1. PICK k \in Names :
          /\ Found(t, k)
          /\ LET a == stream[t[1]][k] IN
             stream' = [stream EXCEPT ![t[1]][k] =
                IF a.held = 0 THEN a ELSE [a EXCEPT !.held = @ - 1, !.localFill = @ - 1]]
    BY DEF DispatchRelease
  <2>2. k = n
    BY <1>3, <2>1
  <2>. QED
    BY <1>1, <1>3, <1>4, <2>1, <2>2
<1>6. PICK o \in Peers : o = Other(p) /\ p = Other(o) /\ o # p /\ \A q \in Peers : q = p \/ q = o
  BY TwoPeers
<1>7. /\ e.id = s.id /\ e.writeSize = s.writeSize /\ e.readSize = s.readSize
      /\ e.remoteFill = s.remoteFill /\ e.localFill = s.localFill - 1
      /\ e.unread = s.unread /\ e.held = s.held - 1
  BY <1>4 DEF Entries
<1>8. /\ stream'[p][n] = e
      /\ \A q \in Peers, k \in Names : q # p \/ k # n => stream'[q][k] = stream[q][k]
  BY <1>5 DEF Typed
<1>9. PICK m : m = Request(t)
  OBVIOUS
<1>10. RequestOf(t, p, n, m) /\ CallGoesOn(t, n) /\ t \in Using(p, n, Types)
  <2>1. rQueue' = rQueue
    BY <1>2
  <2>. QED
    BY <1>1, <1>2, <1>9, <2>1, CallWaits
<1>11. /\ SameSets(o, n) /\ m \notin Requests(p, m.type, m.name)
       /\ \A type : Requests(p, type, m.name)' =
             IF type = m.type THEN Requests(p, type, m.name) \cup {m} ELSE Requests(p, type, m.name)
       /\ \A type : Answers(p, type, m.name)' = Answers(p, type, m.name)
       /\ Arriving(p, m.name)' =
             IF m.type = "WRITE" THEN Arriving(p, m.name) \cup {m} ELSE Arriving(p, m.name)
  BY <1>6, <1>10, RequestMade DEF RequestOf
<1>12. /\ \A type : Answers(p, type, n)' = Answers(p, type, n)
       /\ Requests(p, "RELEASE", n)' = Requests(p, "RELEASE", n) \cup {m}
       /\ m \notin Requests(p, "RELEASE", n)
       /\ Requests(p, "CLOSE", n)' = Requests(p, "CLOSE", n)
       /\ Arriving(p, n)' = Arriving(p, n)
       /\ m.id = stream[p][n].id
  BY <1>2, <1>3, <1>10, <1>11 DEF RequestOf
<1>13. Releasing(p, n)' = Releasing(p, n) \ {t} /\ Releasing(o, n)' = Releasing(o, n)
  <2>1. t \notin Releasing(o, n)
    BY <1>1, <1>6 DEF Releasing, Using
  <2>. QED
    BY <1>10, <2>1 DEF CallGoesOn
<1>14. Direction(p, n) /\ Direction(o, n)
  BY DEF Careful
<1>15. stream'[o][n] = stream[o][n] /\ IsOpen(o, n)'
  <2>1. stream'[o][n] = stream[o][n]
    BY <1>6, <1>8
  <2>. QED
    <3>1. stream[o][n].writeSize # 0 /\ stream[p][n].readSize # 0
      BY <1>3, <1>6 DEF IsOpen
    <3>2. stream'[o][n].writeSize # 0 /\ stream'[p][n].readSize # 0
      BY <1>4, <1>7, <1>8, <2>1, <3>1
    <3>. QED
      BY <1>6, <2>1, <3>2 DEF IsOpen
<1>16. Credit(o, n)'
  <2>1. PICK a \in Nat, u \in Nat, h \in Nat, r \in Nat :
            /\ a = Cardinality(Arriving(o, n)) /\ u = s.unread
            /\ h = s.held /\ r = Cardinality(Requests(p, "RELEASE", n))
            /\ stream[o][n].remoteFill = a + u + h + r /\ s.localFill = u + h
            /\ h = Cardinality(Releasing(p, n))
    BY <1>4, <1>6, <1>14, CreditIs DEF Direction
  <2>2. Cardinality(Requests(p, "RELEASE", n)') = r + 1
    BY <1>12, <2>1, FiniteSets, OneMoreOrLess
  <2>3. Cardinality(Releasing(p, n)') = h - 1
    BY <1>3, <1>13, <2>1, FiniteSets, OneMoreOrLess
  <2>4. Cardinality(Arriving(o, n)') = a
    BY <1>11, <2>1 DEF SameSets
  <2>5. /\ stream[o][n].remoteFill = a + u + (h - 1) + (r + 1) /\ e.held = h - 1 /\ e.unread = u
        /\ e.localFill = u + (h - 1)
    BY <1>7, <2>1
  <2>. QED
    BY <1>6, <1>8, <1>15, <2>2, <2>3, <2>4, <2>5 DEF Credit, IsOpen
<1>17. Credit(p, n)'
  BY <1>4, <1>6, <1>7, <1>8, <1>11, <1>12, <1>13, <1>14, <1>15, CreditKept DEF Direction, SameSets
<1>18. Agreed(p, n)'
  <2>1. Agreed(p, n) /\ Requests(o, "RELEASE", n)' = Requests(o, "RELEASE", n)
    BY <1>11, <1>14 DEF Direction, SameSets
  <2>. QED
    <3>1. /\ stream'[p][n].id = stream[p][n].id /\ stream'[p][n].remoteFill = stream[p][n].remoteFill
          /\ stream'[p][n].writeSize = stream[p][n].writeSize
          /\ stream'[p][n].readSize = stream[p][n].readSize
      BY <1>4, <1>7, <1>8
    <3>2. stream'[o][n].id = stream[o][n].id /\ stream'[o][n].readSize = stream[o][n].readSize
      BY <1>15
    <3>3. /\ Answers(p, "CREATE", n)' = Answers(p, "CREATE", n)
          /\ Answers(p, "CLOSE", n)' = Answers(p, "CLOSE", n)
      BY <1>12
    <3>. QED
      BY <1>6, <1>12, <2>1, <3>1, <3>2, <3>3, AgreedStill
<1>19. Agreed(o, n)'
  <2>1. stream[p][n].id = stream[o][n].id
    BY <1>3, <1>6, <1>14, OpenIds DEF Direction
  <2>2. Agreed(o, n) /\ IsOpen(o, n)
    BY <1>3, <1>6, <1>14 DEF Direction
  <2>3. /\ Answers(o, "CREATE", n)' = Answers(o, "CREATE", n)
        /\ Answers(o, "CLOSE", n)' = Answers(o, "CLOSE", n)
        /\ Requests(o, "CLOSE", n)' = Requests(o, "CLOSE", n) /\ Arriving(o, n)' = Arriving(o, n)
    BY <1>11 DEF SameSets
  <2>4. \A k \in Requests(p, "RELEASE", n)' : k \in Requests(p, "RELEASE", n) \/ k.id = stream[o][n].id
    BY <1>12, <2>1
  <2>5. /\ stream'[p][n].id = stream[p][n].id /\ stream'[p][n].readSize = stream[p][n].readSize
    BY <1>4, <1>7, <1>8
  <2>. QED
    BY <1>6, <1>15, <2>2, <2>3, <2>4, <2>5, AgreedStill
<1>20. \A q \in Peers : Credit(q, n)' /\ Agreed(q, n)'
  BY <1>6, <1>16, <1>17, <1>18, <1>19
<1>21. /\ stream'[p][n].id = stream[p][n].id /\ stream'[p][n].writeSize = stream[p][n].writeSize
       /\ stream'[p][n].readSize = stream[p][n].readSize
  BY <1>4, <1>7, <1>8
<1>. QED
  BY <1>1, <1>2, <1>8, <1>20, <1>21, RequestKeeps

LEMMA DispatchCloseCareful ==
    ASSUME OneOpener, Typed, OneEach, Careful, NEW t \in Threads, DispatchClose(t)
    PROVE  Careful'
<1>1. PICK p \in Peers, n \in Names : p = t[1] /\ n = event[t].name
  BY PeerOfThread, Underway DEF DispatchClose, Queued, Idle
<1>2. /\ event[t].at = "queued" /\ event[t].type = "CLOSE"
      /\ UNCHANGED <<next, handle, rQueue, calls, app, aborted>> /\ ~aborted
  BY DEF DispatchClose, Queued
<1>3. /\ event[t].id = stream[p][n].id /\ stream[p][n].id # None /\ \A k : Found(t, k) => k = n
      /\ IsOpen(p, n)
  BY <1>1, <1>2, QueuedFits
<1>4. \/ /\ stream' = [stream EXCEPT ![p][n] = MarkClosing(@)]
         /\ Becomes(t, "blocked") /\ wire' = wire
      \/ stream[p][n].remoteFill = 0 /\ SendPending(t) /\ stream' = stream
  <2>1. PICK k \in Names :
          /\ Found(t, k)
          /\ \/ /\ stream' = [stream EXCEPT ![t[1]][k] = MarkClosing(@)]
                /\ Becomes(t, "blocked") /\ wire' = wire
             \/ stream[t[1]][k].remoteFill = 0 /\ SendPending(t) /\ stream' = stream
    BY DEF DispatchClose
  <2>2. k = n
    BY <1>3, <2>1
  <2>. QED
    BY <1>1, <2>1, <2>2
<1>5. CASE /\ stream' = [stream EXCEPT ![p][n] = MarkClosing(@)]
           /\ Becomes(t, "blocked") /\ wire' = wire
  BY <1>1, <1>2, <1>5, BlockedKeeps
<1>6. CASE stream[p][n].remoteFill = 0 /\ SendPending(t) /\ stream' = stream
  <2>0. PICK o \in Peers : o = Other(p) /\ p = Other(o) /\ o # p /\ \A q \in Peers : q = p \/ q = o
    BY TwoPeers
  <2>4. PICK m : m = Request(t)
    OBVIOUS
  <2>5. RequestOf(t, p, n, m) /\ CallGoesOn(t, n)
    <3>1. rQueue' = rQueue
      BY <1>2
    <3>. QED
      BY <1>1, <1>2, <1>6, <2>4, <3>1, CallWaits
  <2>6. /\ SameSets(o, n)
        /\ \A type : Requests(p, type, m.name)' =
              IF type = m.type THEN Requests(p, type, m.name) \cup {m} ELSE Requests(p, type, m.name)
        /\ \A type : Answers(p, type, m.name)' = Answers(p, type, m.name)
        /\ Arriving(p, m.name)' =
              IF m.type = "WRITE" THEN Arriving(p, m.name) \cup {m} ELSE Arriving(p, m.name)
    BY <2>0, <2>5, RequestMade DEF RequestOf
  <2>7. /\ \A type : Answers(p, type, n)' = Answers(p, type, n)
        /\ Requests(p, "RELEASE", n)' = Requests(p, "RELEASE", n)
        /\ Requests(p, "CLOSE", n)' = Requests(p, "CLOSE", n) \cup {m}
        /\ Arriving(p, n)' = Arriving(p, n)
        /\ m.id = stream[p][n].id
    BY <1>2, <1>3, <2>5, <2>6 DEF RequestOf
  <2>8. \A q : Releasing(q, n)' = Releasing(q, n)
    <3>1. \A q : t \notin Releasing(q, n)
      BY <1>2 DEF Releasing, Using
    <3>. QED
      BY <2>5, <3>1 DEF CallGoesOn
  <2>9. Direction(p, n) /\ Direction(o, n)
    BY DEF Careful
  <2>10. Credit(p, n)'
    BY <1>6, <2>0, <2>6, <2>7, <2>8, <2>9, CreditKept DEF Direction, SameSets
  <2>11. Credit(o, n)'
    BY <1>6, <2>0, <2>6, <2>7, <2>8, <2>9, CreditKept DEF Direction, SameSets
  <2>12. Agreed(o, n)'
    BY <1>6, <2>0, <2>6, <2>7, <2>9, AgreedKept DEF Direction
  <2>13. Agreed(p, n)'
    <3>1. Agreed(p, n) /\ Requests(o, "RELEASE", n)' = Requests(o, "RELEASE", n)
      BY <2>6, <2>9 DEF Direction, SameSets
    <3>. QED
      BY <1>3, <1>6, <2>0, <2>7, <3>1 DEF Agreed, IsOpen
  <2>14. \A q \in Peers : Credit(q, n)' /\ Agreed(q, n)'
    BY <2>0, <2>10, <2>11, <2>12, <2>13
  <2>. QED
    BY <1>1, <1>2, <1>6, <2>14, RequestKeeps
<1>. QED
  BY <1>4, <1>5, <1>6

\* No dispatch aborts.
LEMMA DispatchCareful ==
    ASSUME OneOpener, Typed, OneEach, Careful, NEW t \in Threads, Dispatch(t)
    PROVE  Careful'
<1>1. ~DispatchAborts(t)
  <2>. SUFFICES ASSUME DispatchAborts(t) PROVE FALSE
    OBVIOUS
  <2>1. /\ event[t].at = "queued" /\ event[t].type \in {"WRITE", "RELEASE", "CLOSE"}
        /\ ~Exists(t[1], event[t].id)
    BY DEF DispatchAborts, Queued
  <2>2. PICK p \in Peers, n \in Names : p = t[1] /\ n = event[t].name
    BY <2>1, PeerOfThread, Underway DEF Idle
  <2>. QED
    BY <2>1, <2>2, QueuedFits
<1>. QED
  BY <1>1, DispatchCreateCareful, DispatchWriteCareful, DispatchReleaseCareful, DispatchCloseCareful
     DEF Dispatch

-----------------------------------------------------------------------------
(* What the peer sends is handled                                           *)

\* The calls of the other streams when none changes.
LEMMA CallsUnchanged ==
    ASSUME event' = event
    PROVE  /\ \A k : SameCalls(k) /\ FewerCalls(k)
           /\ \A q, k, types : Using(q, k, types)' = Using(q, k, types)
           /\ \A q, k : Releasing(q, k)' = Releasing(q, k)
<1>1. \A q, k, types : Using(q, k, types)' = Using(q, k, types)
  BY DEF Using
<1>2. \A q, k : Releasing(q, k)' = Releasing(q, k)
  BY <1>1 DEF Releasing
<1>. QED
  BY <1>1, <1>2 DEF SameCalls, FewerCalls

\* A request that is answered: the request h, the answer m.
AnswerOf(p, n, h, m) ==
    /\ h = Remote(p) /\ h \in Packets(app.sizes) /\ h.kind = "REQ" /\ h.name = n
    /\ m \in Packets(app.sizes) /\ m.kind = "RESP" /\ m.type = h.type /\ m.name = n
    /\ m.thread = h.thread /\ Answered(p, m)

\* What it does to the messages.
AnswerMoves(p, n, h, m) ==
    /\ h \in Requests(Other(p), h.type, n)
    /\ \A k \in Names \ {n} : SameMessagesOf(k)
    /\ SameSets(p, n)
    /\ \A type : Requests(Other(p), type, n)' =
          IF type = h.type THEN Requests(Other(p), type, n) \ {h} ELSE Requests(Other(p), type, n)
    /\ \A type : Answers(Other(p), type, n)' =
          IF type = h.type THEN Answers(Other(p), type, n) \cup {m} ELSE Answers(Other(p), type, n)
    /\ Arriving(Other(p), n)' = Arriving(Other(p), n)
    /\ \A q \in Peers : \A k : Ahead(Way(q), k) => Ahead(Way(q), k)'

LEMMA AnswerMade ==
    ASSUME Typed, NEW p \in Peers, rQueue[p] # <<>>, rQueue' = [rQueue EXCEPT ![p] = Tail(@)],
           NEW id \in Numbers, NEW ack \in BOOLEAN, Send(p, Response(p, id, ack)),
           NEW n, n = Remote(p).name, Remote(p).kind = "REQ"
    PROVE  \E h, m : AnswerOf(p, n, h, m) /\ m.id = id
<1>1. PICK h, m : h = Remote(p) /\ m = Response(p, id, ack)
  OBVIOUS
<1>2. h \in Packets(app.sizes)
  BY <1>1, HeadOfQueue
<1>3. /\ m \in Packets(app.sizes) /\ m.kind = "RESP" /\ m.type = h.type /\ m.name = n
      /\ m.thread = h.thread /\ m.id = id
  BY <1>1, <1>2 DEF Response, Packets
<1>4. Answered(p, m)
  BY <1>1 DEF Answered, Send
<1>. QED
  BY <1>1, <1>2, <1>3, <1>4 DEF AnswerOf

\* An answer comes behind everything that is on its way.
LEMMA AnswerAhead ==
    ASSUME Typed, NEW p \in Peers, NEW n, NEW h, NEW m, AnswerOf(p, n, h, m)
    PROVE  \A q \in Peers : \A k : Ahead(Way(q), k) => Ahead(Way(q), k)'
<1>. SUFFICES ASSUME NEW q \in Peers, NEW k, Ahead(Way(q), k) PROVE Ahead(Way(q), k)'
  OBVIOUS
<1>1. /\ Way(p)' = Tail(Way(p)) /\ Way(Other(p))' = Append(Way(Other(p)), m)
      /\ Way(p) # <<>> /\ Head(Way(p)) = h
  BY WayHandled DEF AnswerOf, Answered, Remote
<1>2. Way(p) \in Seq(Packets(app.sizes)) /\ Way(Other(p)) \in Seq(Packets(app.sizes))
  BY WayType, TwoPeers
<1>3. CASE q = p
  <2>1. ~Is(h, "RESP", "CREATE", k)
    BY DEF AnswerOf, Is
  <2>2. Ahead(Tail(Way(p)), k)
    BY <1>1, <1>2, <1>3, <2>1, AheadLeft
  <2>. QED
    BY <1>1, <1>3, <2>2 DEF Ahead
<1>4. CASE q = Other(p)
  <2>1. ~Is(m, "REQ", "CREATE", k) /\ m \in Packets(app.sizes)
    BY DEF AnswerOf, Is
  <2>2. Ahead(Append(Way(Other(p)), m), k)
    BY <1>2, <1>4, <2>1, AheadAppended
  <2>. QED
    BY <1>1, <1>4, <2>2 DEF Ahead
<1>. QED
  BY <1>3, <1>4, TwoPeers

LEMMA AnswerGiven ==
    ASSUME Typed, OneEach, OneEach', NEW p \in Peers, NEW n \in Names, NEW h, NEW m, AnswerOf(p, n, h, m)
    PROVE  AnswerMoves(p, n, h, m)
<1>1. /\ h \in Requests(Other(p), h.type, h.name)
      /\ \A k : SameSets(p, k) /\ (k # m.name => SameSets(Other(p), k))
      /\ \A type : Requests(Other(p), type, h.name)' =
            IF type = h.type THEN Requests(Other(p), type, h.name) \ {h} ELSE Requests(Other(p), type, h.name)
      /\ \A type : Answers(Other(p), type, h.name)' =
            IF type = h.type THEN Answers(Other(p), type, h.name) \cup {m} ELSE Answers(Other(p), type, h.name)
      /\ Arriving(Other(p), h.name)' = Arriving(Other(p), h.name)
  <2>1. h = Head(rQueue[p]) /\ h.kind = "REQ" /\ m.kind = "RESP"
    BY DEF AnswerOf, Remote
  <2>2. m \in Packets(app.sizes) /\ m.thread = h.thread /\ Answered(p, m)
        /\ m.type = h.type /\ m.name = h.name
    BY DEF AnswerOf
  <2>. QED
    BY <2>1, <2>2, RequestAnswered
<1>2. h.name = n /\ m.name = n
  BY DEF AnswerOf
<1>3. \A k \in Names \ {n} : SameMessagesOf(k)
  BY <1>1, <1>2, TwoPeers DEF SameMessagesOf
<1>. QED
  BY <1>1, <1>2, <1>3, AnswerAhead DEF AnswerMoves

\* Its call waits for the answer as it waited for the request.
LEMMA AnswerFits ==
    ASSUME Typed, OneEach, OneEach', MessagesFit, NEW p \in Peers, NEW n, NEW h, NEW m, AnswerOf(p, n, h, m),
           \A u \in Threads : event[u].at = "pending" => event'[u] = event[u],
           m.type # "CREATE" => m.id = h.id
    PROVE  MessagesFit'
<1>1. /\ Under(p)' = Under(p) \cup {m} /\ h \in Under(Other(p))
      /\ Under(Other(p))' = Under(Other(p)) \ {h}
  BY AnsweredSets DEF AnswerOf, Remote
<1>2. ASSUME NEW q \in Peers, NEW k \in Under(q) PROVE event'[k.thread] = event[k.thread]
  <2>1. k.thread \in Threads /\ MessageFits(k)
    BY MessageSets DEF Packets, MessagesFit
  <2>. QED
    BY <2>1 DEF MessageFits
<1>3. MessageFits(h) /\ h.thread[1] = Other(p)
  BY <1>1, TwoPeers DEF MessagesFit, AnswerOf
<1>4. event'[h.thread] = event[h.thread]
  BY <1>1, <1>2, TwoPeers
<1>5. MessageFits(m)' /\ m.thread[1] = IF m.kind = "REQ" THEN p ELSE Other(p)
  BY <1>3, <1>4 DEF MessageFits, AnswerOf
<1>. QED
  BY <1>1, <1>2, <1>5, TwoPeers, MessagesFitKept

\* The call of a request under way.
LEMMA CallOfRequest ==
    ASSUME Typed, OneEach, OneEach', Careful, NEW p \in Peers, NEW n \in Names, NEW h, NEW m, AnswerOf(p, n, h, m)
    PROVE  /\ h \in Requests(Other(p), h.type, n) /\ h.thread \in Using(Other(p), n, {h.type})
           /\ event[h.thread].at = "pending" /\ h.type \in Types
<1>1. h \in Requests(Other(p), h.type, n) /\ h.type \in Types
  BY AnswerGiven DEF AnswerMoves, AnswerOf, Packets
<1>. QED
  BY <1>1, TwoPeers, WaitsForIt DEF Careful

\* The other streams keep their ids and the second peer's number: the order of the
\* messages is what is left to show.
LEMMA SecondStays ==
    ASSUME Careful, next' = next, \A q \in Peers, k \in Names : stream'[q][k].id = stream[q][k].id,
           \A q \in Peers, k \in Names : Using(q, k, {"CREATE"})' \subseteq Using(q, k, {"CREATE"}),
           \A q \in Peers : \A k : Ahead(Way(q), k) => Ahead(Way(q), k)'
    PROVE  \A q \in Peers \ FirstOpeners, k \in Names : Second(q, k)'
<1>. SUFFICES ASSUME NEW q \in Peers \ FirstOpeners, NEW k \in Names PROVE Second(q, k)'
  OBVIOUS
<1>1. Second(q, k) /\ Other(q) \in Peers
  BY TwoPeers DEF Careful
<1>2. stream[Other(q)][k].id # None \/ Ahead(Way(Other(q)), k)'
  BY <1>1 DEF Second, OpensSecond
<1>. QED
  BY <1>1, <1>2, SecondKept

\* A step of a peer that changes no call and no id.
LEMMA PeerKeeps ==
    ASSUME Typed, Careful, NEW n \in Names, event' = event, ~aborted', next' = next, handle' = handle, MessagesFit',
           \A k \in Names \ {n} : SameEntries(k) /\ SameMessagesOf(k),
           \A q \in Peers, k \in Names :
              /\ stream'[q][k].id = stream[q][k].id /\ stream'[q][k].writeSize = stream[q][k].writeSize
              /\ stream'[q][k].readSize = stream[q][k].readSize,
           \A q \in Peers : \A k : Ahead(Way(q), k) => Ahead(Way(q), k)',
           \A q \in Peers : Credit(q, n)' /\ Agreed(q, n)'
    PROVE  Careful'
<1>1. /\ \A k : SameCalls(k) /\ FewerCalls(k)
      /\ \A q, k, types : Using(q, k, types)' = Using(q, k, types)
      /\ \A q, k : Releasing(q, k)' = Releasing(q, k)
  BY CallsUnchanged
<1>2. ASSUME NEW q \in Peers PROVE Direction(q, n)'
  <2>1. Direction(q, n) /\ Other(q) \in Peers
    BY TwoPeers DEF Careful
  <2>2. Alone(q, n)'
    BY <1>1, <2>1, AloneKept DEF Direction
  <2>3. IsOpen(q, n) => IsOpen(q, n)'
    BY <2>1 DEF IsOpen
  <2>4. Fitting(q, n)'
    BY <1>1, <2>1, <2>3, FittingKept DEF Direction
  <2>. QED
    BY <2>2, <2>4 DEF Direction
<1>3. \A q \in Peers \ FirstOpeners, k \in Names : Second(q, k)'
  BY <1>1, SecondStays
<1>4. \A k \in Names \ {n} : SameEntries(k) /\ SameMessagesOf(k) /\ SameCalls(k) /\ SameHandles(k)
  BY <1>1 DEF SameHandles
<1>. QED
  BY <1>2, <1>3, <1>4, CarefulKept

\* The packet of a write has a stream, of the name of the write.
LEMMA ArrivesAtStream ==
    ASSUME OneOpener, Typed, Careful, NEW p \in Peers, NEW n \in Names, NEW h \in Arriving(Other(p), n)
    PROVE  /\ h.id = stream[p][n].id /\ IsOpen(Other(p), n)
           /\ WithId(p, h.id) = {n} /\ Exists(p, h.id) /\ getStreamById(p, h.id) = n
<1>1. PICK o \in Peers : o = Other(p) /\ p = Other(o)
  BY TwoPeers
<1>2. Direction(o, n) /\ Direction(p, n)
  BY DEF Careful
<1>3. IsFiniteSet(Arriving(o, n)) /\ Arriving(o, n) # {}
  BY <1>1, FiniteSets
<1>4. stream[o][n].remoteFill # 0
  BY <1>2, <1>3, Charged DEF Direction
<1>5. IsOpen(o, n)
  BY <1>2, <1>4, Charged DEF Direction
<1>6. stream[o][n].id # None /\ stream[p][n].id = stream[o][n].id
  BY <1>1, <1>2, <1>5, OpenIds DEF Direction
<1>7. h.id = stream[o][n].id
  BY <1>1, <1>2 DEF Direction, Agreed
<1>. QED
  BY <1>1, <1>5, <1>6, <1>7, FoundById

LEMMA IncomingCareful ==
    ASSUME OneOpener, Typed, OneEach, OneEach', Careful, NEW p \in Peers, handleIncomingEvent(p)
    PROVE  Careful'
<1>1. /\ UNCHANGED <<next, handle, event, calls, app, aborted>> /\ ~aborted /\ Received(p)
  BY DEF handleIncomingEvent, Received, Incoming
<1>2. PICK o \in Peers : o = Other(p) /\ p = Other(o) /\ o # p /\ \A q \in Peers : q = p \/ q = o
  BY TwoPeers
<1>3. PICK h : h = Incoming(p)
  OBVIOUS
<1>4. h \in Packets(app.sizes) /\ h = Head(wire[Other(p)])
  <2>1. wire[Other(p)] \in Seq(Packets(app.sizes)) /\ wire[Other(p)] # <<>>
    BY <1>1, TwoPeers DEF Typed, Received
  <2>. QED
    BY <1>3, <2>1 DEF Incoming
<1>5. PICK n \in Names : n = h.name
  BY <1>4 DEF Packets
<1>6. /\ \A k : SameSets(p, k)
      /\ \A k : ~Is(h, "REQ", "WRITE", k) => SameSets(o, k)
      /\ \A type, k : /\ Requests(o, type, k)' = Requests(o, type, k)
                      /\ Answers(o, type, k)' = Answers(o, type, k)
      /\ \A k : Is(h, "REQ", "WRITE", k) =>
            h \in Arriving(o, k) /\ Arriving(o, k)' = Arriving(o, k) \ {h}
  BY <1>1, <1>2, <1>4, MessageReceived
<1>7. MessagesFit'
  <2>1. Under(p)' = Under(p) /\ Under(o)' = Under(o)
    BY <1>1, <1>2, <1>4, ReceivedSets
  <2>. QED
    BY <1>1, <1>2, <2>1, MessagesFitKept DEF Careful
<1>8. \A q \in Peers : \A k : Ahead(Way(q), k) => Ahead(Way(q), k)'
  <2>1. Way(p)' = Way(p) /\ Way(o)' = Way(o)
    BY <1>1, <1>2, WayReceived
  <2>. QED
    BY <1>2, <2>1 DEF Ahead
<1>9. \A k \in Names \ {n} : SameMessagesOf(k)
  <2>1. \A k \in Names \ {n} : ~Is(h, "REQ", "WRITE", k)
    BY <1>5 DEF Is
  <2>. QED
    BY <1>2, <1>6, <2>1 DEF SameMessagesOf
<1>10. \A q, k : Releasing(q, k)' = Releasing(q, k)
  BY <1>1, CallsUnchanged
<1>11. Direction(p, n) /\ Direction(o, n)
  BY DEF Careful
<1>12. CASE ~IsRequest(h, "WRITE")
  <2>1. stream' = stream
    BY <1>3, <1>12 DEF handleIncomingEvent
  <2>2. SameSets(o, n) /\ SameSets(p, n)
    BY <1>6, <1>12 DEF IsRequest, Is
  <2>3. ASSUME NEW q \in Peers PROVE Credit(q, n)' /\ Agreed(q, n)'
    <3>1. SameSets(q, n) /\ SameSets(Other(q), n) /\ Direction(q, n)
      BY <1>2, <1>11, <2>2
    <3>2. Requests(Other(q), "RELEASE", n)' = Requests(Other(q), "RELEASE", n) /\ Arriving(q, n)' = Arriving(q, n)
      BY <3>1 DEF SameSets
    <3>. QED
      BY <1>10, <2>1, <3>1, <3>2, CreditKept, AgreedKept DEF Direction
  <2>4. \A k \in Names \ {n} : SameEntries(k)
    BY <2>1 DEF SameEntries
  <2>. QED
    BY <1>1, <1>7, <1>8, <1>9, <2>1, <2>3, <2>4, PeerKeeps
<1>13. CASE IsRequest(h, "WRITE")
  <2>1. Is(h, "REQ", "WRITE", n)
    BY <1>5, <1>13 DEF IsRequest, Is
  <2>2. h \in Arriving(o, n) /\ Arriving(o, n)' = Arriving(o, n) \ {h}
    BY <1>6, <2>1
  <2>3. WithId(p, h.id) = {n} /\ IsOpen(o, n)
    BY <1>2, <2>2, ArrivesAtStream
  <2>4. PICK s, e :
          s \in Entries(app.sizes) /\ s = stream[p][n] /\ e = [s EXCEPT !.unread = @ + 1, !.localFill = @ + 1]
    BY EntryAt
  <2>5. stream' = [stream EXCEPT ![p][n] = e]
    <3>1. PICK k \in WithId(p, h.id) :
            stream' = [stream EXCEPT ![p][k].unread = @ + 1, ![p][k].localFill = @ + 1]
      BY <1>3, <1>13 DEF handleIncomingEvent
    <3>2. k = n
      BY <2>3, <3>1
    <3>. QED
      BY <2>4, <3>1, <3>2 DEF Typed, Entries
  <2>6. /\ e.id = s.id /\ e.writeSize = s.writeSize /\ e.readSize = s.readSize
        /\ e.remoteFill = s.remoteFill /\ e.localFill = s.localFill + 1
        /\ e.unread = s.unread + 1 /\ e.held = s.held
    BY <2>4 DEF Entries
  <2>7. /\ stream'[p][n] = e
        /\ \A q \in Peers, k \in Names : q # p \/ k # n => stream'[q][k] = stream[q][k]
    BY <2>5 DEF Typed
  <2>8. stream'[o][n] = stream[o][n] /\ IsOpen(o, n)'
    <3>1. stream'[o][n] = stream[o][n]
      BY <1>2, <2>7
    <3>2. stream[o][n].writeSize # 0 /\ stream[p][n].readSize # 0
      BY <1>2, <2>3 DEF IsOpen
    <3>3. stream'[o][n].writeSize # 0 /\ stream'[p][n].readSize # 0
      BY <2>4, <2>6, <2>7, <3>1, <3>2
    <3>. QED
      BY <1>2, <3>1, <3>3 DEF IsOpen
  <2>9. Credit(o, n)'
    <3>1. PICK a \in Nat, u \in Nat, l \in Nat, r \in Nat :
              /\ a = Cardinality(Arriving(o, n)) /\ u = s.unread
              /\ l = s.held /\ r = Cardinality(Requests(p, "RELEASE", n))
              /\ stream[o][n].remoteFill = a + u + l + r /\ s.localFill = u + l
              /\ l = Cardinality(Releasing(p, n))
      BY <1>2, <1>11, <2>4, CreditIs DEF Direction
    <3>2. Cardinality(Arriving(o, n)') = a - 1
      BY <2>2, <3>1, FiniteSets, OneMoreOrLess
    <3>3. Cardinality(Requests(p, "RELEASE", n)') = r /\ Cardinality(Releasing(p, n)') = l
      BY <1>6, <1>10, <3>1 DEF SameSets
    <3>4. /\ stream[o][n].remoteFill = (a - 1) + (u + 1) + l + r
          /\ e.unread = u + 1 /\ e.held = l /\ e.localFill = (u + 1) + l
      BY <2>6, <3>1
    <3>. QED
      BY <1>2, <2>7, <2>8, <3>2, <3>3, <3>4 DEF Credit, IsOpen
  <2>10. Requests(o, "RELEASE", n)' = Requests(o, "RELEASE", n)
    BY <1>6
  <2>11. /\ stream'[p][n].id = stream[p][n].id /\ stream'[p][n].remoteFill = stream[p][n].remoteFill
         /\ stream'[p][n].writeSize = stream[p][n].writeSize
         /\ stream'[p][n].readSize = stream[p][n].readSize
    BY <2>4, <2>6, <2>7
  <2>12. Credit(p, n)' /\ Agreed(p, n)'
    <3>1. SameSets(p, n) /\ Arriving(p, n)' = Arriving(p, n)
      BY <1>6 DEF SameSets
    <3>. QED
      BY <1>2, <1>10, <1>11, <2>8, <2>10, <2>11, <3>1, CreditKept, AgreedKept DEF Direction
  <2>13. Agreed(o, n)'
    <3>1. /\ Answers(o, "CREATE", n)' = Answers(o, "CREATE", n)
          /\ Answers(o, "CLOSE", n)' = Answers(o, "CLOSE", n)
          /\ Requests(o, "CLOSE", n)' = Requests(o, "CLOSE", n)
          /\ Requests(p, "RELEASE", n)' = Requests(p, "RELEASE", n)
          /\ Arriving(o, n)' \subseteq Arriving(o, n)
      BY <1>6, <2>2 DEF SameSets
    <3>. QED
      BY <1>2, <1>11, <2>8, <2>11, <3>1, AgreedStill DEF Direction
  <2>14. \A q \in Peers : Credit(q, n)' /\ Agreed(q, n)'
    BY <1>2, <2>9, <2>12, <2>13
  <2>15. \A k \in Names \ {n} : SameEntries(k)
    BY <2>7 DEF SameEntries
  <2>16. \A q \in Peers, k \in Names :
            /\ stream'[q][k].id = stream[q][k].id /\ stream'[q][k].writeSize = stream[q][k].writeSize
            /\ stream'[q][k].readSize = stream[q][k].readSize
    BY <2>7, <2>11
  <2>. QED
    BY <1>1, <1>7, <1>8, <1>9, <2>14, <2>15, <2>16, PeerKeeps
<1>. QED
  BY <1>12, <1>13

\* No packet arrives without a stream.
LEMMA IncomingFound ==
    ASSUME OneOpener, Typed, Careful, NEW p \in Peers, wire[Other(p)] # <<>>,
           IsRequest(Incoming(p), "WRITE")
    PROVE  Exists(p, Incoming(p).id)
<1>1. PICK h : h = Incoming(p)
  OBVIOUS
<1>2. wire[Other(p)] \in Seq(Packets(app.sizes)) /\ wire[Other(p)] # <<>>
  BY TwoPeers DEF Typed
<1>3. h = Head(wire[Other(p)]) /\ h \in Packets(app.sizes) /\ h \in On(Other(p))
  BY <1>1, <1>2, ElementsLeft DEF Incoming, On
<1>4. PICK n \in Names : n = h.name
  BY <1>3 DEF Packets
<1>5. h \in Arriving(Other(p), n)
  BY <1>1, <1>3, <1>4 DEF Arriving, Is, IsRequest
<1>. QED
  BY <1>1, <1>5, ArrivesAtStream

LEMMA HandleWriteCareful ==
    ASSUME Typed, OneEach, OneEach', Careful, NEW p \in Peers, HandleWrite(p)
    PROVE  Careful'
<1>1. /\ UNCHANGED <<stream, next, handle, event, calls, app, aborted>> /\ ~aborted
      /\ rQueue[p] # <<>> /\ rQueue' = [rQueue EXCEPT ![p] = Tail(@)]
      /\ Remote(p).kind = "REQ" /\ Remote(p).type = "WRITE"
      /\ Send(p, Response(p, Remote(p).id, TRUE))
  BY DEF HandleWrite, Handle, IsRequest, Respond
<1>2. PICK n \in Names : n = Remote(p).name
  BY <1>1, HeadOfQueue DEF Packets
<1>3. PICK id \in Numbers, ack \in BOOLEAN : id = Remote(p).id /\ Send(p, Response(p, id, ack))
  BY <1>1, HeadOfQueue DEF Packets
<1>4. PICK h, m : AnswerOf(p, n, h, m) /\ m.id = id
  <2>1. rQueue[p] # <<>> /\ rQueue' = [rQueue EXCEPT ![p] = Tail(@)]
    BY <1>1
  <2>2. n = Remote(p).name /\ Remote(p).kind = "REQ" /\ Send(p, Response(p, id, ack))
    BY <1>1, <1>2, <1>3
  <2>. QED
    BY <1>2, <1>3, <2>1, <2>2, AnswerMade
<1>5. AnswerMoves(p, n, h, m) /\ MessagesFit'
  BY <1>1, <1>3, <1>4, AnswerGiven, AnswerFits DEF Careful, AnswerOf
<1>6. \A q \in Peers : SameSets(q, n)
  <2>1. SameSets(Other(p), n)
    BY <1>1, <1>4, <1>5 DEF AnswerMoves, SameSets, AnswerOf
  <2>. QED
    BY <1>5, <2>1, TwoPeers DEF AnswerMoves
<1>7. ASSUME NEW q \in Peers PROVE Credit(q, n)' /\ Agreed(q, n)'
  <2>1. Direction(q, n) /\ Other(q) \in Peers
    BY TwoPeers DEF Careful
  <2>2. /\ Requests(Other(q), "RELEASE", n)' = Requests(Other(q), "RELEASE", n)
        /\ Arriving(q, n)' = Arriving(q, n)
    BY <1>6, <2>1 DEF SameSets
  <2>3. Releasing(Other(q), n)' = Releasing(Other(q), n)
    BY <1>1, CallsUnchanged
  <2>. QED
    BY <1>1, <1>6, <2>1, <2>2, <2>3, CreditKept, AgreedKept DEF Direction
<1>8. \A k \in Names \ {n} : SameEntries(k) /\ SameMessagesOf(k)
  BY <1>1, <1>5 DEF SameEntries, AnswerMoves
<1>9. \A q \in Peers : \A k : Ahead(Way(q), k) => Ahead(Way(q), k)'
  BY <1>5 DEF AnswerMoves
<1>. QED
  BY <1>1, <1>5, <1>7, <1>8, <1>9, PeerKeeps

\* The request to release a packet has a stream that was open to write.
LEMMA ReleaseFound ==
    ASSUME OneOpener, Typed, Careful, NEW p \in Peers, NEW n \in Names,
           NEW h \in Requests(Other(p), "RELEASE", n)
    PROVE  /\ h.id = stream[p][n].id /\ stream[p][n].id # None /\ IsOpen(p, n)
           /\ stream[p][n].remoteFill # 0
           /\ WithId(p, h.id) = {n} /\ Exists(p, h.id) /\ getStreamById(p, h.id) = n
<1>1. PICK o \in Peers : o = Other(p) /\ p = Other(o)
  BY TwoPeers
<1>2. Direction(o, n) /\ Direction(p, n)
  BY DEF Careful
<1>3. stream[p][n].remoteFill # 0
  BY <1>2, Charged DEF Direction
<1>4. IsOpen(p, n)
  BY <1>2, <1>3, Charged DEF Direction
<1>5. stream[p][n].id # None
  BY <1>1, <1>2, <1>4, OpenIds DEF Direction
<1>6. h.id = stream[p][n].id
  BY <1>2 DEF Direction, Agreed
<1>. QED
  BY <1>3, <1>4, <1>5, <1>6, FoundById

\* A blocked call has the id of the stream of its name.
LEMMA BlockedFits ==
    ASSUME OneOpener, Typed, Careful, NEW p \in Peers, NEW n \in Names, stream[p][n].id # None,
           NEW type \in {"WRITE", "CLOSE"}, NEW t \in BlockedEvents(p, type, stream[p][n].id)
    PROVE  t \in Threads /\ event[t].name = n /\ event[t].at = "blocked" /\ t \in Using(p, n, {"WRITE", "CLOSE"})
<1>1. /\ t \in Threads /\ t[1] = p /\ event[t].at = "blocked" /\ event[t].type = type
      /\ event[t].id = stream[p][n].id
  BY DEF BlockedEvents
<1>2. PICK k \in Names : k = event[t].name
  BY <1>1, Underway DEF Idle
<1>3. t \in Using(p, k, {"WRITE", "CLOSE"})
  BY <1>1, <1>2 DEF Using
<1>4. event[t].id = stream[p][k].id
  BY <1>1, <1>3 DEF Careful, Direction, Fitting
<1>5. k \in WithId(p, stream[p][n].id)
  BY <1>1, <1>4 DEF WithId
<1>6. k = n
  BY <1>5, FoundById
<1>. QED
  BY <1>1, <1>2, <1>3, <1>6

LEMMA HandleReleaseCareful ==
    ASSUME OneOpener, Typed, OneEach, OneEach', Careful, NEW p \in Peers, HandleRelease(p)
    PROVE  Careful'
<1>1. /\ UNCHANGED <<next, handle, calls, app, aborted>> /\ ~aborted
      /\ rQueue[p] # <<>> /\ rQueue' = [rQueue EXCEPT ![p] = Tail(@)]
      /\ Remote(p).kind = "REQ" /\ Remote(p).type = "RELEASE"
      /\ Send(p, Response(p, Remote(p).id, TRUE))
  BY DEF HandleRelease, Handle, IsRequest, Respond
<1>2. PICK n \in Names : n = Remote(p).name
  BY <1>1, HeadOfQueue DEF Packets
<1>3. PICK id \in Numbers, ack \in BOOLEAN : id = Remote(p).id /\ Send(p, Response(p, id, ack))
  BY <1>1, HeadOfQueue DEF Packets
<1>4. PICK h, m : AnswerOf(p, n, h, m) /\ m.id = id
  <2>1. rQueue[p] # <<>> /\ rQueue' = [rQueue EXCEPT ![p] = Tail(@)]
    BY <1>1
  <2>2. n = Remote(p).name /\ Remote(p).kind = "REQ" /\ Send(p, Response(p, id, ack))
    BY <1>1, <1>2, <1>3
  <2>. QED
    BY <1>2, <1>3, <2>1, <2>2, AnswerMade
<1>5. AnswerMoves(p, n, h, m)
  BY <1>4, AnswerGiven
<1>6. PICK o \in Peers : o = Other(p) /\ p = Other(o) /\ o # p /\ \A q \in Peers : q = p \/ q = o
  BY TwoPeers
<1>7. h \in Requests(o, "RELEASE", n) /\ h = Remote(p)
  BY <1>1, <1>4, <1>5, <1>6 DEF AnswerMoves, AnswerOf
<1>8. /\ h.id = stream[p][n].id /\ stream[p][n].id # None /\ IsOpen(p, n)
      /\ stream[p][n].remoteFill # 0 /\ WithId(p, h.id) = {n}
  BY <1>6, <1>7, ReleaseFound
<1>9. PICK s, e : s \in Entries(app.sizes) /\ s = stream[p][n] /\ e = [s EXCEPT !.remoteFill = @ - 1]
  BY EntryAt
<1>10. PICK writes \in Unblocked(p, "WRITE", h.id), closes \in Unblocked(p, "CLOSE", h.id) \cup {{}} :
          /\ stream' = [stream EXCEPT ![p][n] = e]
          /\ event' = [t \in Threads |-> IF t \in writes \cup closes THEN [event[t] EXCEPT !.at = "queued"]
                                                                     ELSE event[t]]
  <2>1. PICK k \in WithId(p, h.id) :
          /\ stream' = [stream EXCEPT ![p][k].remoteFill = @ - 1]
          /\ \E writes \in Unblocked(p, "WRITE", h.id), closes \in Unblocked(p, "CLOSE", h.id) \cup {{}} :
                event' = [t \in Threads |-> IF t \in writes \cup closes THEN [event[t] EXCEPT !.at = "queued"]
                                                                        ELSE event[t]]
    <3>1. PICK k \in WithId(p, h.id) :
            /\ stream' = [stream EXCEPT ![p][k].remoteFill = @ - 1]
            /\ \E writes \in Unblocked(p, "WRITE", h.id) :
               \E closes \in IF stream[p][k].closing /\ stream[p][k].localFill = 0
                             THEN Unblocked(p, "CLOSE", h.id) ELSE {{}} :
                  event' = [t \in Threads |-> IF t \in writes \cup closes THEN [event[t] EXCEPT !.at = "queued"]
                                                                          ELSE event[t]]
      BY <1>7 DEF HandleRelease
    <3>2. (IF stream[p][k].closing /\ stream[p][k].localFill = 0 THEN Unblocked(p, "CLOSE", h.id) ELSE {{}})
             \subseteq Unblocked(p, "CLOSE", h.id) \cup {{}}
      OBVIOUS
    <3>. QED
      BY <3>1, <3>2
  <2>2. k = n
    BY <1>8, <2>1
  <2>. QED
    BY <1>9, <2>1, <2>2 DEF Typed, Entries
<1>11. /\ e.id = s.id /\ e.writeSize = s.writeSize /\ e.readSize = s.readSize
       /\ e.remoteFill = s.remoteFill - 1 /\ e.localFill = s.localFill
       /\ e.unread = s.unread /\ e.held = s.held
  BY <1>9 DEF Entries
<1>12. /\ stream'[p][n] = e
       /\ \A q \in Peers, k \in Names : q # p \/ k # n => stream'[q][k] = stream[q][k]
  BY <1>10 DEF Typed
<1>13. stream'[o][n] = stream[o][n]
  BY <1>6, <1>12
<1>14. \A u \in writes \cup closes : /\ u \in Threads /\ event[u].name = n /\ event[u].at = "blocked"
                                     /\ u \in Using(p, n, {"WRITE", "CLOSE"})
  <2>1. /\ writes \subseteq BlockedEvents(p, "WRITE", stream[p][n].id)
        /\ closes \subseteq BlockedEvents(p, "CLOSE", stream[p][n].id)
    BY <1>8, <1>10 DEF Unblocked
  <2>. QED
    BY <1>8, <2>1, BlockedFits
<1>15. ASSUME NEW u \in Threads
       PROVE  /\ u \notin writes \cup closes => event'[u] = event[u]
              /\ event'[u].type = event[u].type /\ event'[u].name = event[u].name /\ event'[u].id = event[u].id
              /\ event'[u].at = IF u \in writes \cup closes THEN "queued" ELSE event[u].at
  <2>1. CASE u \in writes \cup closes
    <3>1. event[u] \in Calls(app.sizes)
      BY <1>14, <2>1, Underway DEF Idle
    <3>2. PICK c : c = [event[u] EXCEPT !.at = "queued"]
      OBVIOUS
    <3>3. c.type = event[u].type /\ c.name = event[u].name /\ c.id = event[u].id /\ c.at = "queued"
      BY <3>1, <3>2 DEF Calls
    <3>4. event'[u] = c
      BY <1>10, <2>1, <3>2
    <3>. QED
      BY <2>1, <3>3, <3>4
  <2>2. CASE u \notin writes \cup closes
    BY <1>10, <2>2
  <2>. QED
    BY <2>1, <2>2
<1>16. \A q, k, types : Using(q, k, types)' = Using(q, k, types)
  BY <1>15 DEF Using
<1>17. \A q, k : Releasing(q, k)' = Releasing(q, k)
  <2>1. \A q, k : \A u \in Using(q, k, {"RELEASE"}) : u \in Threads /\ u \notin writes \cup closes
    BY <1>14 DEF Using
  <2>. QED
    BY <1>15, <1>16, <2>1 DEF Releasing
<1>18. MessagesFit'
  <2>1. \A u \in Threads : event[u].at = "pending" => event'[u] = event[u]
    BY <1>14, <1>15
  <2>2. m.id = h.id
    BY <1>3, <1>4, <1>7
  <2>. QED
    BY <1>4, <2>1, <2>2, AnswerFits DEF Careful
<1>19. Direction(p, n) /\ Direction(o, n)
  BY DEF Careful
<1>20. /\ SameSets(p, n) /\ Requests(o, "RELEASE", n)' = Requests(o, "RELEASE", n) \ {h}
       /\ Requests(o, "CLOSE", n)' = Requests(o, "CLOSE", n) /\ Arriving(o, n)' = Arriving(o, n)
       /\ Answers(o, "CREATE", n)' = Answers(o, "CREATE", n)
       /\ Answers(o, "CLOSE", n)' = Answers(o, "CLOSE", n)
  BY <1>1, <1>5, <1>6, <1>7 DEF AnswerMoves
<1>21. IsOpen(p, n)'
  <2>1. stream[p][n].writeSize # 0 /\ stream[o][n].readSize # 0
    BY <1>6, <1>8 DEF IsOpen
  <2>2. stream'[p][n].writeSize # 0 /\ stream'[o][n].readSize # 0
    BY <1>9, <1>11, <1>12, <1>13, <2>1
  <2>. QED
    BY <1>6, <2>2 DEF IsOpen
<1>22. Credit(p, n)'
  <2>1. PICK a \in Nat, u \in Nat, l \in Nat, r \in Nat :
            /\ a = Cardinality(Arriving(p, n)) /\ u = stream[o][n].unread
            /\ l = stream[o][n].held /\ r = Cardinality(Requests(o, "RELEASE", n))
            /\ s.remoteFill = a + u + l + r /\ stream[o][n].localFill = u + l
            /\ l = Cardinality(Releasing(o, n))
    BY <1>6, <1>9, <1>19, CreditIs DEF Direction
  <2>2. Cardinality(Requests(o, "RELEASE", n)') = r - 1
    BY <1>7, <1>20, <2>1, FiniteSets, OneMoreOrLess
  <2>3. Cardinality(Arriving(p, n)') = a /\ Cardinality(Releasing(o, n)') = l
    BY <1>17, <1>20, <2>1 DEF SameSets
  <2>4. e.remoteFill = a + u + l + (r - 1)
    BY <1>11, <2>1
  <2>. QED
    BY <1>6, <1>12, <1>13, <1>21, <2>1, <2>2, <2>3, <2>4 DEF Credit, IsOpen
<1>23. /\ stream'[p][n].id = stream[p][n].id /\ stream'[p][n].writeSize = stream[p][n].writeSize
       /\ stream'[p][n].readSize = stream[p][n].readSize
       /\ stream'[p][n].localFill = stream[p][n].localFill
       /\ stream'[p][n].unread = stream[p][n].unread /\ stream'[p][n].held = stream[p][n].held
  BY <1>9, <1>11, <1>12
<1>24. Credit(o, n)' /\ Agreed(o, n)'
  <2>1. Requests(p, "RELEASE", n)' = Requests(p, "RELEASE", n)
    BY <1>20 DEF SameSets
  <2>. QED
    BY <1>6, <1>13, <1>17, <1>19, <1>20, <1>23, <2>1, CreditKept, AgreedStill DEF Direction
<1>25. Agreed(p, n)'
  <2>1. Agreed(p, n) /\ Requests(p, "CLOSE", n) = {}
    BY <1>8, <1>19 DEF Direction, Agreed
  <2>2. /\ Answers(p, "CREATE", n)' = Answers(p, "CREATE", n)
        /\ Answers(p, "CLOSE", n)' = Answers(p, "CLOSE", n)
        /\ Requests(p, "CLOSE", n)' = {} /\ Arriving(p, n)' = Arriving(p, n)
        /\ Requests(o, "RELEASE", n)' \subseteq Requests(o, "RELEASE", n)
    BY <1>20, <2>1 DEF SameSets
  <2>. QED
    BY <1>6, <1>13, <1>23, <2>1, <2>2 DEF Agreed
<1>26. ASSUME NEW q \in Peers PROVE Direction(q, n)'
  <2>1. Direction(q, n) /\ FewerCalls(n) /\ Other(q) \in Peers
    BY <1>6, <1>16, <1>19, TwoPeers DEF FewerCalls
  <2>2. Alone(q, n)'
    BY <2>1, AloneKept DEF Direction
  <2>3. /\ stream'[q][n].id = stream[q][n].id /\ stream'[q][n].writeSize = stream[q][n].writeSize
        /\ stream'[Other(q)][n].readSize = stream[Other(q)][n].readSize
    BY <1>6, <1>13, <1>23
  <2>4. IsOpen(q, n) => IsOpen(q, n)'
    BY <2>3 DEF IsOpen
  <2>5. \A u \in Using(q, n, Types)' :
          /\ event'[u].id = event[u].id /\ event'[u].type = event[u].type
          /\ event'[u].at \in {"queued", "blocked"} => event[u].at \in {"queued", "blocked"}
          /\ event'[u].at = "created" => event[u].at = "created"
    BY <1>14, <1>15 DEF Using
  <2>6. Fitting(q, n)'
    BY <1>1, <1>17, <2>1, <2>3, <2>4, <2>5, FittingKept DEF Direction
  <2>7. Credit(q, n)' /\ Agreed(q, n)'
    BY <1>6, <1>22, <1>24, <1>25
  <2>. QED
    BY <2>2, <2>6, <2>7 DEF Direction
<1>27. \A q \in Peers \ FirstOpeners, k \in Names : Second(q, k)'
  <2>1. \A q \in Peers : \A k : Ahead(Way(q), k) => Ahead(Way(q), k)'
    BY <1>5 DEF AnswerMoves
  <2>2. \A q \in Peers, k \in Names : stream'[q][k].id = stream[q][k].id
    BY <1>12, <1>23
  <2>. QED
    BY <1>1, <1>16, <2>1, <2>2, SecondStays
<1>28. ASSUME NEW k \in Names \ {n} PROVE SameEntries(k) /\ SameMessagesOf(k) /\ SameCalls(k) /\ SameHandles(k)
  <2>1. \A q : \A u \in Using(q, k, Types) : event'[u] = event[u]
    BY <1>14, <1>15 DEF Using
  <2>2. SameCalls(k)
    BY <1>16, <1>17, <2>1 DEF SameCalls
  <2>3. SameEntries(k) /\ SameHandles(k)
    BY <1>1, <1>12 DEF SameEntries, SameHandles
  <2>. QED
    BY <1>5, <2>2, <2>3 DEF AnswerMoves
<1>. QED
  BY <1>1, <1>18, <1>26, <1>27, <1>28, CarefulKept

\* The request to release a packet finds the stream.
LEMMA ReleaseDoesNotAbort ==
    ASSUME OneOpener, Typed, OneEach, Careful, NEW p \in Peers, rQueue[p] # <<>>, IsRequest(Remote(p), "RELEASE")
    PROVE  Exists(p, Remote(p).id)
<1>1. PICK h \in Packets(app.sizes) : h = Remote(p)
  BY HeadOfQueue
<1>2. PICK n \in Names : n = h.name
  BY <1>1 DEF Packets
<1>3. rQueue[p] \in Seq(Packets(app.sizes))
  BY DEF Typed
<1>4. h \in In(p)
  BY <1>1, <1>3, ElementsLeft DEF In, Remote
<1>5. h \in Requests(Other(p), "RELEASE", n)
  BY <1>1, <1>2, <1>4, TwoPeers DEF Requests, Under, Is, IsRequest
<1>. QED
  BY <1>1, <1>5, ReleaseFound

-----------------------------------------------------------------------------
(* A stream is created                                                      *)

\* What allocateNewStream makes of an entry: it sets a size that is asked for, and
\* gives an id to a stream that has none.
LEMMA AllocatedFields ==
    ASSUME OneSize, Typed, NEW s \in Entries(app.sizes), NEW id, NEW e,
           NEW w \in app.sizes \cup {0}, NEW r \in app.sizes \cup {0}, e = Allocated(s, w, r, id),
           s.id = None => /\ s.writeSize = 0 /\ s.readSize = 0 /\ s.remoteFill = 0 /\ s.localFill = 0
    PROVE  /\ e.id = IF s.id = None THEN id ELSE s.id
           /\ e.writeSize = IF s.writeSize = 0 THEN w ELSE s.writeSize
           /\ e.readSize = IF s.readSize = 0 THEN r ELSE s.readSize
           /\ e.remoteFill = s.remoteFill /\ e.localFill = s.localFill
           /\ e.unread = s.unread /\ e.held = s.held
           /\ s.id # None => ~TooLarge(s, w, r)
<1>1. app.sizes \subseteq Nat \ {0} /\ \A a, b \in app.sizes : a = b
  BY SizesAre
<1>2. ~TooLarge(s, w, r)
  BY <1>1 DEF TooLarge, Entries
<1>3. CASE s.id = None
  <2>1. e = [s EXCEPT !.id = id, !.writeSize = w, !.readSize = r,
                      !.remoteFill = 0, !.localFill = 0, !.closing = FALSE]
    BY <1>3 DEF Allocated
  <2>. QED
    BY <1>3, <2>1 DEF Entries
<1>4. CASE s.id # None
  <2>1. e = [s EXCEPT !.writeSize = SizeOrNew(@, w), !.readSize = SizeOrNew(@, r)]
    BY <1>2, <1>4 DEF Allocated
  <2>. QED
    BY <1>2, <1>4, <2>1 DEF Entries, SizeOrNew
<1>. QED
  BY <1>3, <1>4

\* A stream that a peer opens is not being closed.
LEMMA OpenedNotClosed ==
    ASSUME Typed, OneEach, Careful, NEW p \in Peers, NEW n \in Names, Using(p, n, {"CREATE"}) # {}
    PROVE  \A q \in Peers : Requests(q, "CLOSE", n) = {} /\ Answers(q, "CLOSE", n) = {}
<1>1. PICK o \in Peers : o = Other(p) /\ p = Other(o) /\ \A q \in Peers : q = p \/ q = o
  BY TwoPeers
<1>2. Alone(p, n) /\ Alone(o, n) /\ MessagesFit
  BY DEF Careful, Direction
<1>3. PICK t \in Using(p, n, {"CREATE"}) : t \in Using(p, n, Types) /\ event[t].type # "CLOSE"
  BY DEF Using, Types
<1>4. Using(o, n, {"CLOSE"}) = {}
  BY <1>1, <1>2 DEF Alone
<1>5. Requests(o, "CLOSE", n) = {} /\ Answers(o, "CLOSE", n) = {}
  BY <1>2, <1>4, NoCallNoMessage DEF Types
<1>6. Requests(p, "CLOSE", n) = {} /\ Answers(p, "CLOSE", n) = {}
  BY <1>2, <1>3, NotClosing
<1>. QED
  BY <1>1, <1>5, <1>6

\* An entry without an id has no packets.
LEMMA FreeEntry ==
    ASSUME Typed, Careful, NEW p \in Peers, NEW n \in Names
    PROVE  /\ stream[p][n].writeSize = 0 =>
                /\ stream[p][n].remoteFill = 0 /\ Requests(Other(p), "RELEASE", n) = {}
                /\ Arriving(p, n) = {} /\ Releasing(Other(p), n) = {}
           /\ stream[p][n].readSize = 0 =>
                /\ stream[p][n].localFill = 0 /\ Releasing(p, n) = {}
                /\ stream[p][n].unread = 0 /\ stream[p][n].held = 0
           /\ stream[p][n].id = None <=> stream[p][n].writeSize = 0 /\ stream[p][n].readSize = 0
<1>1. PICK o \in Peers : o = Other(p) /\ p = Other(o)
  BY TwoPeers
<1>2. Direction(o, n) /\ Direction(p, n)
  BY DEF Careful
<1>3. stream[p][n].writeSize = 0 => stream[p][n].remoteFill = 0
  BY <1>2 DEF Direction, Credit
<1>4. stream[p][n].readSize = 0 => stream[o][n].remoteFill = 0
  BY <1>1, <1>2 DEF Direction, Credit
<1>5. stream[p][n].id = None <=> stream[p][n].writeSize = 0 /\ stream[p][n].readSize = 0
  BY <1>2 DEF Direction, Agreed
<1>. QED
  BY <1>1, <1>2, <1>3, <1>4, <1>5, Charged DEF Direction

\* A request to create finds a stream that the second peer numbers, or one that has an
\* id already.
LEMMA CreatedBySecond ==
    ASSUME OneOpener, Typed, OneEach, OneEach', Careful, NEW p \in Peers, NEW n \in Names, NEW h, NEW m,
           AnswerOf(p, n, h, m), h.type = "CREATE", stream[p][n].id = None
    PROVE  p \notin FirstOpeners /\ Other(p) \in FirstOpeners /\ stream[Other(p)][n].id = None
<1>1. PICK o \in Peers : o = Other(p) /\ p = Other(o) /\ o # p /\ \A q \in Peers : q = p \/ q = o
  BY TwoPeers
<1>2. Direction(p, n) /\ Direction(o, n)
  BY DEF Careful
<1>3. ~Ahead(Way(p), n)
  <2>1. rQueue[p] # <<>> /\ h = Head(rQueue[p]) /\ Is(h, "REQ", "CREATE", n)
        /\ rQueue' = [rQueue EXCEPT ![p] = Tail(@)]
    BY DEF AnswerOf, Answered, Remote, Is
  <2>2. Way(p) # <<>> /\ Head(Way(p)) = h /\ Way(p) \in Seq(Packets(app.sizes))
    BY <2>1, WayHandled, WayType
  <2>. QED
    BY <2>1, <2>2, NoneAhead
<1>4. o \in FirstOpeners
  <2>. SUFFICES ASSUME o \notin FirstOpeners PROVE FALSE
    OBVIOUS
  <2>1. Second(o, n)
    BY DEF Careful
  <2>. QED
    BY <1>1, <1>3, <2>1 DEF Second, OpensSecond
<1>5. p \notin FirstOpeners
  BY <1>1, <1>4 DEF OneOpener
<1>6. Using(o, n, {"CREATE"}) # {}
  BY <1>1, CallOfRequest
<1>7. Answers(o, "CLOSE", n) = {}
  BY <1>6, OpenedNotClosed
<1>8. stream[p][n].writeSize = 0 /\ stream[p][n].readSize = 0
  BY FreeEntry
<1>9. stream[o][n].writeSize = 0
  BY <1>1, <1>2, <1>7, <1>8 DEF Direction, Agreed
<1>10. Using(p, n, {"CREATE"}) = {}
  <2>1. Second(p, n)
    BY <1>5 DEF Careful
  <2>. QED
    BY <2>1 DEF Second, OpensSecond
<1>11. Answers(p, "CREATE", n) = {}
  BY <1>10, NoCallNoMessage DEF Types, Careful
<1>12. stream[o][n].readSize = 0
  BY <1>1, <1>2, <1>8, <1>11 DEF Direction, Agreed
<1>. QED
  BY <1>1, <1>4, <1>5, <1>9, <1>12, FreeEntry

\* The ids stay distinct when the second peer numbers a stream that has no id on
\* either side.
LEMMA NumberGiven ==
    ASSUME Typed, NEW p \in Peers, NEW n \in Names, \A k \in Names : Numbered(p, k),
           \A a \in Peers : stream[a][n].id = None,
           stream'[p][n].id = next[p], next'[p] = next[p] + 1,
           \A q \in Peers, k \in Names : q # p \/ k # n => stream'[q][k].id = stream[q][k].id
    PROVE  \A k \in Names : Numbered(p, k)'
<1>1. next[p] \in Nat /\ next[p] # None
  BY StreamsAssumption DEF Typed
<1>2. ASSUME NEW k \in Names, NEW a \in Peers, stream'[a][k].id # None
      PROVE  /\ stream'[a][k].id < next'[p]
             /\ \A b \in Peers, m \in Names \ {k} : stream'[b][m].id # stream'[a][k].id
  <2>1. CASE k = n
    <3>1. a = p /\ stream'[a][k].id = next[p]
      BY <1>2, <2>1
    <3>2. ASSUME NEW b \in Peers, NEW m \in Names \ {k} PROVE stream'[b][m].id # next[p]
      <4>1. stream'[b][m].id = stream[b][m].id
        BY <2>1, <3>2
      <4>2. stream[b][m].id # None => stream[b][m].id < next[p]
        BY <3>2 DEF Numbered
      <4>3. stream[b][m].id \in Nat \cup {None}
        BY EntryAt DEF Entries, Numbers
      <4>. QED
        BY <1>1, <4>1, <4>2, <4>3
    <3>. QED
      BY <1>1, <3>1, <3>2
  <2>2. CASE k # n
    <3>1. stream'[a][k].id = stream[a][k].id /\ stream[a][k].id \in Nat /\ stream[a][k].id < next[p]
      <4>1. stream'[a][k].id = stream[a][k].id
        BY <2>2
      <4>. QED
        BY <1>2, <4>1, EntryAt DEF Numbered, Entries, Numbers
    <3>2. ASSUME NEW b \in Peers, NEW m \in Names \ {k} PROVE stream'[b][m].id # stream[a][k].id
      <4>1. CASE b = p /\ m = n
        BY <1>1, <3>1, <4>1
      <4>2. CASE b # p \/ m # n
        <5>1. stream'[b][m].id = stream[b][m].id
          BY <4>2
        <5>. QED
          BY <1>2, <3>1, <5>1 DEF Numbered
      <4>. QED
        BY <4>1, <4>2
    <3>. QED
      BY <1>1, <3>1, <3>2
  <2>. QED
    BY <2>1, <2>2
<1>. QED
  BY <1>2 DEF Numbered

LEMMA HandleCreateCareful ==
    ASSUME OneSize, OneOpener, Typed, OneEach, OneEach', Careful, NEW p \in Peers, HandleCreate(p)
    PROVE  Careful'
<1>1. /\ UNCHANGED <<handle, event, calls, app, aborted>> /\ ~aborted
      /\ rQueue[p] # <<>> /\ rQueue' = [rQueue EXCEPT ![p] = Tail(@)]
      /\ Remote(p).kind = "REQ" /\ Remote(p).type = "CREATE"
      /\ Send(p, Response(p, AllocatedId(p, Remote(p).name, 0, Remote(p).size), TRUE))
      /\ allocateNewStream(p, Remote(p).name, 0, Remote(p).size, None)
  BY DEF HandleCreate, Handle, IsRequest
<1>2. PICK n \in Names, size \in app.sizes : n = Remote(p).name /\ size = Remote(p).size
  BY <1>1, HeadOfQueue DEF Packets
<1>3. 0 \in app.sizes \cup {0} /\ size \in app.sizes \cup {0} /\ size # 0 /\ next[p] \in Nat
  BY <1>2, SizesAre DEF Typed
<1>4. PICK s \in Entries(app.sizes) : s = stream[p][n]
  BY EntryAt
<1>5. PICK e : e = Allocated(s, 0, size, next[p])
  OBVIOUS
<1>6. stream' = [stream EXCEPT ![p][n] = e] /\ next' = [next EXCEPT ![p] = NextId(p, n)]
  BY <1>1, <1>2, <1>4, <1>5 DEF allocateNewStream
<1>7. /\ stream'[p][n] = e
      /\ \A q \in Peers, k \in Names : q # p \/ k # n => stream'[q][k] = stream[q][k]
  BY <1>6 DEF Typed
<1>8. PICK o \in Peers : o = Other(p) /\ p = Other(o) /\ o # p /\ \A q \in Peers : q = p \/ q = o
  BY TwoPeers
<1>9. stream'[o][n] = stream[o][n]
  BY <1>7, <1>8
<1>10. /\ s.writeSize = 0 =>
             /\ s.remoteFill = 0 /\ Requests(o, "RELEASE", n) = {}
             /\ Arriving(p, n) = {} /\ Releasing(o, n) = {}
       /\ s.readSize = 0 => s.localFill = 0 /\ Releasing(p, n) = {}
       /\ s.id = None <=> s.writeSize = 0 /\ s.readSize = 0
  BY <1>4, <1>8, FreeEntry
<1>11. /\ e.id = IF s.id = None THEN next[p] ELSE s.id
       /\ e.writeSize = s.writeSize /\ e.readSize # 0
       /\ e.remoteFill = s.remoteFill /\ e.localFill = s.localFill
       /\ e.unread = s.unread /\ e.held = s.held
       /\ s.id # None => ~TooLarge(s, 0, size)
  <2>1. s.id = None => s.writeSize = 0 /\ s.readSize = 0 /\ s.remoteFill = 0 /\ s.localFill = 0
    BY <1>10
  <2>2. /\ e.id = IF s.id = None THEN next[p] ELSE s.id
        /\ e.writeSize = IF s.writeSize = 0 THEN 0 ELSE s.writeSize
        /\ e.readSize = IF s.readSize = 0 THEN size ELSE s.readSize
        /\ e.remoteFill = s.remoteFill /\ e.localFill = s.localFill
        /\ e.unread = s.unread /\ e.held = s.held
        /\ s.id # None => ~TooLarge(s, 0, size)
    BY <1>3, <1>5, <2>1, AllocatedFields
  <2>. QED
    BY <1>3, <2>2
<1>12. PICK id \in Numbers, ack \in BOOLEAN : id = e.id /\ Send(p, Response(p, id, ack))
  <2>1. AllocatedId(p, n, 0, size) = e.id
    BY <1>4, <1>11 DEF AllocatedId
  <2>2. e.id \in Numbers
    BY <1>3, <1>11 DEF Entries, Numbers
  <2>. QED
    BY <1>1, <1>2, <2>1, <2>2
<1>13. PICK h, m : AnswerOf(p, n, h, m) /\ m.id = id
  <2>1. rQueue[p] # <<>> /\ rQueue' = [rQueue EXCEPT ![p] = Tail(@)]
    BY <1>1
  <2>2. n = Remote(p).name /\ Remote(p).kind = "REQ" /\ Send(p, Response(p, id, ack))
    BY <1>1, <1>2, <1>12
  <2>. QED
    BY <1>2, <1>12, <2>1, <2>2, AnswerMade
<1>14. AnswerMoves(p, n, h, m) /\ h.type = "CREATE" /\ m.type = "CREATE" /\ m.kind = "RESP" /\ m.name = n
  BY <1>1, <1>13, AnswerGiven DEF AnswerOf
<1>15. MessagesFit'
  BY <1>1, <1>13, <1>14, AnswerFits DEF Careful
<1>16. h.thread \in Using(o, n, {"CREATE"})
  BY <1>8, <1>13, <1>14, CallOfRequest
<1>17. \A q \in Peers : Requests(q, "CLOSE", n) = {} /\ Answers(q, "CLOSE", n) = {}
  BY <1>16, OpenedNotClosed
<1>18. s.id = None => p \notin FirstOpeners /\ o \in FirstOpeners /\ stream[o][n].id = None
  BY <1>4, <1>8, <1>13, <1>14, CreatedBySecond
<1>19. /\ SameSets(p, n)
       /\ Requests(o, "CLOSE", n)' = Requests(o, "CLOSE", n)
       /\ Requests(o, "RELEASE", n)' = Requests(o, "RELEASE", n)
       /\ Answers(o, "CREATE", n)' = Answers(o, "CREATE", n) \cup {m}
       /\ Answers(o, "CLOSE", n)' = Answers(o, "CLOSE", n)
       /\ Arriving(o, n)' = Arriving(o, n)
  BY <1>8, <1>14 DEF AnswerMoves
<1>20. Direction(p, n) /\ Direction(o, n)
  BY DEF Careful
<1>21. /\ \A k : SameCalls(k) /\ FewerCalls(k)
       /\ \A q, k, types : Using(q, k, types)' = Using(q, k, types)
       /\ \A q, k : Releasing(q, k)' = Releasing(q, k)
  BY <1>1, CallsUnchanged
<1>22. Credit(p, n)'
  <2>1. /\ stream'[p][n].remoteFill = stream[p][n].remoteFill
        /\ stream'[p][n].writeSize = stream[p][n].writeSize
    BY <1>4, <1>7, <1>11
  <2>2. Arriving(p, n)' = Arriving(p, n)
    BY <1>19 DEF SameSets
  <2>. QED
    BY <1>8, <1>9, <1>19, <1>20, <1>21, <2>1, <2>2, CreditKept DEF Direction
<1>23. Credit(o, n)'
  <2>1. /\ stream'[p][n].unread = stream[p][n].unread /\ stream'[p][n].held = stream[p][n].held
        /\ stream'[p][n].localFill = stream[p][n].localFill /\ stream'[p][n].readSize # 0
    BY <1>4, <1>7, <1>11
  <2>2. /\ Arriving(o, n)' = Arriving(o, n) /\ Releasing(p, n)' = Releasing(p, n)
        /\ Requests(p, "RELEASE", n)' = Requests(p, "RELEASE", n)
    BY <1>19, <1>21 DEF SameSets
  <2>3. Credit(o, n)
    BY <1>20 DEF Direction
  <2>. QED
    BY <1>8, <1>9, <2>1, <2>2, <2>3 DEF Credit
<1>24. Agreed(p, n)'
  <2>1. Agreed(p, n)
    BY <1>20 DEF Direction
  <2>2. /\ stream'[p][n].id = e.id /\ stream'[p][n].writeSize = s.writeSize /\ stream'[p][n].readSize # 0
        /\ e.id # None /\ (s.id # None => e.id = s.id) /\ stream'[p][n].remoteFill = s.remoteFill
    BY <1>3, <1>7, <1>11, StreamsAssumption
  <2>3. /\ Answers(p, "CREATE", n)' = Answers(p, "CREATE", n)
        /\ Answers(p, "CLOSE", n)' = {} /\ Requests(p, "CLOSE", n)' = {} /\ Answers(p, "CLOSE", n) = {}
        /\ Arriving(p, n)' = Arriving(p, n)
    BY <1>17, <1>19 DEF SameSets
  <2>4. s.id = None => Requests(o, "RELEASE", n)' = {} /\ Arriving(p, n)' = {}
    BY <1>10, <1>19, <2>3
  <2>5. CASE s.id = None
    <3>1. stream[o][n].readSize = 0
      BY <1>18, <2>5, FreeEntry
    <3>. QED
      BY <1>4, <1>8, <1>9, <1>10, <1>18, <2>1, <2>2, <2>3, <2>4, <2>5, <3>1 DEF Agreed
  <2>6. CASE s.id # None
    BY <1>4, <1>8, <1>9, <1>19, <2>1, <2>2, <2>3, <2>6 DEF Agreed
  <2>. QED
    BY <2>5, <2>6
<1>25. Agreed(o, n)'
  <2>1. Agreed(o, n)
    BY <1>20 DEF Direction
  <2>2. /\ stream'[p][n].id = e.id /\ stream'[p][n].readSize # 0 /\ (s.id # None => e.id = s.id)
    BY <1>7, <1>11
  <2>3. m.id = e.id /\ (s.id = None => s.readSize = 0)
    BY <1>10, <1>12, <1>13
  <2>4. /\ Answers(o, "CREATE", n)' = Answers(o, "CREATE", n) \cup {m}
        /\ Answers(o, "CLOSE", n)' = {} /\ Requests(o, "CLOSE", n)' = {} /\ Answers(o, "CLOSE", n) = {}
        /\ Arriving(o, n)' = Arriving(o, n) /\ Requests(p, "RELEASE", n)' = Requests(p, "RELEASE", n)
    BY <1>17, <1>19 DEF SameSets
  <2>5. \A k \in Answers(o, "CREATE", n)' : k.id = e.id
    BY <1>4, <1>8, <2>1, <2>2, <2>3, <2>4 DEF Agreed
  <2>. QED
    BY <1>4, <1>8, <1>9, <1>18, <2>1, <2>2, <2>4, <2>5 DEF Agreed
<1>26. ASSUME NEW q \in Peers PROVE Direction(q, n)'
  <2>1. Direction(q, n) /\ Other(q) \in Peers
    BY <1>8, <1>20, TwoPeers
  <2>2. Alone(q, n)'
    BY <1>21, <2>1, AloneKept DEF Direction
  <2>3. IsOpen(q, n) => IsOpen(q, n)' /\ stream'[q][n].id = stream[q][n].id
    <3>1. CASE q = o
      BY <1>7, <1>8, <1>9, <1>11, <3>1 DEF IsOpen
    <3>2. CASE q = p
      BY <1>4, <1>7, <1>8, <1>9, <1>10, <1>11, <3>2 DEF IsOpen
    <3>. QED
      BY <1>8, <3>1, <3>2
  <2>4. Releasing(q, n)' # {} => stream'[q][n].id = stream[q][n].id
    <3>1. CASE q = o
      BY <1>9, <3>1
    <3>2. CASE q = p
      BY <1>4, <1>7, <1>10, <1>11, <1>21, <3>2
    <3>. QED
      BY <1>8, <3>1, <3>2
  <2>5. Fitting(q, n)'
    BY <1>1, <1>21, <2>1, <2>3, <2>4, FittingKept DEF Direction
  <2>6. Credit(q, n)' /\ Agreed(q, n)'
    BY <1>8, <1>22, <1>23, <1>24, <1>25
  <2>. QED
    BY <2>2, <2>5, <2>6 DEF Direction
<1>27. ASSUME NEW q \in Peers \ FirstOpeners, NEW k \in Names PROVE Second(q, k)'
  <2>1. \A a \in Peers : \A b : Ahead(Way(a), b) => Ahead(Way(a), b)'
    BY <1>14 DEF AnswerMoves
  <2>2. CASE s.id # None
    <3>1. next' = next
      BY <1>4, <1>6, <2>2 DEF NextId, Typed
    <3>2. \A a \in Peers, b \in Names : stream'[a][b].id = stream[a][b].id
      BY <1>4, <1>7, <1>11, <2>2
    <3>. QED
      BY <1>21, <2>1, <3>1, <3>2, SecondStays
  <2>3. CASE s.id = None
    <3>1. q = p
      BY <1>8, <1>18, <2>3
    <3>2. stream'[p][n].id = next[p] /\ next'[p] = next[p] + 1 /\ \A a \in Peers : stream[a][n].id = None
      BY <1>4, <1>6, <1>7, <1>8, <1>11, <1>18, <2>3 DEF NextId, Typed
    <3>3. \A b \in Names : Second(p, b)
      BY <3>1 DEF Careful
    <3>4. Numbered(p, k)'
      BY <1>7, <3>2, <3>3, NumberGiven DEF Second
    <3>5. OpensSecond(p, k)'
      <4>1. Using(p, k, {"CREATE"})' # {} => stream'[p][k].id # None
        <5>1. CASE k = n
          BY <1>3, <3>2, <5>1, StreamsAssumption
        <5>2. CASE k # n
          BY <1>7, <1>21, <3>3, <5>2 DEF Second, OpensSecond
        <5>. QED
          BY <5>1, <5>2
      <4>2. stream[o][k].id # None \/ Ahead(Way(o), k)
        BY <1>8, <3>3 DEF Second, OpensSecond
      <4>3. stream'[o][k].id = stream[o][k].id
        BY <1>7, <1>8
      <4>. QED
        BY <1>8, <2>1, <4>1, <4>2, <4>3 DEF OpensSecond
    <3>. QED
      BY <3>1, <3>4, <3>5 DEF Second
  <2>. QED
    BY <2>2, <2>3
<1>28. \A k \in Names \ {n} : SameEntries(k) /\ SameMessagesOf(k) /\ SameCalls(k) /\ SameHandles(k)
  BY <1>1, <1>7, <1>14, <1>21 DEF SameEntries, SameHandles, AnswerMoves
<1>. QED
  BY <1>1, <1>15, <1>26, <1>27, <1>28, CarefulKept

-----------------------------------------------------------------------------
(* A stream is closed                                                       *)

\* The ids stay distinct when one is given up.
LEMMA NumberLeft ==
    ASSUME NEW p \in Peers, NEW n \in Names, \A k \in Names : Numbered(p, k), next'[p] = next[p],
           \A q \in Peers, k \in Names : stream'[q][k].id \in {stream[q][k].id, None}
    PROVE  \A k \in Names : Numbered(p, k)'
<1>. SUFFICES ASSUME NEW k \in Names, NEW a \in Peers, stream'[a][k].id # None
              PROVE  /\ stream'[a][k].id < next'[p]
                     /\ \A b \in Peers, m \in Names \ {k} : stream'[b][m].id # stream'[a][k].id
  BY DEF Numbered
<1>1. stream'[a][k].id = stream[a][k].id
  OBVIOUS
<1>2. stream[a][k].id < next[p] /\ \A b \in Peers, m \in Names \ {k} : stream[b][m].id # stream[a][k].id
  BY <1>1 DEF Numbered
<1>3. ASSUME NEW b \in Peers, NEW m \in Names \ {k} PROVE stream'[b][m].id # stream'[a][k].id
  <2>1. stream'[b][m].id = stream[b][m].id \/ stream'[b][m].id = None
    OBVIOUS
  <2>. QED
    BY <1>1, <1>2, <2>1
<1>. QED
  BY <1>1, <1>2, <1>3

\* Without a call that opens a stream there is no request to be ahead of.
NoneToCreate ==
    \A q \in Peers, k \in Names : Using(q, k, {"CREATE"}) = {} => Ahead(Way(Other(q)), k)

LEMMA NoneToCreateHolds == Typed /\ OneEach /\ MessagesFit => NoneToCreate
<1>. SUFFICES ASSUME Typed, OneEach, MessagesFit, NEW q \in Peers, NEW k \in Names, Using(q, k, {"CREATE"}) = {}
              PROVE  Ahead(Way(Other(q)), k)
  BY DEF NoneToCreate
<1>1. Requests(q, "CREATE", k) = {}
  BY NoCallNoMessage DEF Types
<1>2. Elements(Way(Other(q))) = Under(q)
  BY TwoPeers, WayType
<1>. QED
  BY <1>1, <1>2 DEF Requests, Ahead, Elements, Is

LEMMA NoneToCreateNext == Typed' /\ OneEach' /\ MessagesFit' => NoneToCreate'
  BY NoneToCreateHolds, PTL

\* The second peer when a stream n that no call opens may lose its id.
LEMMA SecondLeft ==
    ASSUME Typed', OneEach', MessagesFit', Careful, NEW n \in Names, next' = next,
           \A q \in Peers, k \in Names : /\ stream'[q][k].id \in {stream[q][k].id, None}
                                         /\ k # n => stream'[q][k].id = stream[q][k].id,
           \A q \in Peers, k \in Names : Using(q, k, {"CREATE"})' \subseteq Using(q, k, {"CREATE"}),
           \A q \in Peers : Using(q, n, {"CREATE"})' = {},
           \A q \in Peers : \A k : k # n /\ Ahead(Way(q), k) => Ahead(Way(q), k)'
    PROVE  \A q \in Peers \ FirstOpeners, k \in Names : Second(q, k)'
<1>. SUFFICES ASSUME NEW q \in Peers \ FirstOpeners, NEW k \in Names PROVE Second(q, k)'
  OBVIOUS
<1>1. Other(q) \in Peers /\ Other(Other(q)) = q /\ \A b \in Names : Second(q, b)
  BY TwoPeers DEF Careful
<1>2. Numbered(q, k)'
  <2>1. \A b \in Names : Numbered(q, b)
    BY <1>1 DEF Second
  <2>. QED
    BY <2>1, NumberLeft
<1>3. OpensSecond(q, k)'
  <2>1. CASE k # n
    <3>1. stream[Other(q)][k].id # None \/ Ahead(Way(Other(q)), k)
      BY <1>1 DEF Second, OpensSecond
    <3>2. stream'[Other(q)][k].id = stream[Other(q)][k].id /\ stream'[q][k].id = stream[q][k].id
      BY <1>1, <2>1
    <3>3. stream'[Other(q)][k].id # None \/ Ahead(Way(Other(q)), k)'
      BY <1>1, <2>1, <3>1, <3>2
    <3>. QED
      BY <1>1, <3>2, <3>3 DEF Second, OpensSecond
  <2>2. CASE k = n
    <3>1. Ahead(Way(Other(q)), n)'
      BY NoneToCreateNext DEF NoneToCreate
    <3>2. Using(q, n, {"CREATE"})' = {}
      OBVIOUS
    <3>. QED
      BY <2>2, <3>1, <3>2 DEF OpensSecond
  <2>. QED
    BY <2>1, <2>2
<1>. QED
  BY <1>2, <1>3 DEF Second

LEMMA HandleCloseCareful ==
    ASSUME OneOpener, Typed, Typed', OneEach, OneEach', Careful, NEW p \in Peers, HandleClose(p)
    PROVE  Careful'
<1>1. /\ UNCHANGED <<next, handle, event, calls, app, aborted>> /\ ~aborted
      /\ rQueue[p] # <<>> /\ rQueue' = [rQueue EXCEPT ![p] = Tail(@)]
      /\ Remote(p).kind = "REQ" /\ Remote(p).type = "CLOSE"
  BY DEF HandleClose, Handle, IsRequest
<1>2. PICK n \in Names, id \in Numbers, ack \in BOOLEAN :
         n = Remote(p).name /\ id = Remote(p).id /\ Send(p, Response(p, id, ack))
  <2>1. PICK id \in Numbers, ack \in BOOLEAN : id = Remote(p).id /\ Send(p, Response(p, id, ack))
    BY <1>1, HeadOfQueue DEF Packets, HandleClose
  <2>. QED
    BY <1>1, <2>1, HeadOfQueue DEF Packets
<1>3. PICK h, m : AnswerOf(p, n, h, m) /\ m.id = id
  <2>1. rQueue[p] # <<>> /\ rQueue' = [rQueue EXCEPT ![p] = Tail(@)]
    BY <1>1
  <2>2. n = Remote(p).name /\ Remote(p).kind = "REQ" /\ Send(p, Response(p, id, ack))
    BY <1>1, <1>2
  <2>. QED
    BY <1>2, <2>1, <2>2, AnswerMade
<1>4. AnswerMoves(p, n, h, m) /\ h = Remote(p) /\ h.type = "CLOSE" /\ m.type = "CLOSE" /\ m.kind = "RESP"
      /\ h.kind = "REQ" /\ m.id = h.id /\ n \in Names
  BY <1>1, <1>2, <1>3, AnswerGiven DEF AnswerOf
<1>5. MessagesFit'
  BY <1>1, <1>3, <1>4, AnswerFits DEF Careful
<1>6. PICK o \in Peers : o = Other(p) /\ p = Other(o) /\ o # p /\ \A q \in Peers : q = p \/ q = o
  BY TwoPeers
<1>7. Direction(p, n) /\ Direction(o, n)
  BY <1>4 DEF Careful
<1>8. h \in Requests(o, "CLOSE", n)
  BY <1>4, <1>6 DEF AnswerMoves
<1>9. IsOpen(o, n) /\ h.id = stream[o][n].id /\ stream[o][n].remoteFill = 0
  BY <1>7, <1>8 DEF Direction, Agreed
<1>10. /\ stream[p][n].id = h.id /\ h.id # None /\ WithId(p, h.id) = {n} /\ Exists(p, h.id)
       /\ stream[o][n].writeSize # 0 /\ stream[p][n].readSize # 0
  BY <1>4, <1>6, <1>7, <1>9, OpenIds, FoundById DEF Direction, IsOpen
<1>11. /\ Arriving(o, n) = {} /\ Requests(p, "RELEASE", n) = {} /\ Releasing(p, n) = {}
       /\ stream[p][n].unread = 0 /\ stream[p][n].held = 0 /\ stream[p][n].localFill = 0
  BY <1>4, <1>6, <1>7, <1>9, Charged DEF Direction
<1>12. PICK s, c, e :
          /\ s \in Entries(app.sizes)
          /\ c \in BOOLEAN
          /\ s = stream[p][n] /\ e = Freed([s EXCEPT !.readSize = 0, !.closing = c])
          /\ stream' = [stream EXCEPT ![p][n] = e]
  <2>1. PICK k \in WithId(p, h.id) :
          LET s == stream[p][k] IN
          \/ /\ s.localFill = 0
             /\ stream' = [stream EXCEPT ![p][k] = Freed(
                   [s EXCEPT !.readSize = 0, !.closing = IF s.readSize # 0 THEN FALSE ELSE @])]
          \/ s.localFill # 0
    BY <1>4, <1>10 DEF HandleClose
  <2>2. k = n
    BY <1>10, <2>1
  <2>3. PICK s \in Entries(app.sizes) : s = stream[p][n]
    BY <1>4, EntryAt
  <2>4. PICK c \in BOOLEAN : c = IF s.readSize # 0 THEN FALSE ELSE s.closing
    BY <2>3 DEF Entries
  <2>5. [s EXCEPT !.readSize = 0, !.closing = IF s.readSize # 0 THEN FALSE ELSE @]
           = [s EXCEPT !.readSize = 0, !.closing = c]
    BY <2>3, <2>4 DEF Entries
  <2>. QED
    BY <1>11, <2>1, <2>2, <2>3, <2>4, <2>5
<1>13. /\ e.id = IF s.writeSize = 0 THEN None ELSE s.id
       /\ e.writeSize = s.writeSize /\ e.readSize = 0
       /\ e.remoteFill = s.remoteFill /\ e.localFill = s.localFill
       /\ e.unread = s.unread /\ e.held = s.held
  BY <1>12 DEF Freed, Entries
<1>14. /\ stream'[p][n] = e
       /\ \A q \in Peers, k \in Names : q # p \/ k # n => stream'[q][k] = stream[q][k]
  BY <1>4, <1>12 DEF Typed
<1>15. stream'[o][n] = stream[o][n]
  BY <1>4, <1>6, <1>14
<1>16. /\ \A k \in Requests(o, "CLOSE", n) \cup Answers(o, "CLOSE", n) : k = h
       /\ Using(o, n, Types) = {h.thread} /\ event[h.thread].at = "pending"
       /\ Using(o, n, {"CREATE"}) = {} /\ Answers(o, "CREATE", n) = {} /\ Using(p, n, {"CREATE"}) = {}
       /\ h.thread \in Using(o, n, {"CLOSE"})
  BY <1>3, <1>4, <1>6, <1>7, <1>8, OneToClose, CallOfRequest DEF Direction, Careful
<1>17. Answers(o, "CLOSE", n) = {}
  BY <1>4, <1>16 DEF Answers, Is
<1>18. /\ SameSets(p, n) /\ Requests(o, "RELEASE", n)' = Requests(o, "RELEASE", n)
       /\ Requests(o, "CLOSE", n)' = {} /\ Answers(o, "CREATE", n)' = {}
       /\ Answers(o, "CLOSE", n)' = {m} /\ Arriving(o, n)' = {}
       /\ Requests(p, "RELEASE", n)' = {}
  BY <1>4, <1>6, <1>11, <1>16, <1>17 DEF AnswerMoves, SameSets
<1>19. /\ \A k : SameCalls(k) /\ FewerCalls(k)
       /\ \A q, k, types : Using(q, k, types)' = Using(q, k, types)
       /\ \A q, k : Releasing(q, k)' = Releasing(q, k)
  BY <1>1, CallsUnchanged
<1>20. Credit(p, n)'
  <2>1. /\ stream'[p][n].remoteFill = stream[p][n].remoteFill
        /\ stream'[p][n].writeSize = stream[p][n].writeSize
    BY <1>12, <1>13, <1>14
  <2>2. Arriving(p, n)' = Arriving(p, n)
    BY <1>18 DEF SameSets
  <2>. QED
    BY <1>4, <1>6, <1>7, <1>15, <1>18, <1>19, <2>1, <2>2, CreditKept DEF Direction
<1>21. Credit(o, n)'
  <2>1. /\ stream'[p][n].unread = stream[p][n].unread /\ stream'[p][n].held = stream[p][n].held
        /\ stream'[p][n].localFill = stream[p][n].localFill
    BY <1>12, <1>13, <1>14
  <2>2. /\ Arriving(o, n)' = Arriving(o, n) /\ Requests(p, "RELEASE", n)' = Requests(p, "RELEASE", n)
        /\ Releasing(p, n)' = Releasing(p, n) /\ stream'[o][n].remoteFill = 0
    BY <1>9, <1>11, <1>15, <1>18, <1>19
  <2>. QED
    BY <1>6, <1>7, <1>15, <2>1, <2>2 DEF Direction, Credit
<1>22. /\ s.writeSize = 0 => /\ Requests(o, "RELEASE", n) = {} /\ Arriving(p, n) = {}
       /\ s.id # None
  BY <1>4, <1>6, <1>10, <1>12, FreeEntry
<1>23. Agreed(p, n)'
  <2>1. Agreed(p, n) /\ (s.writeSize = 0 => Requests(o, "RELEASE", n)' = {} /\ Arriving(p, n)' = {})
    BY <1>7, <1>18, <1>22 DEF Direction, SameSets
  <2>2. /\ stream'[p][n].id = e.id /\ stream'[p][n].writeSize = s.writeSize /\ stream'[p][n].readSize = 0
        /\ stream'[p][n].remoteFill = s.remoteFill
    BY <1>13, <1>14
  <2>3. /\ Answers(p, "CREATE", n)' = Answers(p, "CREATE", n)
        /\ Answers(p, "CLOSE", n)' = Answers(p, "CLOSE", n)
        /\ Requests(p, "CLOSE", n)' = Requests(p, "CLOSE", n)
        /\ Requests(o, "RELEASE", n)' = Requests(o, "RELEASE", n)
        /\ Arriving(p, n)' = Arriving(p, n)
    BY <1>18 DEF SameSets
  <2>4. CASE s.writeSize = 0
    BY <1>6, <1>12, <1>13, <1>15, <2>1, <2>2, <2>3, <2>4 DEF Agreed, IsOpen
  <2>5. CASE s.writeSize # 0
    BY <1>6, <1>12, <1>13, <1>15, <1>22, <2>1, <2>2, <2>3, <2>5 DEF Agreed, IsOpen
  <2>. QED
    BY <2>4, <2>5
<1>24. Agreed(o, n)'
  <2>1. Agreed(o, n)
    BY <1>7 DEF Direction
  <2>2. /\ stream'[p][n].readSize = 0
        /\ (stream'[p][n].id # None => stream'[p][n].id = stream[p][n].id)
    BY <1>12, <1>13, <1>14
  <2>3. m.id = stream[o][n].id /\ stream[o][n].writeSize # 0
    BY <1>4, <1>9, <1>10
  <2>. QED
    BY <1>6, <1>15, <1>18, <2>1, <2>2, <2>3 DEF Agreed
<1>25. Fitting(o, n)'
  <2>1. /\ Using(o, n, Types)' = {h.thread} /\ event'[h.thread].at = "pending"
        /\ h.thread \in Using(o, n, {"CLOSE"})
    BY <1>1, <1>16, <1>19
  <2>2. Using(o, n, {"WRITE", "CLOSE"})' \subseteq Using(o, n, Types)' /\ Releasing(o, n)' \subseteq Using(o, n, Types)'
    BY DEF Using, Types, Releasing
  <2>3. Releasing(o, n)' = {}
    BY <2>1, <2>2 DEF Releasing
  <2>4. handle'[o][n] = None
    BY <1>1, <1>7, <2>1 DEF Direction, Fitting
  <2>. QED
    BY <2>1, <2>2, <2>3, <2>4 DEF Fitting
<1>26. Fitting(p, n)'
  <2>1. IsOpen(p, n) => IsOpen(p, n)' /\ stream'[p][n].id = stream[p][n].id
    BY <1>6, <1>12, <1>13, <1>14, <1>15 DEF IsOpen
  <2>2. Releasing(p, n)' = {} /\ handle'[p][n] = handle[p][n]
    BY <1>1, <1>11, <1>19
  <2>. QED
    BY <1>1, <1>4, <1>7, <1>19, <2>1, <2>2, FittingKept DEF Direction
<1>27. \A q \in Peers : Direction(q, n)'
  <2>1. Alone(p, n)' /\ Alone(o, n)'
    BY <1>4, <1>7, <1>19, AloneKept DEF Direction
  <2>. QED
    BY <1>6, <1>20, <1>21, <1>23, <1>24, <1>25, <1>26, <2>1 DEF Direction
<1>28. \A q \in Peers \ FirstOpeners, k \in Names : Second(q, k)'
  <2>1. \A q \in Peers, k \in Names : /\ stream'[q][k].id \in {stream[q][k].id, None}
                                      /\ k # n => stream'[q][k].id = stream[q][k].id
    BY <1>12, <1>13, <1>14
  <2>2. \A q \in Peers : Using(q, n, {"CREATE"})' = {}
    BY <1>6, <1>16, <1>19
  <2>. QED
    BY <1>1, <1>4, <1>5, <1>19, <2>1, <2>2, SecondLeft DEF AnswerMoves
<1>29. \A k \in Names \ {n} : SameEntries(k) /\ SameMessagesOf(k) /\ SameCalls(k) /\ SameHandles(k)
  BY <1>1, <1>4, <1>14, <1>19 DEF SameEntries, SameHandles, AnswerMoves
<1>. QED
  BY <1>1, <1>4, <1>5, <1>27, <1>28, <1>29, CarefulKept

-----------------------------------------------------------------------------
(* A response completes its call                                            *)

\* The response h completes the call of thread t on stream n.
Completed(p, n, h, t) ==
    /\ h = Remote(p) /\ h \in Packets(app.sizes) /\ h.kind = "RESP" /\ h.name = n /\ h.thread = t
    /\ Handled(p) /\ UNCHANGED <<handle, aborted>> /\ ~aborted
    /\ event' = [event EXCEPT ![t] = IF @.type = "CREATE" THEN [@ EXCEPT !.at = "created"] ELSE Idle]

\* What that does to the calls and to the messages.
CallOf(p, n, h, t) ==
    /\ t \in Threads /\ t \in Using(p, n, {h.type}) /\ h.type \in Types
    /\ event[t].at = "pending" /\ event[t].type = h.type
CallCompleted(n, h, t) ==
    /\ \A u \in Threads \ {t} : event'[u] = event[u]
    /\ \A k \in Names \ {n} : SameCalls(k)
    /\ FewerCalls(n)
    /\ \A q, k : Releasing(q, k)' = Releasing(q, k)
    /\ \A q, types : types \subseteq Types =>
          Using(q, n, types)' = IF h.type = "CREATE" THEN Using(q, n, types) ELSE Using(q, n, types) \ {t}
    /\ h.type = "CREATE" => event'[t].at = "created" /\ event'[t].type = "CREATE"
ResponseTaken(p, n, h) ==
    /\ h \in Answers(p, h.type, n)
    /\ \A k \in Names \ {n} : SameMessagesOf(k)
    /\ SameSets(Other(p), n)
    /\ \A type : Requests(p, type, n)' = Requests(p, type, n)
    /\ \A type : Answers(p, type, n)' =
          IF type = h.type THEN Answers(p, type, n) \ {h} ELSE Answers(p, type, n)
    /\ Arriving(p, n)' = Arriving(p, n)
    /\ \A q \in Peers : \A k : Ahead(Way(q), k) /\ (q # p \/ ~Is(h, "RESP", "CREATE", k)) => Ahead(Way(q), k)'

LEMMA ResponseCompletes ==
    ASSUME Typed, NEW p \in Peers, HandleResponse(p)
    PROVE  \E n \in Names : \E h, t : Completed(p, n, h, t)
<1>1. /\ rQueue[p] # <<>> /\ Handled(p) /\ UNCHANGED <<handle, aborted>> /\ ~aborted
      /\ Remote(p).kind = "RESP"
  BY DEF HandleResponse, Handled
<1>2. PICK h \in Packets(app.sizes) : h = Remote(p)
  BY <1>1, HeadOfQueue
<1>3. event' = [event EXCEPT ![h.thread] =
          IF @.type = "CREATE" THEN [@ EXCEPT !.at = "created"] ELSE Idle]
  BY <1>2 DEF HandleResponse
<1>4. h.name \in Names
  BY DEF Packets
<1>5. Completed(p, h.name, h, h.thread)
  BY <1>1, <1>2, <1>3 DEF Completed
<1>. QED
  BY <1>4, <1>5

LEMMA CompletedCall ==
    ASSUME Typed, OneEach, Careful, NEW p \in Peers, NEW n \in Names, NEW h, NEW t, Completed(p, n, h, t)
    PROVE  CallOf(p, n, h, t) /\ CallCompleted(n, h, t)
<1>1. h \in Packets(app.sizes) /\ h.kind = "RESP" /\ h.name = n /\ h.thread = t /\ h.type \in Types
  BY DEF Completed, Packets
<1>2. h \in Answers(p, h.type, n)
  <2>1. rQueue[p] \in Seq(Packets(app.sizes)) /\ rQueue[p] # <<>> /\ h = Head(rQueue[p])
    BY DEF Typed, Completed, Handled, Remote
  <2>2. h \in In(p)
    BY <2>1, ElementsLeft DEF In
  <2>. QED
    BY <1>1, <2>2, TwoPeers DEF Answers, Under, Is
<1>3. CallOf(p, n, h, t)
  <2>1. t \in Using(p, n, {h.type}) /\ event[t].at = "pending"
    BY <1>1, <1>2, WaitsForIt DEF Careful
  <2>. QED
    BY <1>1, <2>1 DEF CallOf, Using
<1>4. t \in Threads /\ event[t].at = "pending" /\ event[t].type = h.type /\ event[t] # Idle
      /\ event[t].name = n /\ t[1] = p
  BY <1>3 DEF CallOf, Idle, Using
<1>5. \A q, k : t \notin Releasing(q, k)
  BY <1>4 DEF Releasing
<1>6. \A q, k : k # n => t \notin Using(q, k, Types)
  BY <1>4 DEF Using
<1>7. CASE h.type = "CREATE"
  <2>1. Becomes(t, "created")
    BY <1>1, <1>4, <1>7 DEF Completed, Becomes
  <2>2. /\ \A q, k, types : Using(q, k, types)' = Using(q, k, types)
        /\ \A q, k : Releasing(q, k)' = Releasing(q, k) \ {t}
        /\ \A u \in Threads \ {t} : event'[u] = event[u]
        /\ event'[t].at = "created" /\ event'[t].type = event[t].type
    BY <1>4, <2>1, CallMoved
  <2>3. \A k \in Names \ {n} : SameCalls(k)
    BY <1>5, <1>6, <2>2 DEF SameCalls, Using
  <2>. QED
    BY <1>3, <1>4, <1>5, <1>7, <2>2, <2>3 DEF CallCompleted, FewerCalls
<1>8. CASE h.type # "CREATE"
  <2>1. event' = [event EXCEPT ![t] = Idle]
    BY <1>1, <1>4, <1>8 DEF Completed
  <2>2. /\ \A q, k, types : types \subseteq Types => Using(q, k, types)' = Using(q, k, types) \ {t}
        /\ \A q, k : Releasing(q, k)' = Releasing(q, k) \ {t}
        /\ \A u \in Threads \ {t} : event'[u] = event[u]
    BY <1>4, <2>1, CallEnded
  <2>3. ASSUME NEW k \in Names \ {n} PROVE SameCalls(k)
    <3>1. \A q, types : types \subseteq Types => t \notin Using(q, k, types)
      BY <1>4 DEF Using
    <3>2. \A q : \A u \in Using(q, k, Types) : event'[u] = event[u]
      BY <1>6, <2>2 DEF Using
    <3>. QED
      BY <1>5, <2>2, <3>1, <3>2 DEF SameCalls
  <2>. QED
    BY <1>3, <1>4, <1>5, <1>8, <2>2, <2>3 DEF CallCompleted, FewerCalls
<1>. QED
  BY <1>7, <1>8

LEMMA CompletedMoves ==
    ASSUME Typed, OneEach, OneEach', Careful, NEW p \in Peers, NEW n \in Names, NEW h, NEW t,
           Completed(p, n, h, t)
    PROVE  ResponseTaken(p, n, h) /\ MessagesFit'
<1>1. h \in Packets(app.sizes) /\ h.kind = "RESP" /\ h.name = n /\ h.thread = t /\ h.type \in Types
      /\ Handled(p) /\ h = Head(rQueue[p]) /\ rQueue[p] # <<>>
  BY DEF Completed, Packets, Remote, Handled
<1>2. CallOf(p, n, h, t) /\ CallCompleted(n, h, t)
  BY CompletedCall
<1>3. ~Waits(h.thread)'
  <2>1. t \in Threads /\ event[t].type = h.type
    BY <1>2 DEF CallOf
  <2>2. CASE h.type = "CREATE"
    BY <1>1, <1>2, <2>2 DEF CallCompleted, Waits
  <2>3. CASE h.type # "CREATE"
    BY <1>1, <2>1, <2>3 DEF Completed, Typed, Waits, Idle
  <2>. QED
    BY <2>2, <2>3
<1>4. /\ h \in Answers(p, h.type, h.name)
      /\ \A k : SameSets(Other(p), k) /\ (k # h.name => SameSets(p, k))
      /\ \A type : Requests(p, type, h.name)' = Requests(p, type, h.name)
      /\ \A type : Answers(p, type, h.name)' =
            IF type = h.type THEN Answers(p, type, h.name) \ {h} ELSE Answers(p, type, h.name)
      /\ Arriving(p, h.name)' = Arriving(p, h.name)
  BY <1>1, <1>3, AnswerHandled
<1>5. \A k \in Names \ {n} : SameMessagesOf(k)
  BY <1>1, <1>4, TwoPeers DEF SameMessagesOf
<1>6. \A q \in Peers : \A k : Ahead(Way(q), k) /\ (q # p \/ ~Is(h, "RESP", "CREATE", k)) => Ahead(Way(q), k)'
  <2>. SUFFICES ASSUME NEW q \in Peers, NEW k, Ahead(Way(q), k), q # p \/ ~Is(h, "RESP", "CREATE", k)
                PROVE  Ahead(Way(q), k)'
    OBVIOUS
  <2>1. Way(p)' = Tail(Way(p)) /\ Way(Other(p))' = Way(Other(p)) /\ Way(p) # <<>> /\ Head(Way(p)) = h
    BY <1>1, WayHandled DEF Handled
  <2>2. Way(p) \in Seq(Packets(app.sizes))
    BY WayType
  <2>3. CASE q = p
    <3>1. Ahead(Tail(Way(p)), k)
      BY <2>1, <2>2, <2>3, AheadLeft
    <3>. QED
      BY <2>1, <2>3, <3>1 DEF Ahead
  <2>4. CASE q = Other(p)
    BY <2>1, <2>4 DEF Ahead
  <2>. QED
    BY <2>3, <2>4, TwoPeers
<1>7. ResponseTaken(p, n, h)
  BY <1>1, <1>4, <1>5, <1>6 DEF ResponseTaken
<1>8. MessagesFit'
  <2>1. /\ Under(p)' = Under(p) /\ h \in Under(Other(p)) /\ Under(Other(p))' = Under(Other(p)) \ {h}
    BY <1>1, <1>3, HandledSets
  <2>2. ASSUME NEW q \in Peers, NEW m \in Under(q)'
        PROVE  m \in Under(q) /\ event'[m.thread] = event[m.thread]
    <3>1. m \in Under(q) /\ m # h
      <4>1. CASE q = Other(p)
        BY <2>1, <4>1
      <4>2. CASE q = p
        <5>1. m \in Under(p)
          BY <2>1, <4>2
        <5>2. Waits(m.thread)'
          BY <4>2, TwoPeers DEF OneEach, Under
        <5>. QED
          BY <1>3, <4>2, <5>1, <5>2
      <4>. QED
        BY <4>1, <4>2, TwoPeers
    <3>2. m.thread # h.thread
      BY <2>1, <3>1, OneEachUnder, TwoPeers
    <3>3. m.thread \in Threads
      BY <3>1, MessageSets DEF Packets
    <3>. QED
      BY <1>1, <1>2, <3>1, <3>2, <3>3 DEF CallCompleted
  <2>. QED
    BY <2>2, MessagesFitKept DEF Careful
<1>. QED
  BY <1>7, <1>8

\* The response to a write or to a release changes no stream.
LEMMA PlainResponseCareful ==
    ASSUME Typed, OneEach, OneEach', Careful, NEW p \in Peers, NEW n \in Names, NEW h, NEW t,
           Completed(p, n, h, t), h.type \in {"WRITE", "RELEASE"}, UNCHANGED <<stream, next>>
    PROVE  Careful'
<1>1. CallOf(p, n, h, t) /\ CallCompleted(n, h, t) /\ ResponseTaken(p, n, h) /\ MessagesFit'
  BY CompletedCall, CompletedMoves
<1>2. UNCHANGED <<handle, aborted>> /\ ~aborted
  BY DEF Completed
<1>3. PICK o \in Peers : o = Other(p) /\ p = Other(o) /\ \A q \in Peers : q = p \/ q = o
  BY TwoPeers
<1>4. SameSets(p, n) /\ SameSets(o, n)
  BY <1>1, <1>3 DEF ResponseTaken, SameSets
<1>5. \A q, types : types \subseteq Types => Using(q, n, types)' = Using(q, n, types) \ {t}
  BY <1>1 DEF CallCompleted
<1>6. ASSUME NEW q \in Peers PROVE Direction(q, n)'
  <2>1. Direction(q, n) /\ Other(q) \in Peers
    BY TwoPeers DEF Careful
  <2>2. /\ SameSets(q, n) /\ Requests(Other(q), "RELEASE", n)' = Requests(Other(q), "RELEASE", n)
        /\ Arriving(q, n)' = Arriving(q, n)
    BY <1>3, <1>4, <2>1 DEF SameSets
  <2>3. Credit(q, n)' /\ Agreed(q, n)'
    BY <1>1, <2>1, <2>2, CreditKept, AgreedKept DEF Direction, CallCompleted
  <2>4. Alone(q, n)'
    BY <1>1, <2>1, AloneKept DEF Direction, CallCompleted
  <2>5. \A u \in Using(q, n, Types)' : event'[u] = event[u]
    <3>1. Using(q, n, Types)' \subseteq Threads \ {t}
      BY <1>5 DEF Using
    <3>. QED
      BY <1>1, <3>1 DEF CallCompleted
  <2>6. IsOpen(q, n) => IsOpen(q, n)'
    BY DEF IsOpen
  <2>7. Fitting(q, n)'
    BY <1>1, <1>2, <2>1, <2>5, <2>6, FittingKept DEF Direction, CallCompleted
  <2>. QED
    BY <2>3, <2>4, <2>7 DEF Direction
<1>7. \A q \in Peers \ FirstOpeners, k \in Names : Second(q, k)'
  <2>1. \A q \in Peers, k \in Names : Using(q, k, {"CREATE"})' \subseteq Using(q, k, {"CREATE"})
    BY <1>1, <1>5 DEF CallCompleted, SameCalls, Types
  <2>2. \A q \in Peers : \A k : Ahead(Way(q), k) => Ahead(Way(q), k)'
    BY <1>1 DEF ResponseTaken, Is
  <2>. QED
    BY <2>1, <2>2, SecondStays
<1>8. \A k \in Names \ {n} : SameEntries(k) /\ SameMessagesOf(k) /\ SameCalls(k) /\ SameHandles(k)
  BY <1>1, <1>2 DEF SameEntries, SameHandles, ResponseTaken, CallCompleted
<1>. QED
  BY <1>1, <1>2, <1>6, <1>7, <1>8, CarefulKept

\* The response to a close: the stream can no longer be written, and is freed when it
\* cannot be read either.
LEMMA CloseResponseCareful ==
    ASSUME OneOpener, Typed, Typed', OneEach, OneEach', Careful, NEW p \in Peers, NEW n \in Names, NEW h, NEW t,
           Completed(p, n, h, t), h.type = "CLOSE", UNCHANGED next,
           IF Exists(p, h.id)
             THEN stream' = [stream EXCEPT ![p][getStreamById(p, h.id)] = ClosedHere(@)]
             ELSE UNCHANGED stream
    PROVE  Careful'
<1>1. CallOf(p, n, h, t) /\ CallCompleted(n, h, t) /\ ResponseTaken(p, n, h) /\ MessagesFit'
  BY CompletedCall, CompletedMoves
<1>2. UNCHANGED <<handle, aborted>> /\ ~aborted /\ h.thread = t
  BY DEF Completed
<1>3. PICK o \in Peers : o = Other(p) /\ p = Other(o) /\ o # p /\ \A q \in Peers : q = p \/ q = o
  BY TwoPeers
<1>4. Direction(p, n) /\ Direction(o, n)
  BY DEF Careful
<1>5. h \in Answers(p, "CLOSE", n)
  BY <1>1 DEF ResponseTaken
<1>6. stream[p][n].writeSize # 0 /\ stream[o][n].readSize = 0 /\ h.id = stream[p][n].id
  BY <1>3, <1>4, <1>5 DEF Direction, Agreed
<1>7. /\ Using(p, n, Types) = {t} /\ Using(p, n, {"CREATE"}) = {} /\ Using(o, n, {"CREATE"}) = {}
      /\ Answers(p, "CREATE", n) = {} /\ Answers(p, "CLOSE", n) = {h} /\ Requests(p, "CLOSE", n) = {}
      /\ t \in Using(p, n, {"CLOSE"})
  <2>1. /\ \A k \in Requests(p, "CLOSE", n) \cup Answers(p, "CLOSE", n) : k = h
        /\ Using(p, n, Types) = {h.thread} /\ Using(p, n, {"CREATE"}) = {}
        /\ Answers(p, "CREATE", n) = {} /\ Using(o, n, {"CREATE"}) = {}
    BY <1>3, <1>4, <1>5, OneToClose DEF Direction, Careful
  <2>2. h \notin Requests(p, "CLOSE", n)
    BY <1>5 DEF Requests, Answers, Is
  <2>3. t \in Using(p, n, {"CLOSE"})
    BY <1>1 DEF CallOf
  <2>. QED
    BY <1>2, <1>5, <2>1, <2>2, <2>3
<1>8. stream[p][n].id # None /\ WithId(p, h.id) = {n} /\ Exists(p, h.id) /\ getStreamById(p, h.id) = n
  BY <1>4, <1>6, FoundById DEF Direction, Agreed
<1>9. PICK s, e : s \in Entries(app.sizes) /\ s = stream[p][n] /\ e = ClosedHere(s)
  BY EntryAt
<1>10. stream' = [stream EXCEPT ![p][n] = e]
  BY <1>8, <1>9
<1>11. /\ e.id = IF s.readSize = 0 THEN None ELSE s.id
       /\ e.writeSize = 0 /\ e.readSize = s.readSize
       /\ e.remoteFill = s.remoteFill /\ e.localFill = s.localFill
       /\ e.unread = s.unread /\ e.held = s.held
  BY <1>9 DEF ClosedHere, Freed, Entries
<1>12. /\ stream'[p][n] = e
       /\ \A q \in Peers, k \in Names : q # p \/ k # n => stream'[q][k] = stream[q][k]
  BY <1>10 DEF Typed
<1>13. stream'[o][n] = stream[o][n]
  BY <1>3, <1>12
<1>14. /\ s.remoteFill = 0 /\ Arriving(p, n) = {} /\ Requests(o, "RELEASE", n) = {}
       /\ Releasing(o, n) = {}
  BY <1>3, <1>4, <1>6, <1>9, Charged DEF Direction, Credit
<1>15. /\ Requests(p, "CLOSE", n)' = {} /\ Requests(p, "RELEASE", n)' = Requests(p, "RELEASE", n)
       /\ Answers(p, "CREATE", n)' = {} /\ Answers(p, "CLOSE", n)' = {} /\ Arriving(p, n)' = {}
       /\ SameSets(o, n) /\ Requests(o, "RELEASE", n)' = {}
  BY <1>1, <1>3, <1>7, <1>14 DEF ResponseTaken, SameSets
<1>16. /\ \A q, types : types \subseteq Types => Using(q, n, types)' = Using(q, n, types) \ {t}
       /\ \A q, k : Releasing(q, k)' = Releasing(q, k)
       /\ \A u \in Threads \ {t} : event'[u] = event[u]
       /\ FewerCalls(n)
  BY <1>1 DEF CallCompleted
<1>17. Using(p, n, Types)' = {} /\ Releasing(p, n)' = {} /\ Releasing(p, n) = {}
  <2>1. Using(p, n, Types)' = {}
    BY <1>7, <1>16
  <2>2. Releasing(p, n)' \subseteq Using(p, n, Types)'
    BY DEF Releasing, Using, Types
  <2>. QED
    BY <1>16, <2>1, <2>2
<1>18. Credit(p, n)'
  <2>1. /\ stream'[p][n].remoteFill = 0 /\ stream[p][n].remoteFill = 0
    BY <1>9, <1>11, <1>12, <1>14
  <2>2. /\ Arriving(p, n)' = Arriving(p, n) /\ Requests(o, "RELEASE", n)' = Requests(o, "RELEASE", n)
        /\ Releasing(o, n)' = Releasing(o, n)
    BY <1>14, <1>15, <1>16
  <2>. QED
    BY <1>3, <1>4, <1>13, <2>1, <2>2 DEF Direction, Credit
<1>19. Credit(o, n)'
  <2>1. /\ stream'[p][n].unread = stream[p][n].unread /\ stream'[p][n].held = stream[p][n].held
        /\ stream'[p][n].localFill = stream[p][n].localFill
        /\ stream'[p][n].readSize = stream[p][n].readSize
    BY <1>9, <1>11, <1>12
  <2>2. /\ Arriving(o, n)' = Arriving(o, n) /\ Requests(p, "RELEASE", n)' = Requests(p, "RELEASE", n)
        /\ Releasing(p, n)' = Releasing(p, n)
    BY <1>15, <1>16 DEF SameSets
  <2>. QED
    BY <1>3, <1>4, <1>13, <2>1, <2>2, CreditKept DEF Direction
<1>20. Agreed(p, n)'
  <2>1. Agreed(p, n)
    BY <1>4 DEF Direction
  <2>2. /\ stream'[p][n].writeSize = 0 /\ stream'[p][n].readSize = stream[p][n].readSize
        /\ stream'[p][n].id = IF stream[p][n].readSize = 0 THEN None ELSE stream[p][n].id
    BY <1>9, <1>11, <1>12
  <2>. QED
    BY <1>3, <1>6, <1>8, <1>13, <1>15, <2>1, <2>2 DEF Agreed, IsOpen
<1>21. Agreed(o, n)'
  <2>1. Agreed(o, n)
    BY <1>4 DEF Direction
  <2>2. /\ stream'[p][n].readSize = stream[p][n].readSize
        /\ stream'[p][n].id # None => stream'[p][n].id = stream[p][n].id
    BY <1>9, <1>11, <1>12
  <2>3. stream'[p][n].readSize # 0 => stream'[p][n].id = stream[p][n].id
    BY <1>9, <1>11, <1>12
  <2>4. /\ Requests(o, "CLOSE", n)' = Requests(o, "CLOSE", n)
        /\ Answers(o, "CREATE", n)' = Answers(o, "CREATE", n)
        /\ Answers(o, "CLOSE", n)' = Answers(o, "CLOSE", n) /\ Arriving(o, n)' = Arriving(o, n)
        /\ Requests(p, "RELEASE", n)' = Requests(p, "RELEASE", n)
    BY <1>15 DEF SameSets
  <2>. QED
    BY <1>3, <1>13, <2>1, <2>2, <2>3, <2>4 DEF Agreed, IsOpen
<1>22. Fitting(p, n)'
  <2>1. handle'[p][n] = None
    BY <1>2, <1>4, <1>7 DEF Direction, Fitting
  <2>2. Using(p, n, {"WRITE", "CLOSE"})' \subseteq Using(p, n, Types)'
    BY DEF Using, Types
  <2>. QED
    BY <1>17, <2>1, <2>2 DEF Fitting
<1>23. Fitting(o, n)'
  <2>1. IsOpen(o, n) => IsOpen(o, n)' /\ stream'[o][n].id = stream[o][n].id
    BY <1>3, <1>9, <1>11, <1>12, <1>13 DEF IsOpen
  <2>2. \A u \in Using(o, n, Types)' : event'[u] = event[u]
    <3>1. Using(o, n, Types)' \subseteq Threads \ {t}
      BY <1>16 DEF Using
    <3>. QED
      BY <1>16, <3>1
  <2>3. Releasing(o, n)' = Releasing(o, n) /\ handle'[o][n] = handle[o][n]
    BY <1>2, <1>16
  <2>. QED
    BY <1>4, <1>13, <1>16, <2>1, <2>2, <2>3, FittingKept DEF Direction
<1>24. \A q \in Peers : Direction(q, n)'
  <2>1. Alone(p, n)' /\ Alone(o, n)'
    BY <1>4, <1>16, AloneKept DEF Direction
  <2>. QED
    BY <1>3, <1>18, <1>19, <1>20, <1>21, <1>22, <1>23, <2>1 DEF Direction
<1>25. \A q \in Peers \ FirstOpeners, k \in Names : Second(q, k)'
  <2>1. \A q \in Peers, k \in Names : /\ stream'[q][k].id \in {stream[q][k].id, None}
                                      /\ k # n => stream'[q][k].id = stream[q][k].id
    BY <1>9, <1>11, <1>12
  <2>2. \A q \in Peers : Using(q, n, {"CREATE"})' = {}
    BY <1>3, <1>7, <1>16 DEF Types
  <2>3. \A q \in Peers, k \in Names : Using(q, k, {"CREATE"})' \subseteq Using(q, k, {"CREATE"})
    BY <1>1, <1>16 DEF CallCompleted, SameCalls, Types
  <2>4. \A q \in Peers : \A k : k # n /\ Ahead(Way(q), k) => Ahead(Way(q), k)'
    BY <1>1 DEF ResponseTaken, Is
  <2>. QED
    BY <1>1, <2>1, <2>2, <2>3, <2>4, SecondLeft
<1>26. \A k \in Names \ {n} : SameEntries(k) /\ SameMessagesOf(k) /\ SameCalls(k) /\ SameHandles(k)
  BY <1>1, <1>2, <1>12 DEF SameEntries, SameHandles, ResponseTaken, CallCompleted
<1>. QED
  BY <1>1, <1>2, <1>24, <1>25, <1>26, CarefulKept

\* The ids stay distinct when a peer takes over the id the other one has given.
LEMMA NumberShared ==
    ASSUME NEW p \in Peers, \A k \in Names : Numbered(p, k), next'[p] = next[p],
           \A a \in Peers, k \in Names : \E b \in Peers : stream'[a][k].id = stream[b][k].id
    PROVE  \A k \in Names : Numbered(p, k)'
<1>. SUFFICES ASSUME NEW k \in Names, NEW a \in Peers, stream'[a][k].id # None
              PROVE  /\ stream'[a][k].id < next'[p]
                     /\ \A b \in Peers, m \in Names \ {k} : stream'[b][m].id # stream'[a][k].id
  BY DEF Numbered
<1>1. PICK c \in Peers : stream'[a][k].id = stream[c][k].id
  OBVIOUS
<1>2. stream[c][k].id < next[p] /\ \A b \in Peers, m \in Names \ {k} : stream[b][m].id # stream[c][k].id
  BY <1>1 DEF Numbered
<1>3. ASSUME NEW b \in Peers, NEW m \in Names \ {k} PROVE stream'[b][m].id # stream'[a][k].id
  <2>1. PICK d \in Peers : stream'[b][m].id = stream[d][m].id
    OBVIOUS
  <2>. QED
    BY <1>1, <1>2, <2>1
<1>. QED
  BY <1>1, <1>2, <1>3

\* The response to an open: the stream can be written, with the id of the other peer.
LEMMA CreateResponseCareful ==
    ASSUME OneSize, OneOpener, Typed, OneEach, OneEach', Careful, NEW p \in Peers, NEW n \in Names, NEW h, NEW t,
           Completed(p, n, h, t), h.type = "CREATE", allocateNewStream(p, n, h.size, 0, h.id)
    PROVE  Careful'
<1>1. CallOf(p, n, h, t) /\ CallCompleted(n, h, t) /\ ResponseTaken(p, n, h) /\ MessagesFit'
  BY CompletedCall, CompletedMoves
<1>2. UNCHANGED <<handle, aborted>> /\ ~aborted /\ h \in Packets(app.sizes)
  BY DEF Completed
<1>3. PICK o \in Peers : o = Other(p) /\ p = Other(o) /\ o # p /\ \A q \in Peers : q = p \/ q = o
  BY TwoPeers
<1>4. Direction(p, n) /\ Direction(o, n)
  BY DEF Careful
<1>5. h \in Answers(p, "CREATE", n)
  BY <1>1 DEF ResponseTaken
<1>6. PICK R \in Entries(app.sizes) : R = stream[o][n]
  BY EntryAt
<1>7. R.readSize # 0 /\ h.id = R.id /\ R.id # None
  <2>1. R.readSize # 0 /\ h.id = R.id
    BY <1>3, <1>4, <1>5, <1>6 DEF Direction, Agreed
  <2>2. R.id # None
    BY <1>4, <1>6, <2>1 DEF Direction, Agreed
  <2>. QED
    BY <2>1, <2>2
<1>8. t \in Using(p, n, {"CREATE"}) /\ t \in Threads /\ event[t].at = "pending"
  BY <1>1 DEF CallOf
<1>9. \A q \in Peers : Requests(q, "CLOSE", n) = {} /\ Answers(q, "CLOSE", n) = {}
  BY <1>8, OpenedNotClosed
<1>10. PICK size \in app.sizes : size = h.size
  BY <1>2 DEF Packets
<1>11. size \in app.sizes \cup {0} /\ 0 \in app.sizes \cup {0} /\ size # 0
  BY <1>10, SizesAre
<1>12. PICK s \in Entries(app.sizes) : s = stream[p][n]
  BY EntryAt
<1>13. PICK e : e = Allocated(s, size, 0, R.id)
  OBVIOUS
<1>14. stream' = [stream EXCEPT ![p][n] = e] /\ next' = [next EXCEPT ![p] = NextId(p, n)]
  BY <1>7, <1>10, <1>12, <1>13 DEF allocateNewStream
<1>15. /\ stream'[p][n] = e
       /\ \A q \in Peers, k \in Names : q # p \/ k # n => stream'[q][k] = stream[q][k]
  BY <1>14 DEF Typed
<1>16. stream'[o][n] = R
  BY <1>3, <1>6, <1>15
<1>17. /\ s.writeSize = 0 =>
             /\ s.remoteFill = 0 /\ Requests(o, "RELEASE", n) = {}
             /\ Arriving(p, n) = {} /\ Releasing(o, n) = {}
       /\ s.readSize = 0 => s.localFill = 0 /\ Releasing(p, n) = {}
       /\ s.id = None <=> s.writeSize = 0 /\ s.readSize = 0
  BY <1>3, <1>12, FreeEntry
<1>18. s.id # None => s.id = R.id
  BY <1>3, <1>4, <1>6, <1>7, <1>12 DEF Direction, Agreed
<1>19. /\ e.id = R.id /\ e.writeSize # 0 /\ e.readSize = s.readSize
       /\ e.remoteFill = s.remoteFill /\ e.localFill = s.localFill
       /\ e.unread = s.unread /\ e.held = s.held
  <2>1. s.id = None => s.writeSize = 0 /\ s.readSize = 0 /\ s.remoteFill = 0 /\ s.localFill = 0
    BY <1>17
  <2>2. /\ e.id = IF s.id = None THEN R.id ELSE s.id
        /\ e.writeSize = IF s.writeSize = 0 THEN size ELSE s.writeSize
        /\ e.readSize = IF s.readSize = 0 THEN 0 ELSE s.readSize
        /\ e.remoteFill = s.remoteFill /\ e.localFill = s.localFill
        /\ e.unread = s.unread /\ e.held = s.held
    BY <1>11, <1>13, <2>1, AllocatedFields
  <2>. QED
    BY <1>11, <1>18, <2>2
<1>20. /\ Requests(p, "CLOSE", n)' = {} /\ Requests(p, "RELEASE", n)' = Requests(p, "RELEASE", n)
       /\ Answers(p, "CREATE", n)' \subseteq Answers(p, "CREATE", n) /\ Answers(p, "CLOSE", n)' = {}
       /\ Arriving(p, n)' = Arriving(p, n)
       /\ SameSets(o, n) /\ Requests(o, "RELEASE", n)' = Requests(o, "RELEASE", n)
  BY <1>1, <1>3, <1>9 DEF ResponseTaken, SameSets
<1>21. /\ \A q, types : types \subseteq Types => Using(q, n, types)' = Using(q, n, types)
       /\ \A q, k : Releasing(q, k)' = Releasing(q, k)
       /\ \A u \in Threads \ {t} : event'[u] = event[u]
       /\ FewerCalls(n)
       /\ event'[t].at = "created" /\ event'[t].type = "CREATE"
  BY <1>1 DEF CallCompleted
<1>22. IsOpen(p, n)'
  BY <1>3, <1>7, <1>15, <1>16, <1>19 DEF IsOpen
<1>23. Credit(p, n)'
  <2>1. Credit(p, n)
    BY <1>4 DEF Direction
  <2>2. stream'[p][n].remoteFill = stream[p][n].remoteFill
    BY <1>12, <1>15, <1>19
  <2>3. Arriving(p, n)' = Arriving(p, n) /\ Releasing(o, n)' = Releasing(o, n)
        /\ Requests(o, "RELEASE", n)' = Requests(o, "RELEASE", n)
    BY <1>20, <1>21
  <2>. QED
    BY <1>3, <1>6, <1>16, <1>22, <2>1, <2>2, <2>3 DEF Credit, IsOpen
<1>24. Credit(o, n)'
  <2>1. /\ stream'[p][n].unread = stream[p][n].unread /\ stream'[p][n].held = stream[p][n].held
        /\ stream'[p][n].localFill = stream[p][n].localFill
        /\ stream'[p][n].readSize = stream[p][n].readSize
    BY <1>12, <1>15, <1>19
  <2>2. /\ Arriving(o, n)' = Arriving(o, n) /\ Releasing(p, n)' = Releasing(p, n)
        /\ Requests(p, "RELEASE", n)' = Requests(p, "RELEASE", n)
    BY <1>20, <1>21 DEF SameSets
  <2>. QED
    BY <1>3, <1>4, <1>6, <1>16, <2>1, <2>2, CreditKept DEF Direction
<1>25. Agreed(p, n)'
  <2>1. Agreed(p, n)
    BY <1>4 DEF Direction
  <2>2. /\ stream'[p][n].id = R.id /\ stream'[p][n].writeSize # 0
        /\ (s.id # None => stream[p][n].id = R.id)
    BY <1>12, <1>15, <1>18, <1>19
  <2>3. s.id = None => Requests(o, "RELEASE", n)' = {} /\ Arriving(p, n)' = {}
    BY <1>17, <1>20
  <2>4. \A m \in Requests(o, "RELEASE", n)' : m.id = R.id
    BY <1>3, <1>12, <1>20, <2>1, <2>2, <2>3 DEF Agreed
  <2>5. \A m \in Arriving(p, n)' : m.id = R.id
    BY <1>12, <1>20, <2>1, <2>2, <2>3 DEF Agreed
  <2>6. \A m \in Answers(p, "CREATE", n)' : m.id = R.id
    BY <1>3, <1>6, <1>20, <2>1 DEF Agreed
  <2>. QED
    BY <1>3, <1>7, <1>16, <1>20, <2>2, <2>4, <2>5, <2>6 DEF Agreed
<1>26. Agreed(o, n)'
  <2>1. Agreed(o, n)
    BY <1>4 DEF Direction
  <2>2. /\ stream'[p][n].id = stream[o][n].id /\ stream'[p][n].readSize = stream[p][n].readSize
    BY <1>6, <1>12, <1>15, <1>19
  <2>3. /\ Requests(o, "CLOSE", n)' = {} /\ Answers(o, "CLOSE", n)' = Answers(o, "CLOSE", n)
        /\ Answers(o, "CREATE", n)' = Answers(o, "CREATE", n) /\ Arriving(o, n)' = Arriving(o, n)
        /\ Requests(p, "RELEASE", n)' = Requests(p, "RELEASE", n) /\ Answers(o, "CLOSE", n) = {}
    BY <1>9, <1>20 DEF SameSets
  <2>4. \A m \in Answers(o, "CREATE", n) : stream[p][n].readSize # 0 /\ m.id = stream[o][n].id
    <3>1. \A m \in Answers(o, "CREATE", n) : stream[p][n].readSize # 0 /\ m.id = stream[p][n].id
      BY <1>3, <2>1 DEF Agreed
    <3>2. stream[p][n].readSize # 0 => stream[p][n].id = stream[o][n].id
      BY <1>6, <1>12, <1>17, <1>18
    <3>. QED
      BY <3>1, <3>2
  <2>. QED
    BY <1>3, <1>6, <1>16, <2>1, <2>2, <2>3, <2>4 DEF Agreed
<1>27. Fitting(p, n)'
  <2>1. Fitting(p, n)
    BY <1>4 DEF Direction
  <2>2. stream[p][n].id # None => stream'[p][n].id = stream[p][n].id
    BY <1>12, <1>15, <1>18, <1>19
  <2>3. IsOpen(p, n) => stream[p][n].id # None
    BY <1>12, <1>17 DEF IsOpen
  <2>4. Releasing(p, n) # {} => stream[p][n].id # None
    BY <1>12, <1>17
  <2>5. /\ Using(p, n, {"WRITE", "CLOSE"})' = Using(p, n, {"WRITE", "CLOSE"})
        /\ Using(p, n, Types)' = Using(p, n, Types) /\ Using(p, n, {"CLOSE"})' = Using(p, n, {"CLOSE"})
        /\ Releasing(p, n)' = Releasing(p, n)
    BY <1>21 DEF Types
  <2>6. /\ Using(p, n, {"WRITE", "CLOSE"}) \subseteq Threads \ {t}
        /\ Using(p, n, Types) \subseteq Threads /\ Releasing(p, n) \subseteq Threads \ {t}
    BY <1>8 DEF Using, Releasing
  <2>7. \A u \in Using(p, n, {"WRITE", "CLOSE"})' :
           event'[u].at \in {"queued", "blocked"} => IsOpen(p, n)' /\ event'[u].id = stream'[p][n].id
    BY <1>21, <1>22, <2>1, <2>2, <2>3, <2>5, <2>6 DEF Fitting
  <2>8. \A u \in Using(p, n, Types)' : event'[u].at = "created" => IsOpen(p, n)' /\ event'[u].type = "CREATE"
    BY <1>21, <1>22, <2>1, <2>5, <2>6 DEF Fitting
  <2>9. \A u \in Releasing(p, n)' : event'[u].id = stream'[p][n].id
    BY <1>21, <2>1, <2>2, <2>4, <2>5, <2>6 DEF Fitting
  <2>10. handle'[p][n] # None => /\ IsOpen(p, n)' /\ handle'[p][n] = stream'[p][n].id
                                 /\ Using(p, n, {"CLOSE"})' = {}
    BY <1>2, <1>22, <2>1, <2>2, <2>3, <2>5 DEF Fitting
  <2>. QED
    BY <2>7, <2>8, <2>9, <2>10 DEF Fitting
<1>28. Fitting(o, n)'
  <2>1. IsOpen(o, n) => IsOpen(o, n)'
    BY <1>3, <1>6, <1>12, <1>15, <1>16, <1>19 DEF IsOpen
  <2>2. stream'[o][n].id = stream[o][n].id /\ Releasing(o, n)' = Releasing(o, n) /\ handle'[o][n] = handle[o][n]
    BY <1>2, <1>6, <1>16, <1>21
  <2>3. \A u \in Using(o, n, Types)' : event'[u] = event[u]
    <3>1. Using(o, n, Types)' \subseteq Threads \ {t}
      BY <1>3, <1>8, <1>21 DEF Using
    <3>. QED
      BY <1>21, <3>1
  <2>. QED
    BY <1>4, <1>21, <2>1, <2>2, <2>3, FittingKept DEF Direction
<1>29. \A q \in Peers : Direction(q, n)'
  <2>1. Alone(p, n)' /\ Alone(o, n)'
    BY <1>4, <1>21, AloneKept DEF Direction
  <2>. QED
    BY <1>3, <1>23, <1>24, <1>25, <1>26, <1>27, <1>28, <2>1 DEF Direction
<1>30. ASSUME NEW q \in Peers \ FirstOpeners, NEW k \in Names PROVE Second(q, k)'
  <2>1. \A b \in Names : Second(q, b)
    BY DEF Careful
  <2>2. next'[q] = next[q]
    <3>1. CASE q = p
      <4>1. s.id # None
        BY <1>8, <1>12, <2>1, <3>1 DEF Second, OpensSecond
      <4>. QED
        BY <1>12, <1>14, <3>1, <4>1 DEF NextId, Typed
    <3>2. CASE q # p
      BY <1>14, <3>2 DEF Typed
    <3>. QED
      BY <3>1, <3>2
  <2>3. Numbered(q, k)'
    <3>1. \A a \in Peers, b \in Names : \E c \in Peers : stream'[a][b].id = stream[c][b].id
      BY <1>3, <1>6, <1>15, <1>19
    <3>2. \A b \in Names : Numbered(q, b)
      BY <2>1 DEF Second
    <3>. QED
      BY <2>2, <3>1, <3>2, NumberShared
  <2>4. CASE k = n
    <3>1. \A a \in Peers : stream'[a][n].id # None
      BY <1>3, <1>7, <1>15, <1>16, <1>19
    <3>. QED
      BY <2>3, <2>4, <3>1, TwoPeers DEF Second, OpensSecond
  <2>5. CASE k # n
    <3>1. Using(q, k, {"CREATE"})' = Using(q, k, {"CREATE"})
      BY <1>1, <2>5 DEF CallCompleted, SameCalls, Types
    <3>2. \A a \in Peers : stream'[a][k].id = stream[a][k].id
      BY <1>15, <2>5
    <3>3. Ahead(Way(Other(q)), k) => Ahead(Way(Other(q)), k)'
      <4>1. ~Is(h, "RESP", "CREATE", k)
        BY <2>5 DEF Completed, Is
      <4>. QED
        BY <1>1, <4>1, TwoPeers DEF ResponseTaken
    <3>4. OpensSecond(q, k)'
      BY <2>1, <3>1, <3>2, <3>3, TwoPeers DEF Second, OpensSecond
    <3>. QED
      BY <2>3, <3>4 DEF Second
  <2>. QED
    BY <2>4, <2>5
<1>31. \A k \in Names \ {n} : SameEntries(k) /\ SameMessagesOf(k) /\ SameCalls(k) /\ SameHandles(k)
  BY <1>1, <1>2, <1>15 DEF SameEntries, SameHandles, ResponseTaken, CallCompleted
<1>. QED
  BY <1>1, <1>2, <1>29, <1>30, <1>31, CarefulKept

LEMMA HandleResponseCareful ==
    ASSUME OneSize, OneOpener, Typed, Typed', OneEach, OneEach', Careful, NEW p \in Peers, HandleResponse(p)
    PROVE  Careful'
<1>1. PICK n, h, t : n \in Names /\ Completed(p, n, h, t)
  BY ResponseCompletes
<1>2. h = Remote(p) /\ h.name = n
  BY <1>1 DEF Completed
<1>3. CASE h.type \in {"WRITE", "RELEASE"}
  <2>1. UNCHANGED <<stream, next>>
    BY <1>2, <1>3 DEF HandleResponse
  <2>. QED
    BY <1>1, <1>3, <2>1, PlainResponseCareful
<1>4. CASE h.type = "CREATE"
  <2>1. allocateNewStream(p, n, h.size, 0, h.id)
    BY <1>2, <1>4 DEF HandleResponse
  <2>. QED
    BY <1>1, <1>4, <2>1, CreateResponseCareful
<1>5. CASE h.type = "CLOSE"
  <2>1. /\ UNCHANGED next
        /\ IF Exists(p, h.id)
             THEN stream' = [stream EXCEPT ![p][getStreamById(p, h.id)] = ClosedHere(@)]
             ELSE UNCHANGED stream
    BY <1>2, <1>5 DEF HandleResponse
  <2>. QED
    BY <1>1, <1>5, <2>1, CloseResponseCareful
<1>6. h.type \in {"WRITE", "RELEASE", "CREATE", "CLOSE"}
  BY <1>1 DEF Completed, Packets, Types
<1>. QED
  BY <1>3, <1>4, <1>5, <1>6

-----------------------------------------------------------------------------
(* The numbers of streams                                                   *)

\* The calls that open a stream and whose stream a peer has not allocated yet: they are
\* not dispatched, or a message from which a peer allocates is under way to it (an answer)
\* or to the other peer, which answers it (a request).
Opening == {t \in Threads : event[t].type = "CREATE" /\ event[t].at = "queued"}
Creating(p) ==
    {m \in Under(Other(p)) : m.type = "CREATE"} \cup {m \in Under(p) : IsRequest(m, "CREATE")}
Due(p) == Opening \cup {t \in Threads : \E m \in Creating(p) : m.thread = t}

\* Every number a peer has given out, and every one it will give out for the calls
\* under way, is that of another call.
CountedCalls ==
    \A p \in Peers :
        /\ calls[p] <= app.calls[p]
        /\ next[p] + Cardinality(Due(p)) <= calls[p] + calls[Other(p)]

\* So are the ids of streams, of calls and of messages.
Known == Ids \cup {None}
IdsKnown ==
    /\ \A p \in Peers, n \in Names : stream[p][n].id \in Known /\ handle[p][n] \in Known
    /\ \A t \in Threads : event[t].id \in Known
    /\ \A p \in Peers : \A m \in Under(p) : m.id \in Known

NumbersInv == CountedCalls /\ IdsKnown

\* The calls whose stream is to be allocated are threads, and the ids numbers.
LEMMA DueCounted ==
    ASSUME NEW p \in Peers
    PROVE  Due(p) \subseteq Threads /\ IsFiniteSet(Due(p)) /\ Cardinality(Due(p)) \in Nat
<1>1. Due(p) \subseteq Threads
  BY DEF Due, Opening
<1>2. IsFiniteSet(Due(p))
  BY <1>1, FiniteThreads, FS_Subset
<1>. QED
  BY <1>1, <1>2, FS_CardinalityType

\* The applications' bounds on the calls.
LEMMA CallBounds ==
    ASSUME Typed
    PROVE  /\ app.calls \in [Peers -> Nat]
           /\ \A p \in Peers : Ids = 0..(app.calls[p] + app.calls[Other(p)])
<1>1. app.calls \in [Peers -> Nat]
  BY StreamsAssumption DEF Typed, Uses
<1>2. PICK q \in Peers : q = CHOOSE p \in Peers : TRUE
  <2>1. \E p \in Peers : TRUE
    <3>1. Cardinality(Peers) = 2
      BY StreamsAssumption
    <3>. QED
      BY <3>1, FS_EmptySet
  <2>. QED
    BY <2>1
<1>3. ASSUME NEW p \in Peers PROVE Ids = 0..(app.calls[p] + app.calls[Other(p)])
  <2>1. p = q \/ (p = Other(q) /\ Other(p) = q)
    BY TwoPeers
  <2>2. Ids = 0..(app.calls[q] + app.calls[Other(q)])
    BY <1>2 DEF Ids
  <2>3. app.calls[q] \in Nat /\ app.calls[Other(q)] \in Nat
    BY <1>1, TwoPeers
  <2>. QED
    BY <2>1, <2>2, <2>3
<1>. QED
  BY <1>1, <1>3

\* So the next number is one of them.
LEMMA NextIsKnown ==
    ASSUME Typed, CountedCalls, NEW p \in Peers
    PROVE  next[p] \in Ids
<1>1. /\ next[p] \in Nat /\ Cardinality(Due(p)) \in Nat /\ Other(p) \in Peers
      /\ calls[p] \in Nat /\ calls[Other(p)] \in Nat
  BY DueCounted, TwoPeers DEF Typed
<1>2. /\ app.calls[p] \in Nat /\ app.calls[Other(p)] \in Nat
      /\ Ids = 0..(app.calls[p] + app.calls[Other(p)])
  BY <1>1, CallBounds
<1>3. /\ calls[p] <= app.calls[p] /\ calls[Other(p)] <= app.calls[Other(p)]
      /\ next[p] + Cardinality(Due(p)) <= calls[p] + calls[Other(p)]
  BY <1>1 DEF CountedCalls
<1>. QED
  BY <1>1, <1>2, <1>3

\* A step after which no stream is to be allocated that was not before.
LEMMA CountsKept ==
    ASSUME Typed, Typed', CountedCalls, app' = app, next' = next,
           \A p \in Peers : calls[p] <= calls'[p] /\ calls'[p] <= app.calls[p],
           \A p \in Peers : Due(p)' \subseteq Due(p)
    PROVE  CountedCalls'
<1>. SUFFICES ASSUME NEW p \in Peers
              PROVE  /\ calls'[p] <= app.calls[p]
                     /\ next[p] + Cardinality(Due(p)') <= calls'[p] + calls'[Other(p)]
  BY DEF CountedCalls
<1>1. /\ next[p] \in Nat /\ Other(p) \in Peers
      /\ calls[p] \in Nat /\ calls[Other(p)] \in Nat /\ calls'[p] \in Nat /\ calls'[Other(p)] \in Nat
  BY TwoPeers DEF Typed
<1>2. Cardinality(Due(p)') <= Cardinality(Due(p)) /\ Cardinality(Due(p)') \in Nat /\ Cardinality(Due(p)) \in Nat
  BY DueCounted, FS_Subset, FS_CardinalityType
<1>3. next[p] + Cardinality(Due(p)) <= calls[p] + calls[Other(p)]
  BY DEF CountedCalls
<1>4. calls[p] <= calls'[p] /\ calls[Other(p)] <= calls'[Other(p)] /\ calls'[p] <= app.calls[p]
  BY <1>1
<1>. QED
  BY <1>1, <1>2, <1>3, <1>4

\* Calls and messages of a step: none opens a stream that was not to be allocated.
NoneOpened ==
    /\ Opening' \subseteq Opening
    /\ \A p \in Peers : \A m \in Under(p)' :
          m \in Under(p) \/ (m.type = "CREATE" => m.thread \in Opening)

LEMMA NoneOpenedDue ==
    ASSUME NoneOpened
    PROVE  \A p \in Peers : Due(p)' \subseteq Due(p)
<1>. SUFFICES ASSUME NEW p \in Peers, NEW t \in Due(p)' PROVE t \in Due(p)
  OBVIOUS
<1>1. CASE t \in Opening'
  BY <1>1 DEF NoneOpened, Due
<1>2. CASE t \in Threads /\ \E m \in Creating(p)' : m.thread = t
  <2>1. PICK m \in Creating(p)' : m.thread = t
    BY <1>2
  <2>2. m.type = "CREATE" /\ (m \in Under(Other(p))' \/ (m \in Under(p)' /\ IsRequest(m, "CREATE")))
    BY DEF Creating, IsRequest
  <2>3. m \in Creating(p) \/ t \in Opening
    BY <2>1, <2>2, TwoPeers DEF NoneOpened, Creating
  <2>. QED
    BY <1>2, <2>1, <2>3 DEF Due
<1>. QED
  BY <1>1, <1>2 DEF Due

\* A stream that is allocated is given the next number, or has one; its call is no
\* longer one of those whose stream is to be allocated.
LEMMA CountsGiven ==
    ASSUME Typed, Typed', CountedCalls, app' = app, calls' = calls, NEW p \in Peers,
           next'[p] <= next[p] + 1, next'[Other(p)] = next[Other(p)],
           NEW t \in Due(p), Due(p)' \subseteq Due(p) \ {t}, Due(Other(p))' \subseteq Due(Other(p))
    PROVE  CountedCalls'
<1>1. Other(p) \in Peers /\ Other(Other(p)) = p /\ \A q \in Peers : q = p \/ q = Other(p)
  BY TwoPeers
<1>2. /\ next[p] \in Nat /\ next'[p] \in Nat /\ next[Other(p)] \in Nat
      /\ calls[p] \in Nat /\ calls[Other(p)] \in Nat
  BY <1>1 DEF Typed
<1>3. /\ IsFiniteSet(Due(p)) /\ Cardinality(Due(p)) \in Nat
      /\ IsFiniteSet(Due(Other(p))) /\ Cardinality(Due(Other(p))) \in Nat
  BY <1>1, DueCounted
<1>4. IsFiniteSet(Due(p) \ {t}) /\ Cardinality(Due(p) \ {t}) = Cardinality(Due(p)) - 1
  BY <1>3, FS_RemoveElement
<1>5. /\ Cardinality(Due(p)') <= Cardinality(Due(p)) - 1 /\ Cardinality(Due(p)') \in Nat
  BY <1>4, FS_Subset, FS_CardinalityType
<1>6. /\ Cardinality(Due(Other(p))') <= Cardinality(Due(Other(p)))
      /\ Cardinality(Due(Other(p))') \in Nat
  BY <1>3, FS_Subset, FS_CardinalityType
<1>7. /\ calls[p] <= app.calls[p] /\ calls[Other(p)] <= app.calls[Other(p)]
      /\ next[p] + Cardinality(Due(p)) <= calls[p] + calls[Other(p)]
      /\ next[Other(p)] + Cardinality(Due(Other(p))) <= calls[Other(p)] + calls[p]
  BY <1>1 DEF CountedCalls
<1>8. next'[p] + Cardinality(Due(p)') <= calls[p] + calls[Other(p)]
  BY <1>2, <1>3, <1>5, <1>7
<1>9. next'[Other(p)] + Cardinality(Due(Other(p))') <= calls[Other(p)] + calls[p]
  BY <1>2, <1>3, <1>6, <1>7
<1>. QED
  BY <1>1, <1>7, <1>8, <1>9 DEF CountedCalls

\* Ids are known after a step that makes up none.
LEMMA IdsKept ==
    ASSUME IdsKnown, app' = app,
           \A p \in Peers, n \in Names : stream'[p][n].id \in Known /\ handle'[p][n] \in Known,
           \A t \in Threads : event'[t].id \in Known,
           \A p \in Peers : \A m \in Under(p)' : m \in Under(p) \/ m.id \in Known
    PROVE  IdsKnown'
<1>1. Known' = Known
  BY DEF Known, Ids
<1>. QED
  BY <1>1 DEF IdsKnown

\* The calls of the applications: a new call is counted, and its id is one the peer has.
LEMMA OpenNumbers ==
    ASSUME Typed, Typed', NumbersInv, NEW t \in Threads, NEW n \in Names, XLinkOpenStream(t, n)
    PROVE  NumbersInv'
<1>1. PICK size \in app.sizes : Call(t, "CREATE", n, None, size)
  BY DEF XLinkOpenStream
<1>2. UNCHANGED <<stream, next, handle, wire, rQueue>> /\ app' = app
  BY <1>1 DEF XLinkOpenStream, Call
<1>3. /\ \A u \in Threads \ {t} : event'[u] = event[u]
      /\ event'[t].id = None /\ event'[t].type = "CREATE"
  BY <1>1, CallAdded DEF Types
<1>4. \A p : Under(p)' = Under(p)
  BY <1>2, NothingSent
<1>5. ASSUME NEW p \in Peers PROVE Due(p)' \subseteq Due(p) \cup {t}
  <2>1. Opening' \subseteq Opening \cup {t}
    BY <1>3 DEF Opening
  <2>2. Creating(p)' = Creating(p)
    BY <1>4 DEF Creating
  <2>. QED
    BY <2>1, <2>2 DEF Due
<1>6. /\ calls[t[1]] < app.calls[t[1]] /\ calls' = [calls EXCEPT ![t[1]] = @ + 1]
      /\ t[1] \in Peers
  BY <1>1, PeerOfThread DEF Call
<1>7. CountedCalls'
  <2>. SUFFICES ASSUME NEW p \in Peers
                PROVE  /\ calls'[p] <= app.calls[p]
                       /\ next[p] + Cardinality(Due(p)') <= calls'[p] + calls'[Other(p)]
    BY <1>2 DEF CountedCalls
  <2>1. /\ next[p] \in Nat /\ Other(p) \in Peers /\ p # Other(p) /\ calls[p] \in Nat /\ calls[Other(p)] \in Nat
        /\ app.calls[p] \in Nat /\ app.calls[t[1]] \in Nat
    BY <1>6, TwoPeers, CallBounds DEF Typed
  <2>2. IsFiniteSet(Due(p) \cup {t}) /\ Cardinality(Due(p) \cup {t}) <= Cardinality(Due(p)) + 1
        /\ Cardinality(Due(p) \cup {t}) \in Nat /\ Cardinality(Due(p)) \in Nat
    <3>1. IsFiniteSet(Due(p)) /\ Cardinality(Due(p)) \in Nat
      BY DueCounted
    <3>2. CASE t \in Due(p)
      <4>1. Due(p) \cup {t} = Due(p)
        BY <3>2
      <4>2. IsFiniteSet(Due(p) \cup {t}) /\ Cardinality(Due(p) \cup {t}) = Cardinality(Due(p))
        BY <3>1, <4>1, Zenon
      <4>. QED
        BY <3>1, <4>2
    <3>3. CASE t \notin Due(p)
      <4>1. IsFiniteSet(Due(p) \cup {t}) /\ Cardinality(Due(p) \cup {t}) = Cardinality(Due(p)) + 1
        BY <3>1, <3>3, FS_AddElement
      <4>. QED
        BY <3>1, <4>1
    <3>. QED
      BY <3>2, <3>3
  <2>3. Cardinality(Due(p)') <= Cardinality(Due(p)) + 1 /\ Cardinality(Due(p)') \in Nat
    <3>1. IsFiniteSet(Due(p)') /\ Cardinality(Due(p)') <= Cardinality(Due(p) \cup {t})
      BY <1>5, <2>2, FS_Subset
    <3>2. Cardinality(Due(p)') \in Nat
      BY <3>1, FS_CardinalityType
    <3>. QED
      BY <2>2, <3>1, <3>2
  <2>4. /\ calls[p] <= app.calls[p] /\ next[p] + Cardinality(Due(p)) <= calls[p] + calls[Other(p)]
    BY DEF NumbersInv, CountedCalls
  <2>5. t[1] = p \/ t[1] = Other(p)
    BY <1>6, TwoPeers
  <2>6. /\ calls'[p] <= app.calls[p]
        /\ calls'[p] + calls'[Other(p)] = calls[p] + calls[Other(p)] + 1
    <3>1. CASE t[1] = p
      <4>1. calls'[p] = calls[p] + 1 /\ calls'[Other(p)] = calls[Other(p)]
        BY <1>6, <2>1, <3>1 DEF Typed
      <4>. QED
        BY <1>6, <2>1, <3>1, <4>1
    <3>2. CASE t[1] = Other(p)
      <4>1. calls'[p] = calls[p] /\ calls'[Other(p)] = calls[Other(p)] + 1
        BY <1>6, <2>1, <3>2 DEF Typed
      <4>. QED
        BY <2>1, <2>4, <4>1
    <3>. QED
      BY <2>5, <3>1, <3>2
  <2>. QED
    BY <2>1, <2>2, <2>3, <2>4, <2>6
<1>8. IdsKnown'
  <2>1. \A u \in Threads : event'[u].id \in Known
    BY <1>3 DEF NumbersInv, IdsKnown, Known
  <2>. QED
    BY <1>2, <1>4, <2>1, IdsKept DEF NumbersInv, IdsKnown
<1>. QED
  BY <1>7, <1>8 DEF NumbersInv

\* Calls that open no stream.
LEMMA CallNumbers ==
    ASSUME Typed, Typed', NumbersInv, NEW t \in Threads, NEW type \in Types \ {"CREATE"}, NEW n \in Names,
           NEW id \in Known, NEW size, Call(t, type, n, id, size),
           UNCHANGED <<next, wire, rQueue>>,
           \A p \in Peers, k \in Names : stream'[p][k].id \in Known /\ handle'[p][k] \in Known
    PROVE  NumbersInv'
<1>1. /\ \A u \in Threads \ {t} : event'[u] = event[u]
      /\ event'[t].id = id /\ event'[t].type = type
  BY CallAdded
<1>2. \A p : Under(p)' = Under(p)
  BY NothingSent
<1>3. NoneOpened
  BY <1>1, <1>2 DEF NoneOpened, Opening
<1>4. \A p \in Peers : Due(p)' \subseteq Due(p)
  BY <1>3, NoneOpenedDue
<1>5. app' = app
  BY DEF Call
<1>6. ASSUME NEW p \in Peers PROVE calls[p] <= calls'[p] /\ calls'[p] <= app.calls[p]
  <2>1. /\ calls[t[1]] < app.calls[t[1]] /\ calls' = [calls EXCEPT ![t[1]] = @ + 1]
        /\ t[1] \in Peers
    BY PeerOfThread DEF Call
  <2>2. calls \in [Peers -> Nat] /\ app.calls \in [Peers -> Nat] /\ calls[p] <= app.calls[p]
    BY CallBounds DEF NumbersInv, CountedCalls, Typed
  <2>. QED
    BY <2>1, <2>2
<1>7. CountedCalls'
  BY <1>4, <1>5, <1>6, CountsKept DEF NumbersInv
<1>8. IdsKnown'
  BY <1>1, <1>2, <1>5, IdsKept DEF NumbersInv, IdsKnown
<1>. QED
  BY <1>7, <1>8 DEF NumbersInv

\* The calls and what they return.
LEMMA ApplicationNumbers ==
    ASSUME Typed, Typed', NumbersInv, NEW t \in Threads, Application(t)
    PROVE  NumbersInv'
<1>0. /\ \A p \in Peers, n \in Names : stream[p][n].id \in Known /\ handle[p][n] \in Known
      /\ t[1] \in Peers /\ None \in Known
  BY PeerOfThread DEF NumbersInv, IdsKnown, Known
<1>1. ASSUME NEW n \in Names, XLinkWriteData(t, n) PROVE NumbersInv'
  <2>1. PICK id \in Known : id = handle[t[1]][n]
    BY <1>0
  <2>2. Call(t, "WRITE", n, id, 1) /\ UNCHANGED <<stream, next, handle, wire, rQueue>>
    BY <1>1, <2>1 DEF XLinkWriteData
  <2>. QED
    BY <1>0, <2>2, CallNumbers DEF Types
<1>2. ASSUME NEW n \in Names, ReadAndRelease(t, n) PROVE NumbersInv'
  <2>1. PICK id \in Known : id = stream[t[1]][n].id
    BY <1>0
  <2>2. Call(t, "RELEASE", n, id, 1) /\ UNCHANGED <<next, handle, wire, rQueue>>
    BY <1>2, <2>1 DEF ReadAndRelease
  <2>3. stream' = [stream EXCEPT ![t[1]][n] = [stream[t[1]][n] EXCEPT !.unread = @ - 1, !.held = @ + 1]]
    BY <1>2 DEF ReadAndRelease
  <2>4. ASSUME NEW p \in Peers, NEW k \in Names PROVE stream'[p][k].id = stream[p][k].id
    <3>1. stream[t[1]][n] \in Entries(app.sizes)
      BY <1>0, EntryAt
    <3>2. [stream[t[1]][n] EXCEPT !.unread = @ - 1, !.held = @ + 1].id = stream[t[1]][n].id
      BY <3>1 DEF Entries
    <3>. QED
      BY <1>0, <2>3, <3>2 DEF Typed
  <2>. QED
    BY <1>0, <2>2, <2>4, CallNumbers DEF Types
<1>3. ASSUME NEW n \in Names, XLinkCloseStream(t, n) PROVE NumbersInv'
  <2>1. PICK id \in Known : id = handle[t[1]][n]
    BY <1>0
  <2>2. Call(t, "CLOSE", n, id, 0) /\ UNCHANGED <<stream, next, wire, rQueue>>
    BY <1>3, <2>1 DEF XLinkCloseStream
  <2>3. \A p \in Peers, k \in Names : handle'[p][k] \in Known
    BY <1>0, <1>3 DEF XLinkCloseStream, Typed
  <2>. QED
    BY <1>0, <2>2, <2>3, CallNumbers DEF Types
<1>4. CASE OpenReturns(t)
  <2>1. /\ event' = [event EXCEPT ![t] = Idle] /\ event[t].at = "created"
        /\ UNCHANGED <<stream, next, wire, rQueue, calls, app>>
        /\ handle' = [handle EXCEPT ![t[1]][event[t].name] = stream[t[1]][event[t].name].id]
    BY <1>4 DEF OpenReturns
  <2>2. event[t].name \in Names
    BY <2>1, Underway DEF Idle
  <2>3. \A p \in Peers, k \in Names : handle'[p][k] \in Known
    BY <1>0, <2>1, <2>2 DEF Typed
  <2>4. /\ \A u \in Threads \ {t} : event'[u] = event[u]
        /\ event'[t].id = None /\ event'[t].type = "NONE"
    BY <2>1 DEF Typed, Idle
  <2>5. \A p : Under(p)' = Under(p)
    BY <2>1, NothingSent
  <2>6. NoneOpened
    BY <2>4, <2>5 DEF NoneOpened, Opening
  <2>7. \A p \in Peers : calls[p] <= calls[p] /\ calls[p] <= app.calls[p]
    BY DEF Typed, NumbersInv, CountedCalls
  <2>8. CountedCalls'
    BY <2>1, <2>6, <2>7, NoneOpenedDue, CountsKept DEF NumbersInv
  <2>9. IdsKnown'
    <3>1. \A u \in Threads : event'[u].id \in Known
      BY <1>0, <2>4 DEF NumbersInv, IdsKnown
    <3>. QED
      BY <1>0, <2>1, <2>3, <2>5, <3>1, IdsKept DEF NumbersInv, IdsKnown
  <2>. QED
    BY <2>8, <2>9 DEF NumbersInv
<1>. QED
  BY <1>1, <1>2, <1>3, <1>4, OpenNumbers DEF Application

\* What is dispatched and handled without a stream being created: no number is given
\* out, no id made up.
LEMMA PlainNumbers ==
    ASSUME Typed, Typed', NumbersInv, NoneOpened, UNCHANGED <<next, handle, calls, app>>,
           \A p \in Peers, n \in Names : stream'[p][n].id \in {stream[p][n].id, None},
           \A t \in Threads : event'[t].id \in {event[t].id, None},
           \A p \in Peers : \A m \in Under(p)' : m \in Under(p) \/ m.id \in Known
    PROVE  NumbersInv'
<1>1. \A p \in Peers : calls[p] <= calls[p] /\ calls[p] <= app.calls[p]
  BY DEF Typed, NumbersInv, CountedCalls
<1>2. CountedCalls'
  BY <1>1, NoneOpenedDue, CountsKept DEF NumbersInv
<1>3. /\ \A p \in Peers, n \in Names : stream'[p][n].id \in Known /\ handle'[p][n] \in Known
      /\ \A t \in Threads : event'[t].id \in Known
  BY DEF NumbersInv, IdsKnown, Known
<1>4. IdsKnown'
  BY <1>3, IdsKept DEF NumbersInv
<1>. QED
  BY <1>2, <1>4 DEF NumbersInv

\* A request has the id and the type of its call.
LEMMA RequestNumbers ==
    ASSUME Typed, OneEach, NumbersInv, NEW t \in Threads, event[t].at = "queued", SendPending(t),
           rQueue' = rQueue
    PROVE  /\ NoneOpened
           /\ \A u \in Threads : event'[u].id = event[u].id
           /\ \A p \in Peers : \A m \in Under(p)' : m \in Under(p) \/ m.id \in Known
<1>1. event[t] \in Calls(app.sizes) /\ event[t] # Idle
  BY Underway DEF Idle
<1>2. PICK m : m = Request(t)
  OBVIOUS
<1>3. m \in Packets(app.sizes) /\ m.thread = t /\ m.id = event[t].id /\ m.type = event[t].type
  BY <1>1, <1>2 DEF Request, Packets, Calls
<1>4. t[1] \in Peers /\ Sent(t[1], m) /\ ~Waits(m.thread)
  BY <1>2, <1>3, PeerOfThread DEF SendPending, Send, Sent, Waits
<1>5. /\ Under(t[1])' = Under(t[1]) \cup {m} /\ Under(Other(t[1]))' = Under(Other(t[1]))
  BY <1>3, <1>4, SentSets
<1>6. /\ \A u \in Threads \ {t} : event'[u] = event[u]
      /\ event'[t].at = "pending" /\ event'[t].id = event[t].id
  BY <1>1, CallMoved DEF SendPending
<1>7. \A p \in Peers : p = t[1] \/ p = Other(t[1])
  BY <1>4, TwoPeers
<1>8. Opening' \subseteq Opening
  BY <1>6 DEF Opening
<1>9. m.type = "CREATE" => m.thread \in Opening
  BY <1>3 DEF Opening
<1>10. NoneOpened
  BY <1>5, <1>7, <1>8, <1>9 DEF NoneOpened
<1>11. m.id \in Known
  BY <1>3 DEF NumbersInv, IdsKnown
<1>. QED
  BY <1>5, <1>6, <1>7, <1>10, <1>11

\* The ids of the table after a step that leaves it, or changes one entry.
LEMMA SameIds ==
    ASSUME Typed
    PROVE  /\ UNCHANGED stream => \A p \in Peers, n \in Names : stream'[p][n].id \in {stream[p][n].id, None}
           /\ \A q \in Peers, k \in Names : \A e :
                 stream' = [stream EXCEPT ![q][k] = e] /\ e.id \in {stream[q][k].id, None} =>
                     \A p \in Peers, n \in Names : stream'[p][n].id \in {stream[p][n].id, None}
<1>1. ASSUME NEW q \in Peers, NEW k \in Names, NEW e, stream' = [stream EXCEPT ![q][k] = e],
             e.id \in {stream[q][k].id, None}, NEW p \in Peers, NEW n \in Names
      PROVE  stream'[p][n].id \in {stream[p][n].id, None}
  BY <1>1 DEF Typed
<1>. QED
  BY <1>1

\* What a call or a handler does to the id of an entry.
LEMMA EntryIds ==
    ASSUME NEW sizes, NEW s \in Entries(sizes)
    PROVE  /\ Charge(s).id = s.id /\ MarkClosing(s).id = s.id
           /\ ClosedHere(s).id \in {s.id, None}
           /\ \A c : Freed([s EXCEPT !.readSize = 0, !.closing = c]).id \in {s.id, None}
           /\ [s EXCEPT !.held = @ - 1, !.localFill = @ - 1].id = s.id
           /\ [s EXCEPT !.unread = @ + 1, !.localFill = @ + 1].id = s.id
           /\ [s EXCEPT !.remoteFill = @ - 1].id = s.id
<1>1. Charge(s).id = s.id /\ MarkClosing(s).id = s.id
  BY DEF Entries, Charge, MarkClosing
<1>2. \A a : [s EXCEPT !.readSize = 0, !.closing = a].id = s.id
  BY DEF Entries
<1>4. ClosedHere(s).id \in {s.id, None}
  BY DEF ClosedHere, Freed, Entries
<1>5. \A c : Freed([s EXCEPT !.readSize = 0, !.closing = c]).id \in {s.id, None}
  BY <1>2 DEF Freed, Entries
<1>6. /\ [s EXCEPT !.held = @ - 1, !.localFill = @ - 1].id = s.id
      /\ [s EXCEPT !.unread = @ + 1, !.localFill = @ + 1].id = s.id
      /\ [s EXCEPT !.remoteFill = @ - 1].id = s.id
  BY DEF Entries
<1>. QED
  BY <1>1, <1>4, <1>5, <1>6

\* The dispatcher thread with local events,
LEMMA DispatchNumbers ==
    ASSUME Typed, Typed', OneEach, NumbersInv, NEW t \in Threads, Dispatch(t)
    PROVE  NumbersInv'
<1>0. t[1] \in Peers
  BY PeerOfThread
<1>1. ASSUME \E type : Queued(t, type)
      PROVE  /\ event[t].at = "queued" /\ event[t] # Idle
             /\ \A n \in Names : stream[t[1]][n] \in Entries(app.sizes)
  BY <1>0, <1>1, EntryAt DEF Queued, Idle
<1>2. ASSUME UNCHANGED <<wire, rQueue>> PROVE \A p : Under(p)' = Under(p)
  BY <1>2, NothingSent
<1>3. ASSUME \E type : Queued(t, type), Becomes(t, "blocked"), UNCHANGED <<wire, rQueue>>
      PROVE  /\ NoneOpened /\ \A u \in Threads : event'[u].id \in {event[u].id, None}
             /\ \A p \in Peers : \A m \in Under(p)' : m \in Under(p) \/ m.id \in Known
  <2>1. /\ \A u \in Threads \ {t} : event'[u] = event[u]
        /\ event'[t].at = "blocked" /\ event'[t].id = event[t].id
    BY <1>1, <1>3, CallMoved
  <2>2. Opening' \subseteq Opening
    BY <2>1 DEF Opening
  <2>. QED
    BY <1>2, <1>3, <2>1, <2>2 DEF NoneOpened
<1>4. CASE DispatchCreate(t)
  <2>1. /\ Queued(t, "CREATE") /\ SendPending(t)
        /\ UNCHANGED <<stream, next, handle, rQueue, calls, app>>
    BY <1>4 DEF DispatchCreate
  <2>. QED
    BY <1>1, <2>1, RequestNumbers, SameIds, PlainNumbers
<1>5. CASE DispatchWrite(t)
  <2>1. Queued(t, "WRITE") /\ UNCHANGED <<next, handle, rQueue, calls, app>>
    BY <1>5 DEF DispatchWrite
  <2>2. PICK n \in Names :
          \/ event' = [event EXCEPT ![t] = Idle] /\ UNCHANGED <<stream, wire>>
          \/ Becomes(t, "blocked") /\ UNCHANGED <<stream, wire>>
          \/ stream' = [stream EXCEPT ![t[1]][n] = Charge(@)] /\ SendPending(t)
    BY <1>5 DEF DispatchWrite
  <2>3. CASE event' = [event EXCEPT ![t] = Idle] /\ UNCHANGED <<stream, wire>>
    <3>1. /\ \A u \in Threads \ {t} : event'[u] = event[u]
          /\ event'[t].id = None /\ event'[t].type = "NONE"
      BY <2>3 DEF Typed, Idle
    <3>2. NoneOpened
      BY <1>2, <2>1, <2>3, <3>1 DEF NoneOpened, Opening
    <3>. QED
      BY <1>2, <2>1, <2>3, <3>1, <3>2, SameIds, PlainNumbers
  <2>4. CASE Becomes(t, "blocked") /\ UNCHANGED <<stream, wire>>
    BY <1>3, <2>1, <2>4, SameIds, PlainNumbers
  <2>5. CASE stream' = [stream EXCEPT ![t[1]][n] = Charge(@)] /\ SendPending(t)
    <3>1. PICK e : e = Charge(stream[t[1]][n])
      OBVIOUS
    <3>2. stream' = [stream EXCEPT ![t[1]][n] = e] /\ e.id = stream[t[1]][n].id
      BY <1>1, <2>1, <2>5, <3>1, EntryIds
    <3>3. \A p \in Peers, k \in Names : stream'[p][k].id \in {stream[p][k].id, None}
      BY <1>0, <3>2, SameIds
    <3>. QED
      BY <1>1, <2>1, <2>5, <3>3, RequestNumbers, PlainNumbers
  <2>. QED
    BY <2>2, <2>3, <2>4, <2>5
<1>6. CASE DispatchRelease(t)
  <2>1. Queued(t, "RELEASE") /\ UNCHANGED <<next, handle, rQueue, calls, app>> /\ SendPending(t)
    BY <1>6 DEF DispatchRelease
  <2>2. PICK n \in Names :
          stream' = [stream EXCEPT ![t[1]][n] =
              IF stream[t[1]][n].held = 0 THEN stream[t[1]][n]
              ELSE [stream[t[1]][n] EXCEPT !.held = @ - 1, !.localFill = @ - 1]]
    BY <1>6 DEF DispatchRelease
  <2>3. PICK e : e = IF stream[t[1]][n].held = 0 THEN stream[t[1]][n]
                     ELSE [stream[t[1]][n] EXCEPT !.held = @ - 1, !.localFill = @ - 1]
    OBVIOUS
  <2>4. stream' = [stream EXCEPT ![t[1]][n] = e] /\ e.id = stream[t[1]][n].id
    BY <1>1, <2>1, <2>2, <2>3, EntryIds
  <2>5. \A p \in Peers, k \in Names : stream'[p][k].id \in {stream[p][k].id, None}
    BY <1>0, <2>4, SameIds
  <2>. QED
    BY <1>1, <2>1, <2>5, RequestNumbers, PlainNumbers
<1>7. CASE DispatchClose(t)
  <2>1. Queued(t, "CLOSE") /\ UNCHANGED <<next, handle, rQueue, calls, app>>
    BY <1>7 DEF DispatchClose
  <2>2. PICK n \in Names :
          \/ /\ stream' = [stream EXCEPT ![t[1]][n] = MarkClosing(@)]
             /\ Becomes(t, "blocked") /\ UNCHANGED wire
          \/ SendPending(t) /\ UNCHANGED stream
    BY <1>7 DEF DispatchClose
  <2>3. CASE stream' = [stream EXCEPT ![t[1]][n] = MarkClosing(@)] /\ Becomes(t, "blocked") /\ UNCHANGED wire
    <3>1. PICK e : e = MarkClosing(stream[t[1]][n])
      OBVIOUS
    <3>2. stream' = [stream EXCEPT ![t[1]][n] = e] /\ e.id = stream[t[1]][n].id
      BY <1>1, <2>1, <2>3, <3>1, EntryIds
    <3>3. \A p \in Peers, k \in Names : stream'[p][k].id \in {stream[p][k].id, None}
      BY <1>0, <3>2, SameIds
    <3>. QED
      BY <1>3, <2>1, <2>3, <3>3, PlainNumbers
  <2>4. CASE SendPending(t) /\ UNCHANGED stream
    BY <1>1, <2>1, <2>4, RequestNumbers, SameIds, PlainNumbers
  <2>. QED
    BY <2>2, <2>3, <2>4
<1>8. CASE DispatchAborts(t)
  <2>1. UNCHANGED <<stream, next, handle, wire, rQueue, event, calls, app>>
    BY <1>8 DEF DispatchAborts
  <2>2. NoneOpened
    BY <1>2, <2>1 DEF NoneOpened, Opening
  <2>. QED
    BY <1>2, <2>1, <2>2, SameIds, PlainNumbers
<1>. QED
  BY <1>4, <1>5, <1>6, <1>7, <1>8 DEF Dispatch

\* An answer with the id of a stream, sent where the request came from, for the call
\* that made the request.
AnswersWith(p, m, id) ==
    /\ Under(p)' = Under(p) \cup {m}
    /\ Under(Other(p))' = Under(Other(p)) \ {Remote(p)} /\ Remote(p) \in Under(Other(p))
    /\ m.kind = "RESP" /\ m.type = Remote(p).type
    /\ m.thread = Remote(p).thread /\ m.id = id

LEMMA AnswerNumbers ==
    ASSUME Typed, OneEach, OneEach', NEW p \in Peers, rQueue[p] # <<>>,
           rQueue' = [rQueue EXCEPT ![p] = Tail(@)],
           NEW id \in Numbers, NEW ack \in BOOLEAN, Send(p, Response(p, id, ack)), Remote(p).kind = "REQ"
    PROVE  \E m : AnswersWith(p, m, id)
<1>1. PICK h, m : AnswerOf(p, Remote(p).name, h, m) /\ m.id = id
  BY AnswerMade
<1>2. /\ h = Remote(p) /\ m.kind = "RESP" /\ m.type = h.type /\ m.thread = h.thread
      /\ m \in Packets(app.sizes) /\ Answered(p, m) /\ h = Head(rQueue[p])
  BY <1>1 DEF AnswerOf, Remote
<1>3. /\ Under(p)' = Under(p) \cup {m} /\ h \in Under(Other(p))
      /\ Under(Other(p))' = Under(Other(p)) \ {h}
  BY <1>2, AnsweredSets
<1>. QED
  BY <1>1, <1>2, <1>3 DEF AnswersWith

\* the reader thread, and the dispatcher thread with what is no open,
LEMMA PlainAnswerNumbers ==
    ASSUME Typed, Typed', OneEach, OneEach', NumbersInv, NEW p \in Peers, rQueue[p] # <<>>,
           rQueue' = [rQueue EXCEPT ![p] = Tail(@)],
           NEW ack \in BOOLEAN, Send(p, Response(p, Remote(p).id, ack)),
           Remote(p).kind = "REQ", Remote(p).type # "CREATE",
           UNCHANGED <<next, handle, calls, app>>,
           \A q \in Peers, n \in Names : stream'[q][n].id \in {stream[q][n].id, None},
           Opening' \subseteq Opening, \A t \in Threads : event'[t].id \in {event[t].id, None}
    PROVE  NumbersInv'
<1>1. PICK id \in Numbers : id = Remote(p).id
  BY HeadOfQueue DEF Packets
<1>2. PICK m : /\ Under(p)' = Under(p) \cup {m}
               /\ Under(Other(p))' = Under(Other(p)) \ {Remote(p)}
               /\ Remote(p) \in Under(Other(p))
               /\ m.type = Remote(p).type /\ m.id = Remote(p).id
  <2>1. Send(p, Response(p, id, ack))
    BY <1>1
  <2>2. PICK m : AnswersWith(p, m, id)
    BY <2>1, AnswerNumbers
  <2>. QED
    BY <1>1, <2>2 DEF AnswersWith
<1>3. Remote(p).id \in Known
  BY <1>2, TwoPeers DEF NumbersInv, IdsKnown
<1>4. \A q \in Peers : q = p \/ q = Other(p)
  BY TwoPeers
<1>5. NoneOpened
  BY <1>2, <1>4 DEF NoneOpened
<1>. QED
  BY <1>2, <1>3, <1>4, <1>5, PlainNumbers

LEMMA IncomingNumbers ==
    ASSUME Typed, Typed', OneEach', NumbersInv, NEW p \in Peers, handleIncomingEvent(p)
    PROVE  NumbersInv'
<1>1. UNCHANGED <<next, handle, event, calls, app>> /\ Received(p)
  BY DEF handleIncomingEvent, Received, Incoming
<1>2. \A q \in Peers : Under(q)' = Under(q)
  BY <1>1, ReceivedSets, TwoPeers
<1>3. \A q \in Peers, n \in Names : stream'[q][n].id \in {stream[q][n].id, None}
  <2>1. CASE UNCHANGED stream
    BY <2>1, SameIds
  <2>2. ASSUME NEW n \in WithId(p, Incoming(p).id),
               stream' = [stream EXCEPT ![p][n].unread = @ + 1, ![p][n].localFill = @ + 1]
        PROVE  \A q \in Peers, k \in Names : stream'[q][k].id \in {stream[q][k].id, None}
    <3>1. n \in Names
      BY DEF WithId
    <3>2. PICK s \in Entries(app.sizes) : s = stream[p][n]
      BY <3>1, EntryAt
    <3>3. PICK e : e = [s EXCEPT !.unread = @ + 1, !.localFill = @ + 1]
      OBVIOUS
    <3>4. stream' = [stream EXCEPT ![p][n] = e] /\ e.id = stream[p][n].id
      BY <2>2, <3>2, <3>3, EntryIds
    <3>. QED
      BY <3>1, <3>4, SameIds
  <2>. QED
    BY <2>1, <2>2 DEF handleIncomingEvent
<1>4. NoneOpened
  BY <1>1, <1>2 DEF NoneOpened, Opening
<1>. QED
  BY <1>1, <1>2, <1>3, <1>4, PlainNumbers

LEMMA HandleWriteNumbers ==
    ASSUME Typed, Typed', OneEach, OneEach', NumbersInv, NEW p \in Peers, HandleWrite(p)
    PROVE  NumbersInv'
<1>1. /\ rQueue[p] # <<>> /\ rQueue' = [rQueue EXCEPT ![p] = Tail(@)]
      /\ Send(p, Response(p, Remote(p).id, TRUE))
      /\ Remote(p).kind = "REQ" /\ Remote(p).type # "CREATE"
      /\ UNCHANGED <<stream, next, handle, event, calls, app>>
  BY DEF HandleWrite, Handle, IsRequest, Respond
<1>2. Opening' = Opening /\ \A t \in Threads : event'[t].id = event[t].id
  BY <1>1 DEF Opening
<1>. QED
  BY <1>1, <1>2, SameIds, PlainAnswerNumbers

LEMMA HandleReleaseNumbers ==
    ASSUME Typed, Typed', OneEach, OneEach', NumbersInv, NEW p \in Peers, HandleRelease(p)
    PROVE  NumbersInv'
<1>1. /\ rQueue[p] # <<>> /\ rQueue' = [rQueue EXCEPT ![p] = Tail(@)]
      /\ Send(p, Response(p, Remote(p).id, TRUE))
      /\ Remote(p).kind = "REQ" /\ Remote(p).type # "CREATE"
      /\ UNCHANGED <<next, handle, calls, app>>
  BY DEF HandleRelease, Handle, IsRequest, Respond
<1>2. PICK n \in WithId(p, Remote(p).id) :
        /\ stream' = [stream EXCEPT ![p][n].remoteFill = @ - 1]
        /\ \E writes \in Unblocked(p, "WRITE", Remote(p).id) :
           \E closes \in IF stream[p][n].closing /\ stream[p][n].localFill = 0
                         THEN Unblocked(p, "CLOSE", Remote(p).id) ELSE {{}} :
              event' = [t \in Threads |-> IF t \in writes \cup closes THEN [event[t] EXCEPT !.at = "queued"]
                                                                      ELSE event[t]]
  BY DEF HandleRelease
<1>3. \A q \in Peers, k \in Names : stream'[q][k].id \in {stream[q][k].id, None}
  <2>1. n \in Names
    BY DEF WithId
  <2>2. PICK s \in Entries(app.sizes) : s = stream[p][n]
    BY <2>1, EntryAt
  <2>3. PICK e : e = [s EXCEPT !.remoteFill = @ - 1]
    OBVIOUS
  <2>4. stream' = [stream EXCEPT ![p][n] = e] /\ e.id = stream[p][n].id
    BY <1>2, <2>2, <2>3, EntryIds
  <2>. QED
    BY <2>1, <2>4, SameIds
<1>4. PICK writes \in Unblocked(p, "WRITE", Remote(p).id) :
        \E closes \in Unblocked(p, "CLOSE", Remote(p).id) \cup {{}} :
           event' = [t \in Threads |-> IF t \in writes \cup closes THEN [event[t] EXCEPT !.at = "queued"]
                                                                   ELSE event[t]]
  BY <1>2
<1>5. PICK closes \in Unblocked(p, "CLOSE", Remote(p).id) \cup {{}} :
           event' = [t \in Threads |-> IF t \in writes \cup closes THEN [event[t] EXCEPT !.at = "queued"]
                                                                   ELSE event[t]]
  BY <1>4
<1>6. \A t \in writes \cup closes : event[t].type # "CREATE" /\ event[t].at = "blocked" /\ t \in Threads
  BY DEF Unblocked, BlockedEvents
<1>7. ASSUME NEW t \in Threads
      PROVE  event'[t].id = event[t].id /\ event'[t].type = event[t].type
             /\ (t \in writes \cup closes \/ event'[t] = event[t])
  <2>1. CASE t \in writes \cup closes
    <3>1. event[t] \in Calls(app.sizes)
      BY <1>6, <2>1, Underway
    <3>2. event'[t] = [event[t] EXCEPT !.at = "queued"]
      BY <1>5, <2>1
    <3>. QED
      BY <2>1, <3>1, <3>2 DEF Calls
  <2>2. CASE t \notin writes \cup closes
    BY <1>5, <2>2
  <2>. QED
    BY <2>1, <2>2
<1>8. Opening' \subseteq Opening
  BY <1>6, <1>7 DEF Opening
<1>. QED
  BY <1>1, <1>3, <1>7, <1>8, PlainAnswerNumbers

LEMMA HandleCloseNumbers ==
    ASSUME Typed, Typed', OneEach, OneEach', NumbersInv, NEW p \in Peers, HandleClose(p)
    PROVE  NumbersInv'
<1>1. /\ rQueue[p] # <<>> /\ rQueue' = [rQueue EXCEPT ![p] = Tail(@)]
      /\ Remote(p).kind = "REQ" /\ Remote(p).type # "CREATE"
      /\ UNCHANGED <<next, handle, event, calls, app>>
  BY DEF HandleClose, Handle, IsRequest
<1>2. PICK ack \in BOOLEAN : Send(p, Response(p, Remote(p).id, ack))
  BY DEF HandleClose
<1>3. \A q \in Peers, k \in Names : stream'[q][k].id \in {stream[q][k].id, None}
  <2>1. CASE UNCHANGED stream
    BY <2>1, SameIds
  <2>2. CASE ~UNCHANGED stream
    <3>1. PICK n \in WithId(p, Remote(p).id) :
            \/ stream' = [stream EXCEPT ![p][n] = Freed(
                  [stream[p][n] EXCEPT !.readSize = 0,
                        !.closing = IF stream[p][n].readSize # 0 THEN FALSE ELSE @])]
            \/ stream' = [stream EXCEPT ![p][n] = MarkClosing(@)]
      BY <2>2 DEF HandleClose
    <3>2. n \in Names
      BY DEF WithId
    <3>3. PICK s \in Entries(app.sizes) : s = stream[p][n]
      BY <3>2, EntryAt
    <3>4. PICK c : c = IF s.readSize # 0 THEN FALSE ELSE s.closing
      OBVIOUS
    <3>5. \/ stream' = [stream EXCEPT ![p][n] = Freed([s EXCEPT !.readSize = 0, !.closing = c])]
          \/ stream' = [stream EXCEPT ![p][n] = MarkClosing(s)]
      BY <3>1, <3>3, <3>4
    <3>6. PICK e : /\ e \in {Freed([s EXCEPT !.readSize = 0, !.closing = c]), MarkClosing(s)}
                   /\ stream' = [stream EXCEPT ![p][n] = e]
      BY <3>5
    <3>7. e.id \in {stream[p][n].id, None}
      BY <3>3, <3>6, EntryIds
    <3>. QED
      BY <3>2, <3>6, <3>7, SameIds
  <2>. QED
    BY <2>1, <2>2
<1>4. Opening' = Opening /\ \A t \in Threads : event'[t].id = event[t].id
  BY <1>1 DEF Opening
<1>. QED
  BY <1>1, <1>2, <1>3, <1>4, PlainAnswerNumbers

\* with a stream that is created here, which has the next number or the one it had,
LEMMA AllocatedNumbers ==
    ASSUME Typed, NumbersInv, NEW p \in Peers, NEW n \in Names, NEW w, NEW r, NEW id \in Known,
           allocateNewStream(p, n, w, r, id)
    PROVE  /\ \A q \in Peers, k \in Names : stream'[q][k].id \in Known
           /\ next'[p] <= next[p] + 1 /\ next'[Other(p)] = next[Other(p)]
           /\ AllocatedId(p, n, w, r) \in Known
<1>1. next[p] \in Known /\ next[p] \in Nat /\ next \in [Peers -> Nat]
  BY NextIsKnown DEF NumbersInv, Known, Typed
<1>2. PICK s \in Entries(app.sizes) : s = stream[p][n]
  BY EntryAt
<1>3. PICK given \in Known : given = IF id = None THEN next[p] ELSE id
  BY <1>1
<1>4. PICK e : e = Allocated(s, w, r, given)
  OBVIOUS
<1>5. s.id \in Known
  BY <1>2 DEF NumbersInv, IdsKnown
<1>6. e.id \in Known
  <2>1. CASE s.id = None
    <3>1. e = [s EXCEPT !.id = given, !.writeSize = w, !.readSize = r,
                        !.remoteFill = 0, !.localFill = 0, !.closing = FALSE]
      BY <1>4, <2>1 DEF Allocated
    <3>. QED
      BY <3>1 DEF Entries
  <2>2. CASE s.id # None
    <3>1. e.id = s.id
      BY <1>4, <2>2 DEF Allocated, Entries
    <3>. QED
      BY <1>5, <3>1
  <2>. QED
    BY <2>1, <2>2
<1>7. stream' = [stream EXCEPT ![p][n] = e] /\ next' = [next EXCEPT ![p] = NextId(p, n)]
  BY <1>2, <1>3, <1>4 DEF allocateNewStream
<1>8. \A q \in Peers, k \in Names : stream'[q][k].id \in Known
  BY <1>6, <1>7 DEF Typed, NumbersInv, IdsKnown
<1>9. next'[p] <= next[p] + 1 /\ next'[Other(p)] = next[Other(p)]
  BY <1>1, <1>7, TwoPeers DEF NextId
<1>10. AllocatedId(p, n, w, r) \in Known
  BY <1>1, <1>2, <1>5 DEF AllocatedId, Known
<1>. QED
  BY <1>8, <1>9, <1>10

LEMMA HandleCreateNumbers ==
    ASSUME Typed, Typed', OneEach, OneEach', NumbersInv, NEW p \in Peers, HandleCreate(p)
    PROVE  NumbersInv'
<1>1. /\ rQueue[p] # <<>> /\ rQueue' = [rQueue EXCEPT ![p] = Tail(@)]
      /\ Remote(p).kind = "REQ" /\ Remote(p).type = "CREATE"
      /\ UNCHANGED <<handle, event, calls, app>>
      /\ Send(p, Response(p, AllocatedId(p, Remote(p).name, 0, Remote(p).size), TRUE))
      /\ allocateNewStream(p, Remote(p).name, 0, Remote(p).size, None)
  BY DEF HandleCreate, Handle, IsRequest
<1>2. PICK n \in Names : n = Remote(p).name
  BY <1>1, HeadOfQueue DEF Packets
<1>3. /\ \A q \in Peers, k \in Names : stream'[q][k].id \in Known
      /\ next'[p] <= next[p] + 1 /\ next'[Other(p)] = next[Other(p)]
      /\ AllocatedId(p, n, 0, Remote(p).size) \in Known
  <2>1. None \in Known /\ allocateNewStream(p, n, 0, Remote(p).size, None)
    BY <1>1, <1>2 DEF Known
  <2>. QED
    BY <2>1, AllocatedNumbers
<1>4. Known \subseteq Numbers
  BY CallBounds DEF Known, Numbers, Ids
<1>5. PICK id \in Numbers : id \in Known /\ id = AllocatedId(p, n, 0, Remote(p).size)
  BY <1>3, <1>4
<1>6. Send(p, Response(p, id, TRUE))
  BY <1>1, <1>2, <1>5
<1>7. PICK h : h = Remote(p)
  OBVIOUS
<1>8. PICK m : /\ Under(p)' = Under(p) \cup {m}
               /\ Under(Other(p))' = Under(Other(p)) \ {h} /\ h \in Under(Other(p))
               /\ m.kind = "RESP" /\ m.type = "CREATE" /\ m.thread = h.thread /\ m.id = id
  <2>1. TRUE \in BOOLEAN
    OBVIOUS
  <2>2. PICK m : AnswersWith(p, m, id)
    BY <1>1, <1>6, <2>1, AnswerNumbers
  <2>. QED
    BY <1>1, <1>7, <2>2 DEF AnswersWith
<1>9. PICK t \in Threads : t = h.thread /\ Waits(t)
  <2>1. h \in Packets(app.sizes)
    BY <1>1, <1>7, HeadOfQueue
  <2>2. Waits(h.thread)
    BY <1>8, TwoPeers DEF OneEach, Under
  <2>. QED
    BY <2>1, <2>2 DEF Packets
<1>10. /\ Other(p) \in Peers /\ Other(Other(p)) = p
       /\ \A q \in Peers : q = p \/ q = Other(p)
  BY TwoPeers
<1>11. Opening' = Opening /\ t \notin Opening
  BY <1>1, <1>9 DEF Opening, Waits
<1>12. h \in Creating(p) /\ h \in Creating(Other(p))
  BY <1>1, <1>7, <1>8, <1>10 DEF Creating, IsRequest
<1>13. ASSUME NEW k \in Creating(p)' PROVE k \in Creating(p) /\ k.thread # t
  <2>1. m \in Under(p)'
    BY <1>8
  <2>2. CASE k \in Under(Other(p))'
    <3>1. k \in Under(Other(p)) /\ k # h /\ k.type = "CREATE"
      BY <1>8, <2>2 DEF Creating, IsRequest
    <3>2. k.thread # h.thread
      BY <1>8, <1>10, <3>1, OneEachUnder
    <3>. QED
      BY <1>9, <3>1, <3>2 DEF Creating
  <2>3. CASE k \in Under(p)' /\ IsRequest(k, "CREATE")
    <3>1. k # m /\ k \in Under(p)
      BY <1>8, <2>3 DEF IsRequest
    <3>2. k.thread = m.thread => k = m
      BY <2>1, <2>3, TwoPeers DEF OneEach, Under
    <3>. QED
      BY <1>8, <1>9, <2>3, <3>1, <3>2 DEF Creating
  <2>. QED
    BY <2>2, <2>3 DEF Creating
<1>14. ASSUME NEW k \in Creating(Other(p))' PROVE k \in Creating(Other(p)) \/ k.thread = t
  BY <1>8, <1>9, <1>10 DEF Creating
<1>15. t \in Due(p) /\ Due(p)' \subseteq Due(p) \ {t} /\ Due(Other(p))' \subseteq Due(Other(p))
  <2>1. t \in Due(p) /\ t \in Due(Other(p))
    BY <1>9, <1>12 DEF Due
  <2>2. Due(p)' \subseteq Due(p) \ {t}
    BY <1>11, <1>13 DEF Due
  <2>3. Due(Other(p))' \subseteq Due(Other(p))
    BY <1>11, <1>14, <2>1 DEF Due
  <2>. QED
    BY <2>1, <2>2, <2>3
<1>16. CountedCalls'
  BY <1>1, <1>3, <1>15, CountsGiven DEF NumbersInv
<1>17. IdsKnown'
  <2>1. \A q \in Peers : \A k \in Under(q)' : k \in Under(q) \/ k.id \in Known
    BY <1>5, <1>8, <1>10
  <2>2. /\ \A q \in Peers, k \in Names : handle'[q][k] \in Known
        /\ \A u \in Threads : event'[u].id \in Known
    BY <1>1 DEF NumbersInv, IdsKnown
  <2>. QED
    BY <1>1, <1>3, <2>1, <2>2, IdsKept DEF NumbersInv
<1>. QED
  BY <1>16, <1>17 DEF NumbersInv

\* and with an answer: to the call that opens a stream, which is allocated here too.
LEMMA HandleResponseNumbers ==
    ASSUME Typed, Typed', OneEach, OneEach', NumbersInv, NEW p \in Peers, HandleResponse(p)
    PROVE  NumbersInv'
<1>1. /\ rQueue[p] # <<>> /\ Handled(p) /\ Remote(p).kind = "RESP"
      /\ UNCHANGED <<handle, calls, app>>
  BY DEF HandleResponse, Handled
<1>2. PICK h \in Packets(app.sizes) : h = Remote(p) /\ h = Head(rQueue[p])
  BY <1>1, HeadOfQueue DEF Remote
<1>3. PICK t \in Threads : t = h.thread
  BY DEF Packets
<1>4. event' = [event EXCEPT ![t] =
          IF @.type = "CREATE" THEN [@ EXCEPT !.at = "created"] ELSE Idle]
  BY <1>2, <1>3 DEF HandleResponse
<1>5. /\ \A u \in Threads \ {t} : event'[u] = event[u]
      /\ event'[t].at \in {"created", "idle"} /\ event'[t].id \in {event[t].id, None}
  <2>1. CASE event[t].type = "CREATE"
    <3>1. event[t] \in Calls(app.sizes)
      BY <2>1, Underway
    <3>2. event'[t] = [event[t] EXCEPT !.at = "created"]
      BY <1>4, <2>1 DEF Typed
    <3>. QED
      BY <1>4, <3>1, <3>2 DEF Typed, Calls
  <2>2. CASE event[t].type # "CREATE"
    BY <1>4, <2>2 DEF Typed, Idle
  <2>. QED
    BY <2>1, <2>2
<1>6. ~Waits(t)' /\ t \notin Opening' /\ Opening' \subseteq Opening
  BY <1>5 DEF Waits, Opening
<1>7. /\ Under(p)' = Under(p) /\ h \in Under(Other(p)) /\ Under(Other(p))' = Under(Other(p)) \ {h}
  BY <1>1, <1>2, <1>3, <1>6, HandledSets
<1>8. /\ Other(p) \in Peers /\ Other(Other(p)) = p
      /\ \A q \in Peers : q = p \/ q = Other(p)
  BY TwoPeers
<1>9. \A q \in Peers : Under(q)' \subseteq Under(q)
  BY <1>7, <1>8
<1>10. CASE h.type # "CREATE"
  <2>1. UNCHANGED next
    BY <1>2, <1>10 DEF HandleResponse
  <2>2. \A q \in Peers, k \in Names : stream'[q][k].id \in {stream[q][k].id, None}
    <3>1. CASE UNCHANGED stream
      BY <3>1, SameIds
    <3>2. CASE ~UNCHANGED stream
      <4>1. /\ Exists(p, Remote(p).id)
            /\ LET n == getStreamById(p, Remote(p).id) IN
               stream' = [stream EXCEPT ![p][n] = ClosedHere(@)]
        BY <1>2, <1>10, <3>2 DEF HandleResponse
      <4>2. PICK n \in Names : n = getStreamById(p, Remote(p).id)
        BY <4>1 DEF Exists, getStreamById, WithId
      <4>3. PICK e : e = ClosedHere(stream[p][n])
        OBVIOUS
      <4>4. stream' = [stream EXCEPT ![p][n] = e] /\ e.id \in {stream[p][n].id, None}
        BY <4>1, <4>2, <4>3, EntryAt, EntryIds
      <4>. QED
        BY <4>4, SameIds
    <3>. QED
      BY <3>1, <3>2
  <2>3. NoneOpened
    BY <1>6, <1>9 DEF NoneOpened
  <2>. QED
    BY <1>1, <1>5, <1>9, <2>1, <2>2, <2>3, PlainNumbers
<1>11. CASE h.type = "CREATE"
  <2>1. h.id \in Known
    BY <1>7, <1>8 DEF NumbersInv, IdsKnown
  <2>2. PICK n \in Names : n = h.name
    BY <1>3 DEF Packets
  <2>3. allocateNewStream(p, n, h.size, 0, h.id)
    BY <1>2, <1>11, <2>2 DEF HandleResponse
  <2>4. /\ \A q \in Peers, k \in Names : stream'[q][k].id \in Known
        /\ next'[p] <= next[p] + 1 /\ next'[Other(p)] = next[Other(p)]
    BY <2>1, <2>3, AllocatedNumbers
  <2>5. \A k \in Creating(p)' : k \in Creating(p) /\ k.thread # t
    <3>1. \A q \in Peers : \A k \in Under(q)' : k.thread # t
      BY <1>6, <1>8 DEF OneEach, Under
    <3>. QED
      BY <1>8, <1>9, <3>1 DEF Creating
  <2>6. Creating(Other(p))' \subseteq Creating(Other(p))
    BY <1>8, <1>9 DEF Creating
  <2>7. h \in Creating(p)
    BY <1>7, <1>11 DEF Creating
  <2>8. t \in Due(p) /\ Due(p)' \subseteq Due(p) \ {t} /\ Due(Other(p))' \subseteq Due(Other(p))
    BY <1>3, <1>6, <2>5, <2>6, <2>7 DEF Due
  <2>9. CountedCalls'
    BY <1>1, <2>4, <2>8, CountsGiven DEF NumbersInv
  <2>10. IdsKnown'
    <3>1. /\ \A q \in Peers, k \in Names : handle'[q][k] \in Known
          /\ \A u \in Threads : event'[u].id \in Known
      BY <1>1, <1>5 DEF NumbersInv, IdsKnown, Known
    <3>. QED
      BY <1>1, <1>9, <2>4, <3>1, IdsKept DEF NumbersInv
  <2>. QED
    BY <2>9, <2>10 DEF NumbersInv
<1>. QED
  BY <1>10, <1>11

LEMMA AbortNumbers ==
    ASSUME Typed, Typed', NumbersInv, NEW p \in Peers, IncomingAborts(p) \/ HandleReleaseAborts(p)
    PROVE  NumbersInv'
<1>1. UNCHANGED <<stream, next, handle, wire, event, calls, app>>
  BY DEF IncomingAborts, HandleReleaseAborts
<1>2. \A q \in Peers : In(q)' \subseteq In(q)
  <2>1. rQueue' = rQueue \/ (rQueue[p] # <<>> /\ rQueue' = [rQueue EXCEPT ![p] = Tail(@)])
    BY DEF IncomingAborts, HandleReleaseAborts, Handle
  <2>2. CASE rQueue' = rQueue
    BY <2>2 DEF In
  <2>3. CASE rQueue[p] # <<>> /\ rQueue' = [rQueue EXCEPT ![p] = Tail(@)]
    <3>1. rQueue[p] \in Seq(Packets(app.sizes)) /\ rQueue \in [Peers -> Seq(Packets(app.sizes))]
      BY DEF Typed
    <3>2. Elements(Tail(rQueue[p])) \subseteq Elements(rQueue[p])
      BY <2>3, <3>1, ElementsLeft
    <3>. QED
      BY <2>3, <3>1, <3>2 DEF In
  <2>. QED
    BY <2>1, <2>2, <2>3
<1>3. \A q \in Peers : Under(q)' \subseteq Under(q)
  <2>1. \A q \in Peers : On(q)' = On(q)
    BY <1>1 DEF On
  <2>. QED
    BY <1>2, <2>1, TwoPeers DEF Under
<1>4. NoneOpened
  BY <1>1, <1>3 DEF NoneOpened, Opening
<1>. QED
  BY <1>1, <1>3, <1>4, SameIds, PlainNumbers

\* Every action keeps the counts and the ids,
LEMMA RemoteNumbers ==
    ASSUME Typed, Typed', OneEach, OneEach', NumbersInv, NEW p \in Peers, Remotely(p),
           ~IncomingAborts(p), ~HandleReleaseAborts(p)
    PROVE  NumbersInv'
  BY IncomingNumbers, HandleWriteNumbers, HandleReleaseNumbers, HandleCreateNumbers,
     HandleCloseNumbers, HandleResponseNumbers DEF Remotely

\* a step that does not abort,
LEMMA RemoteStays ==
    ASSUME NEW p \in Peers, Remotely(p), ~IncomingAborts(p), ~HandleReleaseAborts(p)
    PROVE  ~aborted /\ ~aborted'
<1>1. CASE handleIncomingEvent(p)
  BY <1>1 DEF handleIncomingEvent
<1>2. CASE HandleWrite(p) \/ HandleRelease(p)
  BY <1>2 DEF HandleWrite, HandleRelease, Handle
<1>3. CASE HandleCreate(p) \/ HandleClose(p)
  <2>1. Handle(p, "CREATE") \/ Handle(p, "CLOSE")
    BY <1>3, Zenon DEF HandleCreate, HandleClose
  <2>2. UNCHANGED aborted
    BY <1>3, Zenon DEF HandleCreate, HandleClose
  <2>. QED
    BY <2>1, <2>2 DEF Handle
<1>4. CASE HandleResponse(p)
  BY <1>4 DEF HandleResponse, Handle
<1>. QED
  BY <1>1, <1>2, <1>3, <1>4 DEF Remotely

\* there is a peer,
LEMMA SomePeer == Peers # {}
<1>1. IsFiniteSet(Peers) /\ Cardinality(Peers) = 2
  BY StreamsAssumption
<1>. QED
  BY <1>1, FS_EmptySet

\* they hold when the link starts,
LEMMA NumbersInitially ==
    ASSUME Init, Typed
    PROVE  NumbersInv
<1>1. /\ \A p \in Peers : next[p] = 0 /\ calls[p] = 0 /\ wire[p] = <<>> /\ rQueue[p] = <<>>
      /\ \A t \in Threads : event[t].type = "NONE" /\ event[t].id = None
      /\ \A p \in Peers, n \in Names : stream[p][n].id = None /\ handle[p][n] = None
  BY DEF Init, Idle, NoStream
<1>2. \A p \in Peers : Under(p) = {}
  BY <1>1, TwoPeers DEF Under, On, In, Elements
<1>3. \A p \in Peers : Due(p) = {}
  BY <1>1, <1>2, TwoPeers DEF Due, Opening, Creating
<1>4. \A p \in Peers : app.calls[p] \in Nat
  BY CallBounds
<1>5. CountedCalls
  <2>. SUFFICES ASSUME NEW p \in Peers
                PROVE  calls[p] <= app.calls[p] /\ next[p] + Cardinality(Due(p)) <= calls[p] + calls[Other(p)]
    BY DEF CountedCalls
  <2>1. calls[p] = 0 /\ calls[Other(p)] = 0 /\ next[p] = 0 /\ Due(p) = {} /\ app.calls[p] \in Nat
    BY <1>1, <1>3, <1>4, TwoPeers
  <2>2. Cardinality(Due(p)) = 0
    BY <2>1, FS_EmptySet
  <2>. QED
    BY <2>1, <2>2
<1>6. IdsKnown
  BY <1>1, <1>2 DEF IdsKnown, Known
<1>. QED
  BY <1>5, <1>6 DEF NumbersInv

\* and every step keeps them.
LEMMA NumbersInductive ==
    ASSUME IInv, IInv', NumbersInv, [Next]_vars
    PROVE  NumbersInv'
<1>1. Typed /\ Typed'
  BY DEF IInv
<1>2. CASE UNCHANGED vars
  <2>1. UNCHANGED <<stream, next, handle, wire, rQueue, event, calls, app>>
    BY <1>2 DEF vars
  <2>2. \A q \in Peers : Under(q)' = Under(q)
    BY <2>1 DEF Under, On, In
  <2>3. NoneOpened
    BY <2>1, <2>2 DEF NoneOpened, Opening
  <2>. QED
    BY <1>1, <2>1, <2>2, <2>3, SameIds, PlainNumbers
<1>3. ASSUME NEW t \in Threads, Application(t) PROVE NumbersInv'
  BY <1>1, <1>3, ApplicationNumbers
<1>4. ASSUME NEW t \in Threads, Dispatch(t) PROVE NumbersInv'
  <2>1. ~aborted
    BY <1>4 DEF Dispatch, DispatchCreate, DispatchWrite, DispatchRelease, DispatchClose,
                DispatchAborts, Queued
  <2>. QED
    BY <1>1, <1>4, <2>1, OneEachHolds, DispatchNumbers
<1>5. ASSUME NEW p \in Peers, Remotely(p) PROVE NumbersInv'
  <2>1. CASE IncomingAborts(p) \/ HandleReleaseAborts(p)
    BY <1>1, <2>1, AbortNumbers
  <2>2. CASE ~IncomingAborts(p) /\ ~HandleReleaseAborts(p)
    <3>1. ~aborted /\ ~aborted'
      BY <1>5, <2>2, RemoteStays
    <3>2. OneEach /\ OneEach'
      BY <3>1, OneEachHolds, OneEachNext
    <3>. QED
      BY <1>1, <1>5, <2>2, <3>2, RemoteNumbers
  <2>. QED
    BY <2>1, <2>2
<1>. QED
  BY <1>2, <1>3, <1>4, <1>5 DEF Next

\* A link gives out no more ids than its applications have opened streams.
THEOREM IdsAreThoseOfCalls == Spec => []NumbersInv
<1>1. Init => NumbersInv
  BY Initially, NumbersInitially DEF IInv
<1>2. IInv /\ IInv' /\ NumbersInv /\ [Next]_vars => NumbersInv'
  BY NumbersInductive
<1>. QED
  BY <1>1, <1>2, StreamsInvariant, PTL DEF Spec

-----------------------------------------------------------------------------
(* The invariant is kept                                                    *)

LEMMA RemoteAbortsNot ==
    ASSUME OneOpener, Typed, OneEach, Careful, NEW p \in Peers, Remotely(p)
    PROVE  ~aborted' /\ ~IncomingAborts(p) /\ ~HandleReleaseAborts(p)
<1>1. ~IncomingAborts(p)
  BY IncomingFound DEF IncomingAborts
<1>2. ~HandleReleaseAborts(p)
  BY ReleaseDoesNotAbort DEF HandleReleaseAborts, Handle
<1>3. ~aborted
  BY DEF Careful
<1>4. aborted' = aborted
  <2>1. CASE handleIncomingEvent(p)
    BY <2>1 DEF handleIncomingEvent
  <2>2. CASE HandleWrite(p) \/ HandleRelease(p)
    BY <2>2 DEF HandleWrite, HandleRelease
  <2>3. CASE HandleCreate(p) \/ HandleClose(p)
    BY <2>3 DEF HandleCreate, HandleClose
  <2>4. CASE HandleResponse(p)
    BY <2>4 DEF HandleResponse
  <2>. QED
    BY <1>1, <1>2, <2>1, <2>2, <2>3, <2>4 DEF Remotely
<1>. QED
  BY <1>1, <1>2, <1>3, <1>4

LEMMA RemoteCareful ==
    ASSUME OneSize, OneOpener, Typed, Typed', OneEach, OneEach', Careful, NEW p \in Peers, Remotely(p)
    PROVE  Careful'
<1>1. ~IncomingAborts(p) /\ ~HandleReleaseAborts(p)
  BY RemoteAbortsNot
<1>. QED
  BY <1>1, IncomingCareful, HandleWriteCareful, HandleReleaseCareful, HandleCreateCareful,
     HandleCloseCareful, HandleResponseCareful DEF Remotely

LEMMA ApplicationCareful ==
    ASSUME Typed, OneEach, Careful, app.exclusive, NEW t \in Threads, Application(t)
    PROVE  Careful'
  BY OpenStreamCareful, WriteDataCareful, ReadCareful, CloseStreamCareful, OpenReturnsCareful DEF Application

\* The links keep the applications they have.
LEMMA SameApplications == [Next]_vars => app' = app
<1>. SUFFICES ASSUME [Next]_vars PROVE app' = app
  OBVIOUS
<1>1. CASE UNCHANGED vars
  BY <1>1 DEF vars
<1>2. ASSUME NEW t \in Threads, Application(t) PROVE app' = app
  BY <1>2 DEF Application, XLinkOpenStream, XLinkWriteData, ReadAndRelease, XLinkCloseStream, OpenReturns, Call
<1>3. ASSUME NEW t \in Threads, Dispatch(t) PROVE app' = app
  BY <1>3 DEF Dispatch, DispatchCreate, DispatchWrite, DispatchRelease, DispatchClose, DispatchAborts
<1>4. ASSUME NEW p \in Peers, Remotely(p) PROVE app' = app
  BY <1>4 DEF Remotely, handleIncomingEvent, IncomingAborts, HandleWrite, HandleRelease, HandleReleaseAborts,
              HandleCreate, HandleClose, HandleResponse
<1>. QED
  BY <1>1, <1>2, <1>3, <1>4 DEF Next

LEMMA CarefulInitially ==
    ASSUME Init
    PROVE  Careful
<1>1. /\ ~aborted /\ \A p \in Peers : wire[p] = <<>> /\ rQueue[p] = <<>>
      /\ \A t \in Threads : event[t].type = "NONE"
      /\ \A p \in Peers, n \in Names : stream[p][n] = NoStream /\ handle[p][n] = None
  BY DEF Init, Idle
<1>2. \A p \in Peers : On(p) = {} /\ In(p) = {} /\ Under(p) = {} /\ Way(p) = <<>>
  <2>1. Elements(<<>>) = {}
    BY DEF Elements
  <2>2. <<>> \o <<>> = <<>>
    OBVIOUS
  <2>. QED
    BY <1>1, <2>1, <2>2, TwoPeers DEF On, In, Under, Way
<1>3. \A p \in Peers : \A n, types : types \subseteq Types => Using(p, n, types) = {}
  BY <1>1 DEF Using, Types
<1>4. \A p \in Peers : \A n : Releasing(p, n) = {}
  BY <1>3 DEF Releasing, Types
<1>5. \A p \in Peers : \A type, n : Requests(p, type, n) = {} /\ Answers(p, type, n) = {} /\ Arriving(p, n) = {}
  BY <1>2, TwoPeers DEF Requests, Answers, Arriving
<1>6. MessagesFit
  BY <1>2 DEF MessagesFit
<1>7. /\ NoStream.id = None /\ NoStream.writeSize = 0 /\ NoStream.readSize = 0 /\ NoStream.remoteFill = 0
      /\ NoStream.localFill = 0 /\ NoStream.unread = 0 /\ NoStream.held = 0
  BY DEF NoStream
<1>8. ASSUME NEW p \in Peers, NEW n \in Names PROVE Direction(p, n)
  <2>1. Other(p) \in Peers /\ stream[p][n] = NoStream /\ stream[Other(p)][n] = NoStream
    BY <1>1, TwoPeers
  <2>2. Credit(p, n)
    <3>1. Cardinality({}) = 0
      BY FS_EmptySet
    <3>2. /\ Arriving(p, n) = {} /\ Requests(Other(p), "RELEASE", n) = {} /\ Releasing(Other(p), n) = {}
      BY <1>4, <1>5, <2>1
    <3>. QED
      BY <1>7, <2>1, <3>1, <3>2 DEF Credit
  <2>3. Agreed(p, n)
    BY <1>5, <1>7, <2>1 DEF Agreed
  <2>4. Fitting(p, n)
    BY <1>1, <1>3, <1>4 DEF Fitting, Types
  <2>5. Alone(p, n)
    BY <1>3 DEF Alone, Types
  <2>. QED
    BY <2>2, <2>3, <2>4, <2>5 DEF Direction
<1>9. ASSUME NEW p \in Peers, NEW n \in Names PROVE Second(p, n)
  <2>1. Ahead(Way(Other(p)), n)
    BY <1>2, TwoPeers DEF Ahead
  <2>2. OpensSecond(p, n)
    BY <1>3, <2>1 DEF OpensSecond, Types
  <2>3. Numbered(p, n)
    BY <1>1, <1>7 DEF Numbered
  <2>. QED
    BY <2>2, <2>3 DEF Second
<1>. QED
  BY <1>1, <1>6, <1>8, <1>9 DEF Careful

LEMMA CarefulInductive ==
    ASSUME OneSize, OneOpener, IInv, IInv', CarefulInv, [Next]_vars
    PROVE  CarefulInv'
<1>. SUFFICES ASSUME app.exclusive, Careful PROVE Careful'
  BY SameApplications DEF CarefulInv
<1>1. Typed /\ Typed' /\ OneEach /\ ~aborted
  BY OneEachHolds DEF IInv, Careful
<1>2. CASE UNCHANGED vars
  <2>1. UNCHANGED <<stream, next, handle, wire, rQueue, event, aborted>>
    BY <1>2 DEF vars
  <2>2. MessagesFit'
    BY <2>1, NothingSent, MessagesFitKept DEF Careful
  <2>3. /\ \A k : SameCalls(k)
        /\ \A q, k, types : Using(q, k, types)' = Using(q, k, types)
    BY <2>1, CallsUnchanged
  <2>4. \A p \in Peers, n \in Names : Direction(p, n)'
    BY <2>1, <2>3, NothingSent, DirectionKept DEF Careful, SameEntries, SameMessagesOf, SameHandles
  <2>5. \A q \in Peers : \A k : Ahead(Way(q), k) => Ahead(Way(q), k)'
    <3>1. \A q \in Peers : Way(q)' = Way(q)
      BY <2>1, NothingSent
    <3>. QED
      BY <3>1 DEF Ahead
  <2>6. \A q \in Peers \ FirstOpeners, k \in Names : Second(q, k)'
    BY <2>1, <2>3, <2>5, SecondStays
  <2>. QED
    BY <1>1, <2>1, <2>2, <2>4, <2>6 DEF Careful
<1>3. ASSUME NEW t \in Threads, Application(t) PROVE Careful'
  BY <1>1, <1>3, ApplicationCareful
<1>4. ASSUME NEW t \in Threads, Dispatch(t) PROVE Careful'
  BY <1>1, <1>4, DispatchCareful
<1>5. ASSUME NEW p \in Peers, Remotely(p) PROVE Careful'
  <2>1. ~aborted'
    BY <1>1, <1>5, RemoteAbortsNot
  <2>2. OneEach'
    BY <2>1, OneEachNext
  <2>. QED
    BY <1>1, <1>5, <2>2, RemoteCareful
<1>. QED
  BY <1>2, <1>3, <1>4, <1>5 DEF Next

\* What the careful invariant says in every state of a link whose applications open
\* streams with one size, of which one peer alone opens new ones.
THEOREM CarefulInvariant ==
    ASSUME OneSize, OneOpener
    PROVE  Spec => []CarefulInv
<1>1. Init => CarefulInv
  BY CarefulInitially DEF CarefulInv
<1>2. IInv /\ IInv' /\ CarefulInv /\ [Next]_vars => CarefulInv'
  BY CarefulInductive
<1>. QED
  BY <1>1, <1>2, StreamsInvariant, PTL DEF Spec

\* No event ever refers to a stream that its receiver, or its sender when it is
\* dispatched, does not have: ASSERT_X_LINK(stream) ends neither process.
THEOREM NothingAborts ==
    ASSUME OneSize, OneOpener
    PROVE  Spec => []NoAbort
<1>1. CarefulInv => NoAbort
  BY DEF CarefulInv, Careful, NoAbort
<1>. QED
  BY <1>1, CarefulInvariant, PTL

\* When nothing is under way, both peers have the same streams, with the same ids, sizes
\* and packets.
THEOREM PeersAgree ==
    ASSUME OneSize, OneOpener
    PROVE  Spec => []StreamsAgree
<1>1. IInv /\ CarefulInv => StreamsAgree
  <2>. SUFFICES ASSUME Typed, Careful, NEW n \in Names, Quiet(n), NEW p \in Peers, NEW q \in Peers, p # q
                PROVE  /\ stream[p][n].id = stream[q][n].id
                       /\ stream[p][n].writeSize = stream[q][n].readSize
                       /\ stream[p][n].remoteFill = stream[q][n].unread + stream[q][n].held
    BY DEF IInv, CarefulInv, StreamsAgree
  <2>1. q = Other(p) /\ p = Other(q)
    BY TwoPeers
  <2>2. Direction(p, n) /\ Direction(q, n)
    BY DEF Careful
  <2>3. ASSUME NEW a \in Peers PROVE \A m \in Under(a) : m.name # n
    BY TwoPeers DEF Quiet, Under, On, In, Elements
  <2>4. ASSUME NEW a \in Peers
        PROVE  \A type : Requests(a, type, n) = {} /\ Answers(a, type, n) = {} /\ Arriving(a, n) = {}
    BY <2>3, TwoPeers DEF Requests, Answers, Arriving, Is, Under
  <2>5. /\ stream[p][n].writeSize = 0 <=> stream[q][n].readSize = 0
        /\ stream[q][n].writeSize = 0 <=> stream[p][n].readSize = 0
    BY <2>1, <2>2, <2>4 DEF Direction, Agreed
  <2>6. stream[p][n].id = stream[q][n].id
    BY <2>1, <2>2, <2>5 DEF Direction, Agreed
  <2>7. stream[p][n].writeSize = stream[q][n].readSize
    <3>1. stream[p][n].writeSize \in app.sizes \cup {0} /\ stream[q][n].readSize \in app.sizes \cup {0}
      BY EntryAt DEF Entries
    <3>. QED
      BY <2>5, <3>1, SizesAre
  <2>8. stream[p][n].remoteFill = stream[q][n].unread + stream[q][n].held
    <3>1. /\ stream[p][n].remoteFill = Cardinality({}) + stream[q][n].unread + stream[q][n].held + Cardinality({})
      BY <2>1, <2>2, <2>4 DEF Direction, Credit
    <3>2. stream[q][n].unread \in Nat /\ stream[q][n].held \in Nat /\ Cardinality({}) = 0
      BY EntryAt, FS_EmptySet DEF Entries
    <3>. QED
      BY <3>1, <3>2
  <2>. QED
    BY <2>6, <2>7, <2>8
<1>. QED
  BY <1>1, StreamsInvariant, CarefulInvariant, PTL

\* A peer that has let go of a stream has nothing more to read from it, and no packet
\* of it is on its way to the peer.
THEOREM ClosingLosesNothing ==
    ASSUME OneSize, OneOpener
    PROVE  Spec => []ClosedStreamEmpty
<1>1. IInv /\ CarefulInv => ClosedStreamEmpty
  <2>. SUFFICES ASSUME Typed, Careful, NEW p \in Peers, NEW n \in Names, stream[p][n].readSize = 0
                PROVE  /\ stream[p][n].unread = 0 /\ stream[p][n].held = 0
                       /\ \A i \in DOMAIN wire[Other(p)] :
                              ~(IsRequest(wire[Other(p)][i], "WRITE") /\ wire[Other(p)][i].name = n)
    BY DEF IInv, CarefulInv, ClosedStreamEmpty
  <2>1. stream[p][n].unread = 0 /\ stream[p][n].held = 0
    BY FreeEntry
  <2>2. Arriving(Other(p), n) = {}
    <3>1. Other(p) \in Peers /\ Other(Other(p)) = p /\ Direction(Other(p), n)
      BY TwoPeers DEF Careful
    <3>. QED
      BY <3>1, Charged DEF Direction, Credit
  <2>3. \A i \in DOMAIN wire[Other(p)] :
           ~(IsRequest(wire[Other(p)][i], "WRITE") /\ wire[Other(p)][i].name = n)
    BY <2>2 DEF Arriving, On, Elements, Is, IsRequest
  <2>. QED
    BY <2>1, <2>3
<1>. QED
  BY <1>1, StreamsInvariant, CarefulInvariant, PTL

\* The types of the variables: no number is given out beyond those of the calls, and where
\* the applications are careful the fill levels, unsigned in the code, do not wrap and no
\* two streams of a peer have one id.
THEOREM StreamsTyped ==
    ASSUME OneSize, OneOpener
    PROVE  Spec => []TypeOK
<1>1. IInv /\ NumbersInv /\ CarefulInv => TypeOK
  <2>. SUFFICES ASSUME Typed, NumbersInv, CarefulInv PROVE TypeOK
    BY DEF IInv
  <2>1. ASSUME NEW p \in Peers, NEW n \in Names
        PROVE  /\ stream[p][n].id \in Known /\ {stream[p][n].unread, stream[p][n].held} \subseteq Nat
               /\ {stream[p][n].writeSize, stream[p][n].readSize} \subseteq app.sizes \cup {0}
               /\ {stream[p][n].closing, stream[p][n].locked} \subseteq BOOLEAN
    <3>1. stream[p][n].id \in Known
      BY DEF NumbersInv, IdsKnown
    <3>2. Locks \subseteq BOOLEAN
      BY DEF Locks
    <3>. QED
      BY <3>1, <3>2, EntryAt DEF Entries
  <2>2. ASSUME app.exclusive, NEW p \in Peers, NEW n \in Names
        PROVE  {stream[p][n].remoteFill, stream[p][n].localFill} \subseteq Nat
    <3>1. /\ Other(p) \in Peers /\ Other(Other(p)) = p
          /\ Credit(p, n) /\ Credit(Other(p), n)
      BY <2>2, TwoPeers DEF CarefulInv, Careful, Direction
    <3>2. stream[p][n].remoteFill \in Nat
      BY <3>1, Charged
    <3>3. stream[Other(Other(p))][n].localFill \in Nat
      BY <3>1, Charged
    <3>. QED
      BY <3>1, <3>2, <3>3
  <2>3. ASSUME app.exclusive PROVE IdsDistinct
    <3>1. PICK s \in Peers : s \notin FirstOpeners
      BY TwoPeers, SomePeer DEF OneOpener
    <3>2. \A n \in Names : Numbered(s, n)
      BY <2>3, <3>1 DEF CarefulInv, Careful, Second
    <3>. QED
      BY <3>2 DEF Numbered, IdsDistinct
  <2>4. next \in [Peers -> Ids]
    BY NextIsKnown DEF Typed, NumbersInv
  <2>5. handle \in [Peers -> [Names -> Ids \cup {None}]]
    BY DEF Typed, NumbersInv, IdsKnown, Known
  <2>6. ASSUME NEW t \in Threads
        PROVE  /\ event[t].type \in {"NONE", "CREATE", "WRITE", "RELEASE", "CLOSE"}
               /\ event[t].at \in {"idle", "queued", "blocked", "pending", "created"}
    BY Underway DEF Types
  <2>. QED
    BY <2>1, <2>2, <2>3, <2>4, <2>5, <2>6 DEF TypeOK, Known, Typed
<1>. QED
  BY <1>1, StreamsInvariant, IdsAreThoseOfCalls, CarefulInvariant, PTL

===============================================================================
