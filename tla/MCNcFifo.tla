------------------------------ MODULE MCNcFifo ------------------------------
(***************************************************************************)
(* NcFifo on an input fifo, an output fifo and, between them, one that the *)
(* device fills for one graph and empties for another; and its refinement  *)
(* of NcInferenceQueue.                                                    *)
(***************************************************************************)
EXTENDS NcFifo, TLC

CONSTANTS a, b, c, In, Mid, Out

MCThreads == {a, b, c}

Call(op, fi, fo) == [op |-> op, fi |-> fi, fo |-> fo]
Calls(i, j, k) == a :> i @@ b :> j @@ c :> k
Consumers(mid) == In :> 1 @@ Mid :> mid @@ Out :> 1

\* One thread writes, one queues inferences and one reads.
Roles == [calls |-> a :> {Call("write", In, Out)} @@ b :> {Call("queue", In, Out)}
                    @@ c :> {Call("read", Out, Out)},
          consumerCnt |-> Consumers(1), maxCalls |-> Calls(6, 6, 6), maxRefusals |-> 1]

\* One thread feeds the fifo in the middle; another queues from it and from the
\* input, to which it writes as well; a third reads both results.
Shared == [calls |-> a :> {Call("writequeue", In, Mid)}
                     @@ b :> {Call("write", In, Out), Call("queue", In, Out),
                              Call("queue", Mid, Out)}
                     @@ c :> {Call("read", Out, Out), Call("read", Mid, Mid)},
           consumerCnt |-> Consumers(2), maxCalls |-> Calls(2, 3, 3), maxRefusals |-> 1]

\* Two graphs in a chain, queued by two threads.
Chain == [calls |-> a :> {Call("writequeue", In, Mid)} @@ b :> {Call("queue", Mid, Out)}
                    @@ c :> {Call("read", Out, Out)},
          consumerCnt |-> Consumers(1), maxCalls |-> Calls(3, 3, 3), maxRefusals |-> 0]

MCApplications == {Roles, Shared}
MCChain == {Chain}

-----------------------------------------------------------------------------
(* The refinement of NcInferenceQueue by the fifos In and Out *)

\* The threads that write to In, that queue inferences from In or to Out, and that
\* read Out.
Writers == {t \in Threads : \E d \in app.calls[t] :
               d.op \in {"write", "writequeue"} /\ d.fi = In}
Queuers == {t \in Threads : \E d \in app.calls[t] :
               d.op \in {"queue", "writequeue"} /\ (d.fi = In \/ d.fo = Out)}
Readers == {t \in Threads : \E d \in app.calls[t] : d.op = "read" /\ d.fo = Out}

\* One graph has In as its input, and it alone has Out as its output, which is the
\* input of none; one thread writes, one queues and one reads.  Other fifos may be
\* in use as well.
AtMostOne(S) == \A s, t \in S : s = t
OneEach ==
    /\ In \in Writable /\ Out \in ReadAccess
    /\ \A t \in Threads : \A d \in app.calls[t] :
          d.op \in {"queue", "writequeue"} => (d.fi = In <=> d.fo = Out) /\ d.fi # Out
    /\ AtMostOne(Writers) /\ AtMostOne(Queuers) /\ AtMostOne(Readers)

\* The tensor that has been sent and not pushed, the parameter that has been taken
\* from one list and not pushed to the other, the result that has been copied.
InHands(there) == IF there = {} THEN <<>> ELSE <<hand[CHOOSE t \in there : TRUE]>>
Sent == InHands(Queueing(In, {"push"}))
Taken == InHands(Queueing(In, {"result"}))
Copied == InHands(Producing(Out, {"pop"}))

\* The tensors that have not been returned, and their parameters, oldest first.
Unread == Copied \o stream[Out] \o elems[In]
Parameters == user_param_out[Out] \o Taken \o user_param_in[In] \o Sent

\* Both together.
Inference(i) == <<Unread[i], Parameters[i]>>
Outstanding == IF OneEach THEN [i \in 1..Len(Unread) |-> Inference(i)] ELSE <<>>

Inferences == INSTANCE NcInferenceQueue WITH inferences <- Outstanding

\* With one thread to write, one to queue and one to read, the two lists of
\* every fifo stay in step with what the device holds: each result is read
\* with the parameter its tensor was written with, in the order of writing.
ImplementsInferences == Inferences!InferenceSpec
=============================================================================
