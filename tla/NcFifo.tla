------------------------------- MODULE NcFifo -------------------------------
(***************************************************************************)
(* Inferences through the fifos of one device (api/src/mvnc_api.c).        *)
(*                                                                         *)
(* Application threads write tensors into input fifos (NC_FIFO_HOST_WO),   *)
(* queue inferences from one fifo to another, and read results from output *)
(* fifos (NC_FIFO_HOST_RO).  The tensors travel on the stream of the fifo, *)
(* the triggers on the stream of the graph monitor, and the user parameter *)
(* of each tensor stays on the host, in two lists that ncFifoWriteElem,    *)
(* ncGraphQueueInference and ncFifoReadElem are to keep in step with what  *)
(* the device holds.                                                       *)
(*                                                                         *)
(* All fifos are allocated.  A tensor is named by its number and is        *)
(* written with that number as its user parameter, so a result has the     *)
(* right parameter when the two are equal.  The device is external: it     *)
(* answers triggers and executes them in order.                            *)
(***************************************************************************)
EXTENDS Naturals, Sequences, FiniteSets

CONSTANTS
    Threads,      \* application threads
    Fifos,
    ReadAccess,   \* the fifos of type NC_FIFO_HOST_RO; the others are HOST_WO
    Chained,      \* those of ReadAccess that are the input of another graph
    NumElem,      \* num_elements of every fifo
    Applications, \* the ways in which an application may use them
    None          \* no thread, no call, and the NULL user parameter

\* A call writes to fi, queues an inference from fi to fo, does both, or reads
\* from fo.
FifoCalls == [op : {"write", "queue", "writequeue", "read"}, fi : Fifos, fo : Fifos]

\* An application: the calls each thread makes, the consumer_cnt of each fifo, and
\* two bounds, on the calls of each thread and on the triggers the device refuses.
Uses == [calls : [Threads -> SUBSET FifoCalls], consumerCnt : [Fifos -> Nat \ {0}],
         maxCalls : [Threads -> Nat], maxRefusals : Nat]

ASSUME NcFifoAssumption ==
    /\ ReadAccess \subseteq Fifos
    /\ Chained \subseteq ReadAccess
    /\ NumElem \in Nat \ {0}
    /\ IsFiniteSet(Threads)
    /\ None \notin Threads \cup Fifos \cup Nat \cup {"OK", "NACK"}
    /\ Applications \subseteq Uses
    /\ \A u \in Applications, t \in Threads : \A c \in u.calls[t] :
          /\ c.op \in {"write", "writequeue"} => c.fi \notin ReadAccess
          /\ c.op \in {"queue", "writequeue", "read"} => c.fo \in ReadAccess
          /\ c.op = "queue" => c.fi \in Chained \/ c.fi \notin ReadAccess

VARIABLES
    user_param_in, user_param_out,     \* per fifo, the oldest parameter first
    write_count, consumed_by_graph,
    api_read_element, consumers_remaining,
    fifo_mutex,       \* the thread that sleeps with the mutex of the fifo, or None
    pc, call, calls,  \* what each thread does, and how many calls it has made
    hand,             \* the tensor a thread has sent or read and whose parameter is still
                      \* in no list, or the parameter it has taken from a list; or None
    written,          \* number of tensors written
    graph_streamm,    \* owner of the mutex of the monitor stream, or None
    answer,           \* the monitor's answer to the owner's request, or None
    refused,          \* number of triggers refused
    elems,            \* tensors the device holds for its graphs, per fifo
    stream,           \* results on their way to the host, per fifo
    triggers,         \* triggers the device has accepted and not executed
    app               \* the one of Applications that runs

lists   == <<user_param_in, user_param_out>>
counts  == <<write_count, consumed_by_graph>>
readers == <<api_read_element, consumers_remaining>>
made    == <<call, calls, app>>
threads == <<pc, made, hand>>
monitor == <<graph_streamm, answer, refused>>
device  == <<elems, stream, triggers>>
vars == <<lists, counts, readers, fifo_mutex, threads, written, monitor, device>>

Params == Nat \cup {None}
Writable == Fifos \ ReadAccess

\* Types of the variables; a fifo never counts fewer than one consumer left
\* while its mutex is free (ncGraphQueueInference, ncFifoReadElem).
TypeOK ==
    /\ user_param_in \in [Fifos -> Seq(Params)] /\ user_param_out \in [Fifos -> Seq(Params)]
    /\ write_count \in [Fifos -> Nat] /\ consumed_by_graph \in [Fifos -> Nat]
    /\ api_read_element \in [Fifos -> {0, 1}]
    /\ consumers_remaining \in [Fifos -> Nat]
    /\ \A f \in Fifos : consumers_remaining[f] \in
          IF fifo_mutex[f] = None THEN 1..app.consumerCnt[f] ELSE {0}
    /\ fifo_mutex \in [Fifos -> Threads \cup {None}]
    /\ pc \in [Threads -> {"idle", "push", "queue", "drain", "result", "trigger",
                           "sent", "read", "pop"}]
    /\ call \in [Threads -> FifoCalls \cup {None}] /\ calls \in [Threads -> Nat]
    /\ \A t \in Threads : /\ call[t] \in app.calls[t] \cup {None}
                          /\ calls[t] <= app.maxCalls[t]
    /\ hand \in [Threads -> Params]
    /\ written \in Nat
    /\ graph_streamm \in Threads \cup {None}
    /\ answer \in {"OK", "NACK", None}
    /\ refused \in 0..app.maxRefusals
    /\ elems \in [Fifos -> Seq(Nat)] /\ stream \in [Fifos -> Seq(Nat)]
    /\ triggers \in Seq([fi : Fifos, fo : Fifos])
    /\ app \in Applications

Init ==
    /\ app \in Applications
    /\ user_param_in = [f \in Fifos |-> <<>>] /\ user_param_out = [f \in Fifos |-> <<>>]
    /\ write_count = [f \in Fifos |-> 0] /\ consumed_by_graph = [f \in Fifos |-> 0]
    /\ api_read_element = [f \in Fifos |-> 0]
    /\ consumers_remaining = app.consumerCnt
    /\ fifo_mutex = [f \in Fifos |-> None]
    /\ pc = [t \in Threads |-> "idle"] /\ call = [t \in Threads |-> None]
    /\ calls = [t \in Threads |-> 0]
    /\ hand = [t \in Threads |-> None]
    /\ written = 0
    /\ graph_streamm = None /\ answer = None /\ refused = 0
    /\ elems = [f \in Fifos |-> <<>>] /\ stream = [f \in Fifos |-> <<>>]
    /\ triggers = <<>>

-----------------------------------------------------------------------------
Goes(t, label) == pc' = [pc EXCEPT ![t] = label]
Holds(t, p) == hand' = [hand EXCEPT ![t] = p]

\* t is idle and makes one of its calls, with an operation of ops
Begins(t, c, ops) ==
    /\ pc[t] = "idle"
    /\ calls[t] < app.maxCalls[t]
    /\ c \in app.calls[t] /\ c.op \in ops
    /\ call' = [call EXCEPT ![t] = c]
    /\ calls' = [calls EXCEPT ![t] = @ + 1]
    /\ UNCHANGED app

\* The lists grow at the head and are popped at the tail in the code; a pop
\* from an empty list yields NULL.
pushUserParam(list, p) == Append(list, p)
PoppedParam(list) == IF list = <<>> THEN None ELSE Head(list)
popUserParam(list) == IF list = <<>> THEN <<>> ELSE Tail(list)

\* The tensor goes to the device first, when the fifo has room for it ...
ncFifoWriteElem(t) == \E c \in app.calls[t] :
    /\ Begins(t, c, {"write", "writequeue"})
    /\ Len(elems[c.fi]) < NumElem
    /\ written' = written + 1
    /\ Holds(t, written + 1)
    /\ elems' = [elems EXCEPT ![c.fi] = Append(@, written + 1)]
    /\ Goes(t, "push")
    /\ UNCHANGED <<lists, counts, readers, fifo_mutex, monitor, stream, triggers>>

\* ... then its parameter is pushed and it is counted, under the mutex.
PushWritten(t) ==
    LET fi == call[t].fi IN
    /\ pc[t] = "push" /\ fifo_mutex[fi] = None
    /\ user_param_in' = [user_param_in EXCEPT ![fi] = pushUserParam(@, hand[t])]
    /\ write_count' = [write_count EXCEPT ![fi] = @ + 1]
    /\ Goes(t, IF call[t].op = "write" THEN "idle" ELSE "queue")
    /\ Holds(t, None)
    /\ UNCHANGED <<user_param_out, consumed_by_graph, readers, fifo_mutex, made, written,
                   monitor, device>>

ncGraphQueueInference(t) == \E c \in app.calls[t] :
    /\ Begins(t, c, {"queue"})
    /\ Goes(t, "queue")
    /\ UNCHANGED <<lists, counts, readers, fifo_mutex, hand, written, monitor, device>>

\* The last consumer of an element the host has not read frees it on the host.
MustDrain(f) == /\ consumers_remaining[f] = 1
                /\ api_read_element[f] = 0
                /\ f \in ReadAccess

\* mutant of Consumed: the count is not set back for the next element
ConsumedOnce(f, read) ==
    /\ consumers_remaining' = [consumers_remaining EXCEPT ![f] = IF @ = 0 THEN 0 ELSE @ - 1]
    /\ api_read_element' = [api_read_element EXCEPT ![f] = IF consumers_remaining[f] <= 1
                                                          THEN 0 ELSE read]

\* One consumer less; the last one starts the next element.  read says whether
\* the application has read this one.
Consumed(f, read) ==
    LET last == consumers_remaining[f] <= 1 IN
    /\ consumers_remaining' = [consumers_remaining EXCEPT ![f] = IF last THEN app.consumerCnt[f]
                                                                 ELSE @ - 1]
    /\ api_read_element' = [api_read_element EXCEPT ![f] = IF last THEN 0 ELSE read]

\* mutant of NoElement: off by one
NoElementButOne(f) == write_count[f] < consumed_by_graph[f]

NoElement(f) == write_count[f] <= consumed_by_graph[f]

\* The rest of the critical section of the input fifo: the parameter is popped,
\* and without an element the call returns NC_UNAUTHORIZED.
TakeParam(t, f) ==
    /\ user_param_in' = [user_param_in EXCEPT ![f] = popUserParam(@)]
    /\ IF NoElement(f)
       THEN Goes(t, "idle") /\ UNCHANGED <<consumed_by_graph, hand>>
       ELSE /\ Goes(t, "result")
            /\ Holds(t, PoppedParam(user_param_in[f]))
            /\ consumed_by_graph' = [consumed_by_graph EXCEPT ![f] = @ + 1]

TakeInput(t) ==
    LET fi == call[t].fi IN
    /\ pc[t] = "queue" /\ fifo_mutex[fi] = None
    /\ ~MustDrain(fi)
    /\ Consumed(fi, api_read_element[fi])
    /\ TakeParam(t, fi)
    /\ UNCHANGED <<user_param_out, write_count, fifo_mutex, made, written, monitor, device>>

\* The stream is read with the mutex held: the thread may sleep with it.
LockInput(t) ==
    LET fi == call[t].fi IN
    /\ pc[t] = "queue" /\ fifo_mutex[fi] = None
    /\ MustDrain(fi)
    /\ fifo_mutex' = [fifo_mutex EXCEPT ![fi] = t]
    /\ consumers_remaining' = [consumers_remaining EXCEPT ![fi] = 0]
    /\ Goes(t, "drain")
    /\ UNCHANGED <<lists, counts, api_read_element, made, hand, written, monitor, device>>

DrainInput(t) ==
    LET fi == call[t].fi IN
    /\ pc[t] = "drain" /\ stream[fi] # <<>>
    /\ stream' = [stream EXCEPT ![fi] = Tail(@)]
    /\ Consumed(fi, 0)
    /\ TakeParam(t, fi)
    /\ fifo_mutex' = [fifo_mutex EXCEPT ![fi] = None]
    /\ UNCHANGED <<user_param_out, write_count, made, written, monitor, elems, triggers>>

\* mutant of PushResult: the parameter is put at the wrong end of the list
PushFirst(t) ==
    LET fo == call[t].fo IN
    /\ pc[t] = "result" /\ fifo_mutex[fo] = None
    /\ user_param_out' = [user_param_out EXCEPT ![fo] = <<hand[t]>> \o @]
    /\ write_count' = [write_count EXCEPT ![fo] = @ + 1]
    /\ Goes(t, "trigger")
    /\ Holds(t, None)
    /\ UNCHANGED <<user_param_in, consumed_by_graph, readers, fifo_mutex, made, written,
                   monitor, device>>

\* mutant of PushResult: nothing is pushed
PushNothing(t) ==
    LET fo == call[t].fo IN
    /\ pc[t] = "result" /\ fifo_mutex[fo] = None
    /\ write_count' = [write_count EXCEPT ![fo] = @ + 1]
    /\ Goes(t, "trigger")
    /\ Holds(t, None)
    /\ UNCHANGED <<lists, consumed_by_graph, readers, fifo_mutex, made, written, monitor,
                   device>>

\* The parameter is in the output fifo before the device is told to start.
PushResult(t) ==
    LET fo == call[t].fo IN
    /\ pc[t] = "result" /\ fifo_mutex[fo] = None
    /\ user_param_out' = [user_param_out EXCEPT ![fo] = pushUserParam(@, hand[t])]
    /\ write_count' = [write_count EXCEPT ![fo] = @ + 1]
    /\ Goes(t, "trigger")
    /\ Holds(t, None)
    /\ UNCHANGED <<user_param_in, consumed_by_graph, readers, fifo_mutex, made, written,
                   monitor, device>>

sendGraphMonitorRequest(t) ==
    /\ pc[t] = "trigger" /\ graph_streamm = None
    /\ graph_streamm' = t
    /\ Goes(t, "sent")
    /\ UNCHANGED <<lists, counts, readers, fifo_mutex, made, hand, written, answer,
                   refused, device>>

\* mutant of checkGraphMonitorResponse: returns with the mutex held
KeepMonitor(t) ==
    /\ pc[t] = "sent" /\ answer # None
    /\ answer' = None
    /\ Goes(t, "idle")
    /\ UNCHANGED <<lists, counts, readers, fifo_mutex, made, hand, written, graph_streamm,
                   refused, device>>

checkGraphMonitorResponse(t) ==
    /\ pc[t] = "sent" /\ answer # None
    /\ answer' = None
    /\ graph_streamm' = None
    /\ Goes(t, "idle")
    /\ UNCHANGED <<lists, counts, readers, fifo_mutex, made, hand, written, refused,
                   device>>

\* api_read_element is looked at without the mutex, before the thread waits.
ncFifoReadElem(t) == \E c \in app.calls[t] :
    /\ Begins(t, c, {"read"})
    /\ Goes(t, IF api_read_element[c.fo] = 0 THEN "read" ELSE "idle")
    /\ UNCHANGED <<lists, counts, readers, fifo_mutex, hand, written, monitor, device>>

\* The result is copied and released.
ReadResult(t) ==
    LET fo == call[t].fo IN
    /\ pc[t] = "read" /\ stream[fo] # <<>>
    /\ Holds(t, Head(stream[fo]))
    /\ stream' = [stream EXCEPT ![fo] = Tail(@)]
    /\ Goes(t, "pop")
    /\ UNCHANGED <<lists, counts, readers, fifo_mutex, made, written, monitor, elems,
                   triggers>>

\* The reader is one of the consumers of the element.
PopResult(t) ==
    LET fo == call[t].fo IN
    /\ pc[t] = "pop" /\ fifo_mutex[fo] = None
    /\ Consumed(fo, 1)
    /\ user_param_out' = [user_param_out EXCEPT ![fo] = popUserParam(@)]
    /\ Holds(t, None)
    /\ Goes(t, "idle")
    /\ UNCHANGED <<user_param_in, counts, fifo_mutex, made, written, monitor, device>>

-----------------------------------------------------------------------------
(* The device: its monitor answers one request at a time, and it executes  *)
(* triggers in order, each when its input has an element and its output a  *)
(* place.                                                                  *)

MonitorAccepts ==
    /\ graph_streamm # None /\ pc[graph_streamm] = "sent" /\ answer = None
    /\ answer' = "OK"
    /\ triggers' = Append(triggers, [fi |-> call[graph_streamm].fi, fo |-> call[graph_streamm].fo])
    /\ UNCHANGED <<lists, counts, readers, fifo_mutex, threads, written, graph_streamm,
                   refused, elems, stream>>

MonitorRefuses ==
    /\ graph_streamm # None /\ pc[graph_streamm] = "sent" /\ answer = None
    /\ refused < app.maxRefusals
    /\ refused' = refused + 1
    /\ answer' = "NACK"
    /\ UNCHANGED <<lists, counts, readers, fifo_mutex, threads, written, graph_streamm,
                   device>>

HasRoom(f) == Len(stream[f]) < NumElem /\ Len(elems[f]) < NumElem

Execute ==
    /\ triggers # <<>>
    /\ LET fi == Head(triggers).fi
           fo == Head(triggers).fo
       IN  /\ elems[fi] # <<>> /\ HasRoom(fo)
           /\ stream' = [stream EXCEPT ![fo] = Append(@, Head(elems[fi]))]
           /\ elems' = [f \in Fifos |->
                 IF f = fi THEN Tail(elems[f])
                 ELSE IF f = fo /\ fo \in Chained THEN Append(elems[f], Head(elems[fi]))
                 ELSE elems[f]]
    /\ triggers' = Tail(triggers)
    /\ UNCHANGED <<lists, counts, readers, fifo_mutex, threads, written, monitor>>

-----------------------------------------------------------------------------
Inside(t) ==
    \/ PushWritten(t) \/ TakeInput(t) \/ LockInput(t) \/ DrainInput(t) \/ PushResult(t)
    \/ sendGraphMonitorRequest(t) \/ checkGraphMonitorResponse(t)
    \/ ReadResult(t) \/ PopResult(t)

Next ==
    \/ \E t \in Threads : ncFifoWriteElem(t) \/ ncGraphQueueInference(t) \/ ncFifoReadElem(t)
    \/ \E t \in Threads : Inside(t)
    \/ MonitorAccepts \/ MonitorRefuses \/ Execute

Spec == Init /\ [][Next]_vars

\* no thread queues from the output of another graph
Unchained == \A t \in Threads : \A c \in app.calls[t] : c.op = "queue" => c.fi \in Writable

\* A call that has begun goes on, and the device answers and works; nobody has
\* to call.
Fairness ==
    /\ \A t \in Threads : WF_vars(Inside(t))
    /\ WF_vars(MonitorAccepts \/ MonitorRefuses)
    /\ WF_vars(Execute)

\* The same, of an application without a chain of graphs only.
UnchainedFairness ==
    /\ \A t \in Threads : WF_vars(Unchained /\ Inside(t))
    /\ WF_vars(Unchained /\ (MonitorAccepts \/ MonitorRefuses))
    /\ WF_vars(Unchained /\ Execute)

FairSpec == Spec /\ Fairness
UnchainedFairSpec == Spec /\ UnchainedFairness

-----------------------------------------------------------------------------
Queueing(f, labels) == {t \in Threads : pc[t] \in labels /\ call[t].fi = f}
Producing(f, labels) == {t \in Threads : pc[t] \in labels /\ call[t].fo = f}
\* the owner of the monitor whose trigger is not answered yet
Unanswered(s) == {t \in s : pc[t] # "sent" \/ answer = None}
Triggered(IsFor(_)) == Cardinality({i \in 1..Len(triggers) : IsFor(triggers[i])})

\* The parameters of an input fifo are those of the elements that are counted
\* and not yet queued, however the calls of the threads interleave
\* (pushUserParam and write_count, popUserParam and consumed_by_graph).
CountsAgree ==
    \A f \in Writable : write_count[f] = consumed_by_graph[f] + Len(user_param_in[f])

\* No trigger reaches the device before the element it is to consume: for
\* every one that is under way there is an element of its own in the input
\* fifo (the order of XLinkWriteData and write_count++ in ncFifoWriteElem).
TriggersHaveInput ==
    \A f \in Writable :
       Len(elems[f]) >= Cardinality(Unanswered(Queueing(f, {"result", "trigger", "sent"})))
                        + Triggered(LAMBDA trigger : trigger.fi = f)

\* A reader that has got a result finds a parameter in the list: the inference
\* pushed it before its trigger was sent, however early the result comes
\* (ncGraphQueueInference, ncFifoReadElem).
ReaderFindsParam ==
    \A f \in ReadAccess :
       Len(user_param_out[f]) >= Len(stream[f])
                                 + Cardinality({t \in Producing(f, {"pop"}) : call[t].op = "read"})
                                 + Cardinality(Unanswered(Producing(f, {"trigger", "sent"})))
                                 + Triggered(LAMBDA trigger : trigger.fo = f)

\* Between them, the two lists of a fifo hold a parameter for every element that
\* a call is still to take from it.
ParametersKept == CountsAgree /\ ReaderFindsParam

\* An inference that is being queued is queued or refused: the mutexes it needs
\* come free (ncGraphQueueInference).
QueueReturns == \A t \in Threads : pc[t] \in {"queue", "drain"} ~> pc[t] = "idle"

\* So it is where no graph takes its input from another.
UnchainedQueueReturns ==
    \A t \in Threads : Unchained /\ pc[t] \in {"queue", "drain"} ~> pc[t] = "idle"

\* A reader that waits gets its result once an inference into its fifo has been
\* accepted, where no graph takes its input from another (ncFifoReadElem is a
\* blocking call).
ReadReturns == \A t \in Threads : \A f \in ReadAccess :
    (/\ Unchained /\ pc[t] = "read" /\ call[t].fo = f
     /\ \E i \in 1..Len(triggers) : triggers[i].fo = f) ~> pc[t] # "read"
=============================================================================
