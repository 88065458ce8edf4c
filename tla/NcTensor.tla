------------------------------ MODULE NcTensor ------------------------------
(***************************************************************************)
(* The two descriptors of a fifo and the conversion of its elements        *)
(* (api/src/mvnc_api.c).                                                   *)
(*                                                                         *)
(* The graph descriptor, given by ncFifoAllocate, says how the device lays *)
(* out an element: in half floats, with strides of its own.  The host      *)
(* descriptor says how the application does: by default rows, columns,     *)
(* channels of floats; options change it.  ncFifoWriteElem and             *)
(* ncFifoReadElem compare the length of the buffer with that of the        *)
(* element, and convert when the data type or the layouts differ.          *)
(*                                                                         *)
(* An element is followed, not its value: the float of pixel <<r, x, c>>   *)
(* is that triple.  The batch size is 1, the only one supported.           *)
(***************************************************************************)
EXTENDS Integers, FiniteSetsExt

CONSTANTS
    GraphDescriptors,   \* those ncFifoAllocate is called with
    HostDescriptors,    \* those NC_RW_FIFO_HOST_TENSOR_DESCRIPTOR is set to
    Careless            \* what the application does though nothing stops it, see below

Dims == Nat \ {0}
Descriptors == [w : Dims, h : Dims, c : Dims, wStride : Nat, hStride : Nat, cStride : Nat,
                dataType : {"FP16", "FP32"}, totalSize : Nat]

\* NC_FIFO_HOST_RO and NC_FIFO_HOST_WO.
Types == {"RO", "WO"}

ASSUME NcTensorAssumption ==
    /\ GraphDescriptors \subseteq Descriptors /\ HostDescriptors \subseteq Descriptors
    /\ \A g \in GraphDescriptors : g.dataType = "FP16"
    /\ Careless \subseteq {"typeAfterDescriptor", "setDuringCall", "sameLayout"}

VARIABLES
    type, state,         \* f->type and f->state
    host, hostSet,       \* host_tensor_desc and host_tensor_desc_set
    graph, datasize,     \* graph_tensor_desc and datasize
    call, length,        \* the call under way, and the length of its buffer
    data,                \* the element where it is now: place -> pixel
    reach                \* how far the last call went in the buffer and in the packet

fifo == <<type, state, host, hostSet, graph, datasize>>
vars == <<fifo, call, length, data, reach>>

-----------------------------------------------------------------------------
(* Layouts and strides.                                                     *)

SizeOf(dataType) == IF dataType = "FP16" THEN 2 ELSE 4
MAX(a, b) == IF a > b THEN a ELSE b

\* The macro for gcc: when the first two tie it takes the third.
MAX_3(a, b, c) == IF a > b /\ a > c THEN a ELSE IF b > c /\ b > a THEN b ELSE c

\* From the major dimension to the minor one.
Layouts == {"HWC", "HCW", "CHW", "CWH", "WHC", "WCH"}

getLayout(d) ==
    LET max == MAX_3(d.hStride, d.wStride, d.cStride)
    IN  CASE max = d.hStride -> IF d.wStride >= d.cStride THEN "HWC" ELSE "HCW"
          [] max # d.hStride /\ max = d.cStride -> IF d.hStride >= d.wStride THEN "CHW" ELSE "CWH"
          [] OTHER -> IF d.hStride >= d.cStride THEN "WHC" ELSE "WCH"

WithStrides(d, w, h, c) == [d EXCEPT !.wStride = w, !.hStride = h, !.cStride = c]

getStrides(layout, d, dataType) ==
    LET base == SizeOf(dataType)
    IN  CASE layout = "HWC" -> WithStrides(d, base * d.c, base * d.c * d.w, base)
          [] layout = "CHW" -> WithStrides(d, base, base * d.w, base * d.w * d.h)
          [] layout = "HCW" -> WithStrides(d, base, base * d.w * d.c, base * d.w)
          [] layout = "CWH" -> WithStrides(d, base * d.h, base, base * d.h * d.w)
          [] layout = "WCH" -> WithStrides(d, base * d.h * d.c, base, base * d.h)
          [] layout = "WHC" -> WithStrides(d, base * d.c * d.h, base * d.c, base)

\* MUTANT of getTotalSize: the rows are taken for the major dimension.
SizeByRows(d) == MAX(d.wStride, MAX(d.hStride, d.cStride)) * d.h

\* Every dimension that has the largest stride counts, the largest of them wins.
getTotalSize(d) ==
    LET stride == MAX(d.wStride, MAX(d.hStride, d.cStride))
        dims   == {p[2] : p \in {q \in {<<d.wStride, d.w>>, <<d.hStride, d.h>>, <<d.cStride, d.c>>} : q[1] = stride}}
    IN  stride * Max(dims)

Sized(d) == [d EXCEPT !.totalSize = getTotalSize(d)]
SameShape(a, b) == a.w = b.w /\ a.h = b.h /\ a.c = b.c

-----------------------------------------------------------------------------
(* Elements.                                                                *)

Pixels(d) == (0 .. d.h - 1) \X (0 .. d.w - 1) \X (0 .. d.c - 1)
Offset(d, p) == p[1] * d.hStride + p[2] * d.wStride + p[3] * d.cStride

\* A buffer in which every pixel is where the descriptor has it.
Element(d) == [o \in {Offset(d, p) : p \in Pixels(d)} |->
                 CHOOSE p \in Pixels(d) : Offset(d, p) = o]

\* The end of the last pixel that convertDataTypeAndLayout touches.
End(d, dataType) == Max({Offset(d, p) : p \in Pixels(d)}) + SizeOf(dataType)

\* Pixel by pixel, from its place in the source to its place in the destination.
convertDataTypeAndLayout(buffer, from, to) ==
    [o \in {Offset(to, p) : p \in Pixels(from)} |->
        LET place == Offset(from, CHOOSE p \in Pixels(from) : Offset(to, p) = o)
        IN  IF place \in DOMAIN buffer THEN buffer[place] ELSE <<>>]

\* MUTANT of Converts: the layouts are not compared.
FloatsOnly(h, g) == h.dataType = "FP32"

Converts(h, g) == h.dataType = "FP32" \/ getLayout(g) # getLayout(h)

-----------------------------------------------------------------------------
(* Creation, options and allocation.                                        *)

NoDescriptor == [w |-> 0, h |-> 0, c |-> 0, wStride |-> 0, hStride |-> 0, cStride |-> 0,
                 dataType |-> "FP32", totalSize |-> 0]
NoReach == [user |-> 0, device |-> 0]

ncFifoCreate(t) ==
    /\ type = t /\ state = "CREATED" /\ host = NoDescriptor /\ hostSet = FALSE
    /\ graph = NoDescriptor /\ datasize = 0
    /\ call = "none" /\ length = 0 /\ data = <<>> /\ reach = NoReach

Init == \E t \in Types : ncFifoCreate(t)

Idle == call = "none" \/ "setDuringCall" \in Careless
Rest == UNCHANGED <<call, length, data, reach>>

\* What is not converted is copied byte by byte, which is right between equal
\* strides only: a careful application asks for halves only then.
Fits(h, g) ==
    \/ "sameLayout" \in Careless
    \/ ~SameShape(h, g) \/ h.dataType = "FP32" \/ getLayout(h) # getLayout(g)
    \/ h.wStride = g.wStride /\ h.hStride = g.hStride /\ h.cStride = g.cStride

SetType(t) ==
    /\ state = "CREATED" /\ Idle
    /\ type' = t
    /\ UNCHANGED <<state, host, hostSet, graph, datasize>> /\ Rest

\* The strides and the size stay those of the type before.
SetDataType(dataType) ==
    /\ state = "CREATED" /\ Idle
    /\ hostSet => "typeAfterDescriptor" \in Careless
    /\ host' = [host EXCEPT !.dataType = dataType]
    /\ UNCHANGED <<type, state, hostSet, graph, datasize>> /\ Rest

\* MUTANT of SetHostDescriptor: datasize stays that of the descriptor before.
DescriptorOnly(d) ==
    /\ Idle
    /\ state = "ALLOCATED" => SameShape(d, graph) /\ Fits(d, graph)
    /\ host' = d /\ hostSet' = TRUE
    /\ UNCHANGED <<type, state, graph, datasize>> /\ Rest

SetHostDescriptor(d) ==
    /\ Idle
    /\ d.totalSize = getTotalSize(d)
    /\ state = "ALLOCATED" => SameShape(d, graph) /\ Fits(d, graph)
    /\ host' = d /\ hostSet' = TRUE
    /\ datasize' = d.totalSize
    /\ UNCHANGED <<type, state, graph>> /\ Rest

\* The default of the application: rows of columns of channels, its own type.
DefaultHost(g) ==
    Sized(getStrides("HWC", [g EXCEPT !.dataType = host.dataType], host.dataType))

\* The graph descriptor is kept whatever comes of the call; the device may refuse.
ncFifoAllocate(g, accepted) ==
    /\ state = "CREATED" /\ Idle
    /\ graph' = g
    /\ host' = IF hostSet THEN host ELSE DefaultHost(g)
    /\ hostSet' = TRUE
    /\ Fits(host', g)
    /\ IF SameShape(host', g)
       THEN /\ datasize' = host'.totalSize
            /\ state' = IF accepted THEN "ALLOCATED" ELSE state
       ELSE UNCHANGED <<datasize, state>>
    /\ UNCHANGED type /\ Rest

ncFifoDestroy(t) ==
    /\ call = "none"
    /\ type' = t /\ state' = "CREATED" /\ host' = NoDescriptor /\ hostSet' = FALSE
    /\ graph' = NoDescriptor /\ datasize' = 0
    /\ call' = "none" /\ length' = 0 /\ data' = <<>> /\ reach' = NoReach

-----------------------------------------------------------------------------
(* Writing and reading an element.                                          *)

\* The application gives an element in its own layout, of the length it is told.
StartWrite ==
    /\ state = "ALLOCATED" /\ call = "none" /\ type = "WO"
    /\ call' = "write" /\ length' = datasize /\ data' = Element(host)
    /\ UNCHANGED <<fifo, reach>>

ncFifoWriteElem ==
    /\ call = "write"
    /\ call' = "written"
    /\ IF Converts(host, graph)
       THEN /\ data' = convertDataTypeAndLayout(data, host, graph)
            /\ reach' = [user |-> End(host, host.dataType), device |-> End(graph, "FP16")]
       ELSE /\ data' = data
            /\ reach' = [user |-> length, device |-> length]
    /\ UNCHANGED <<fifo, length>>

\* The packet of the device is as long as its descriptor says.
StartRead ==
    /\ state = "ALLOCATED" /\ call = "none" /\ type = "RO"
    /\ call' = "read" /\ length' = datasize /\ data' = Element(graph)
    /\ UNCHANGED <<fifo, reach>>

ncFifoReadElem ==
    /\ call = "read"
    /\ call' = "taken"
    /\ IF Converts(host, graph)
       THEN /\ data' = convertDataTypeAndLayout(data, graph, host)
            /\ reach' = [user |-> End(host, host.dataType), device |-> End(graph, "FP16")]
       ELSE /\ data' = data
            /\ reach' = [user |-> graph.totalSize, device |-> graph.totalSize]
    /\ UNCHANGED <<fifo, length>>

Return ==
    /\ call \in {"written", "taken"}
    /\ call' = "none" /\ length' = 0 /\ data' = <<>> /\ reach' = NoReach
    /\ UNCHANGED fifo

Next ==
    \/ \E t \in Types : SetType(t) \/ ncFifoDestroy(t)
    \/ \E dataType \in {"FP16", "FP32"} : SetDataType(dataType)
    \/ \E d \in HostDescriptors : SetHostDescriptor(d)
    \/ \E g \in GraphDescriptors, accepted \in BOOLEAN : ncFifoAllocate(g, accepted)
    \/ StartWrite \/ ncFifoWriteElem
    \/ StartRead \/ ncFifoReadElem
    \/ Return

Spec == Init /\ [][Next]_vars

-----------------------------------------------------------------------------
(* Properties.                                                              *)

\* The type invariant.  A fifo in use has two descriptors of one shape, and the size
\* that NC_RO_FIFO_ELEMENT_DATA_SIZE and NC_RW_FIFO_HOST_TENSOR_DESCRIPTOR tell is
\* the one that the calls accept, by whatever calls it came about.
TypeOK ==
    /\ type \in Types /\ state \in {"CREATED", "ALLOCATED"} /\ hostSet \in BOOLEAN
    /\ host \in Descriptors \/ (~hostSet /\ [host EXCEPT !.dataType = "FP32"] = NoDescriptor)
    /\ graph \in GraphDescriptors \cup {NoDescriptor}
    /\ state = "ALLOCATED" => /\ hostSet /\ SameShape(host, graph)
                              /\ datasize = host.totalSize
    /\ datasize \in Nat /\ length \in Nat
    /\ call \in {"none", "write", "written", "read", "taken"}
    /\ reach \in [user : Nat, device : Nat]

\* Nothing is touched beyond the length the application has given, nor beyond
\* the element of the device: what ncFifoWriteElem and ncFifoReadElem compare
\* with the length (datasize, kept since the descriptor was set or made) covers
\* what the strides of the conversion reach.
InBounds ==
    /\ reach.user <= length
    /\ reach.device <= graph.totalSize

\* After a write the device has every pixel where the graph expects it, after a
\* read the application has it where its own descriptor says, by whatever route
\* of options and allocations the two descriptors came about.
ElementsInPlace ==
    /\ call = "written" => data = Element(graph)
    /\ call = "taken" => data = Element(host)
=============================================================================
