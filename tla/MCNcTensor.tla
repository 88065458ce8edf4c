----------------------------- MODULE MCNcTensor -----------------------------
(* A graph that takes rows, one that takes planes and one that pads its rows, *)
(* and an application that knows six layouts, of halves or floats.            *)
EXTENDS NcTensor

MCShape(w, h, c, dataType) ==
    [NoDescriptor EXCEPT !.w = w, !.h = h, !.c = c, !.dataType = dataType]

MCDense(layout, shape) == Sized(getStrides(layout, shape, shape.dataType))
MCPadded(d) == Sized([d EXCEPT !.hStride = @ + 4])

MCShapes(dataType) == {MCShape(3, 2, 2, dataType), MCShape(1, 2, 2, dataType), MCShape(1, 1, 3, dataType)}

MCGraphDescriptors ==
    {MCDense(layout, shape) : layout \in {"HWC", "CHW"}, shape \in MCShapes("FP16")}
        \cup {MCPadded(MCDense("HWC", MCShape(3, 2, 2, "FP16")))}

MCHostDescriptors ==
    {MCDense(layout, shape) : layout \in Layouts, shape \in MCShapes("FP16") \cup MCShapes("FP32")}
        \cup {MCPadded(MCDense("HWC", MCShape(3, 2, 2, "FP32")))}
=============================================================================
