-------------------------- MODULE NcInferenceQueue --------------------------
(***************************************************************************)
(* What an input and an output fifo promise together: tensors are given to *)
(* the device with a parameter of the caller, and come back in the order   *)
(* they were given, each with its own parameter.                           *)
(***************************************************************************)
EXTENDS Naturals, Sequences

VARIABLE inferences  \* tensors not yet returned, each with the parameter it will get

\* The parameter names the tensor it was given with.
OwnParameter(inference) == inference[1] = inference[2]

\* A tensor more, at the end.
Give == /\ inferences' # <<>>
        /\ inferences' = Append(inferences, inferences'[Len(inferences')])
        /\ OwnParameter(inferences'[Len(inferences')])

\* The oldest tensor is returned.
Return == inferences # <<>> /\ inferences' = Tail(inferences)

InferenceSpec == inferences = <<>> /\ [][Give \/ Return]_inferences
=============================================================================
