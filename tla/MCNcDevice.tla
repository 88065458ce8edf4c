----------------------------- MODULE MCNcDevice -----------------------------
(* NcDevice with one device: a thread for the graphs, a thread for the fifos. *)
EXTENDS NcDevice, TLC

CONSTANTS GraphThread, FifoThread

MCUses == GraphThread :> (Devices \cup Graphs) @@ FifoThread :> (Devices \cup Fifos)
=============================================================================
