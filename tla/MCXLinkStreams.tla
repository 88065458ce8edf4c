--------------------------- MODULE MCXLinkStreams ---------------------------
(* XLinkStreams between a host and a device, for three kinds of applications. *)
EXTENDS XLinkStreams, TLC

CONSTANTS Host, Device, x, y

MCThreadsOf == [p \in Peers |-> 2]
MCBoth(host, device) == Host :> host @@ Device :> device

\* The host opens two streams, writes to them, closes them and opens them again.
MCOneWay == [names |-> {x, y}, sizes |-> {2}, openers |-> {Host},
             threads |-> MCBoth(2, 1), calls |-> MCBoth(5, 4), exclusive |-> TRUE]

\* Both peers open a stream, write to it and close it.
MCBothWays == [names |-> {x}, sizes |-> {1}, openers |-> {Host, Device},
               threads |-> MCBoth(2, 2), calls |-> MCBoth(5, 3), exclusive |-> TRUE]

\* Threads close a stream that others still use.
MCCareless == [names |-> {x}, sizes |-> {1}, openers |-> {Host, Device},
               threads |-> MCBoth(2, 1), calls |-> MCBoth(4, 3), exclusive |-> FALSE]

MCApplications == {MCOneWay, MCBothWays, MCCareless}
MCApplicationsBothWays == {MCBothWays}
=============================================================================
