--------------------------- MODULE MCDiscoveryCrawl ---------------------------
(***************************************************************************)
(* Four devices around a seed that sorts in the middle: 2 names 1 and 3,   *)
(* 1 names 4 and, like 3, names 2 back. Two addresses in ARP tables, one   *)
(* of which a neighbour table may explain and two devices see.             *)
(***************************************************************************)
EXTENDS DiscoveryCrawl

MCDevices    == 1 .. 4
MCEndpoints  == {5, 6}
MCNeighbours == <<{2, 4}, {1, 3}, {2}, {1}>>
MCAdvertised == <<{}, {}, {6}, {}>>
MCHosts      == <<{5, 6}, {5}, {}, {}>>
MCPlans      == {<< >>, <<"neighbors", "hosts">>}

MCCalls == { [devices |-> 6, probes |-> 1, workers |-> 2],
             [devices |-> 5, probes |-> 2, workers |-> 1],
             [devices |-> 2, probes |-> 2, workers |-> 3] }
=============================================================================
