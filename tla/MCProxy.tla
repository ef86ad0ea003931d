------------------------------- MODULE MCProxy -------------------------------
(* The instances of Proxy that TLC checks.  Each target alone has room for    *)
(* two connections, or for two flows that compete for one slot and a second   *)
(* socket for a flow that was replaced; the two together have one of each.    *)
EXTENDS Proxy

CONSTANTS p1, p2, k1, k2

MCPairs == {p1, p2}
MCKeys  == {k1, k2}

TCPOnly == [targets |-> {"tcp"}, pairs |-> MCPairs, keys |-> {}, sockets |-> 0]
UDPOnly == [targets |-> {"udp"}, pairs |-> {}, keys |-> MCKeys, sockets |-> 2]
Both    == [targets |-> {"tcp", "udp"}, pairs |-> {p1}, keys |-> {k1}, sockets |-> 1]

MCSetups    == {TCPOnly, UDPOnly, Both}
MCUDPSetups == {[UDPOnly EXCEPT !.keys = {k1}, !.sockets = 1]}
=============================================================================
