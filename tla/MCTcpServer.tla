----------------------------- MODULE MCTcpServer ------------------------------
(* TcpServer for TLC.                                                        *)
EXTENDS TcpServer, TLC

(* Two ports of one host, with the same low byte.                            *)
Address(high, low) == [ip |-> <<10, 0, 0, 1>>, port |-> <<high, low>>]
MCPeers == {Address(1, 7), Address(2, 7)}

Symmetry == Permutations(Conns) \cup Permutations(Workers)
=============================================================================
