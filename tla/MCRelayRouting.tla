---------------------------- MODULE MCRelayRouting ----------------------------
EXTENDS RelayRouting, TLC

\* Daemon connections, and nodes, are interchangeable.
Symmetry == Permutations(Conns) \cup Permutations(Nodes)
=============================================================================
