--------------------------- MODULE MC_RaleElection ---------------------------
(* Instantiation of RaleElection for TLC: three nodes, as raled registers.  *)
EXTENDS RaleElection, TLC

CONSTANTS N1, N2, N3

MCNode == {N1, N2, N3}

\* every node on its own machine / all on one machine (127.0.0.1 in raled)
MCHostPerNode == [n \in Node |-> n]
MCHostShared == [n \in Node |-> "127.0.0.1"]

\* every node has its own rale_port (5001..5003 in raled)
MCPort == [n \in Node |-> n]

\* Host and Port map a permuted node to the permuted address, so permuting
\* node ids maps behaviours to behaviours.
MCSymmetry == Permutations(MCNode)
=============================================================================
