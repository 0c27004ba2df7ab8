----------------------------- MODULE MC_DStore -----------------------------
EXTENDS DStore, TLC

CONSTANTS K1, V1

MCKey == {K1}
MCValue == {V1}

\* No /rale.state yet: fopen fails and DStore reads no leader.  The
\* record is what such a file parses as in every use: no leader for
\* dstore_get_current_leader, and voted_for -1 and term 0 kept by
\* write_rale_state_leader.
MCFileAbsent == [n \in 1..NodeCount |-> [term |-> 0, voted |-> -1, leader |-> -1]]
=============================================================================
