\* The code as shipped: three raled processes on 127.0.0.1, the code's
\* transport, and the RALE socket left blocking by udp_server_init.
CONSTANTS
    N1 = N1
    N2 = N2
    N3 = N3
    Node <- MCNode
    Port <- MCPort
    Nil = Nil
    Host <- MCHostShared
    SourceIsTarget = TRUE
    TornSave = FALSE
    CancelInSave = FALSE
    ControlSocket = FALSE
    ForeignSender = FALSE
    BlockingReceive = TRUE
    MaxTerm = 3
    MaxRestarts = 0
SPECIFICATION FairSpec
PROPERTY EventuallyLeader
\* Every node waits in recvfrom on its first tick and no node ever sends:
\* the initial state is the stuttering suffix the violation ends in.
CHECK_DEADLOCK FALSE
