\* The code's transport, one node per machine; a SIGTERM's cancel may land inside rale_state_save.
CONSTANTS
    N1 = N1
    N2 = N2
    N3 = N3
    Node <- MCNode
    Port <- MCPort
    Nil = Nil
    Host <- MCHostPerNode
    SourceIsTarget = TRUE
    TornSave = FALSE
    CancelInSave = TRUE
    ControlSocket = FALSE
    ForeignSender = FALSE
    BlockingReceive = FALSE
    MaxTerm = 2
    MaxRestarts = 1
SPECIFICATION Spec
SYMMETRY MCSymmetry
INVARIANT VoteOncePerTerm
