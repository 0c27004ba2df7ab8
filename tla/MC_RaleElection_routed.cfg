\* Protocol handlers over a transport that returns replies to the sender's
\* RALE port; crashes never tear rale.state.
CONSTANTS
    N1 = N1
    N2 = N2
    N3 = N3
    Node <- MCNode
    Host <- MCHostPerNode
    Port <- MCPort
    SourceIsTarget = FALSE
    TornSave = FALSE
    CancelInSave = FALSE
    ControlSocket = TRUE
    ForeignSender = TRUE
    BlockingReceive = FALSE
    MaxTerm = 2
    MaxRestarts = 1
    Nil = Nil
SPECIFICATION Spec
SYMMETRY MCSymmetry
INVARIANT TypeOK
INVARIANT VoteOncePerTerm
INVARIANT DurableState
INVARIANT LeaderIdElected
PROPERTY TermNeverDecreases
PROPERTY VoterStateRefined
