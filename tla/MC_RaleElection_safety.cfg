\* Two leaders in one term under the routing the handlers assume.
CONSTANTS
    N1 = N1
    N2 = N2
    N3 = N3
    Node <- MCNode
    Port <- MCPort
    Nil = Nil
    Host <- MCHostPerNode
    SourceIsTarget = FALSE
    TornSave = FALSE
    CancelInSave = FALSE
    ControlSocket = FALSE
    ForeignSender = FALSE
    BlockingReceive = FALSE
    MaxTerm = 2
    MaxRestarts = 0
SPECIFICATION Spec
SYMMETRY MCSymmetry
INVARIANT ElectionSafety
