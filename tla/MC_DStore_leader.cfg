\* raled as built: no /rale.state on any node, no external clients, no kills.
\* Does a node that RALE makes leader become DStore's leader?
CONSTANTS
    NodeCount = 2
    Key <- MCKey
    Value <- MCValue
    K1 = K1
    V1 = V1
    NotFound = NotFound
    InitFile <- MCFileAbsent
    LinksWork = TRUE
    MaxRequests = 0
    MaxKills = 0
    MaxTerm = 1
SPECIFICATION Spec
PROPERTY ElectedLeaderLeads
CHECK_DEADLOCK FALSE
