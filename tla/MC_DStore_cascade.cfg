\* No external clients; the environment kills one raled process, and the
\* others read the end of its connections.
CONSTANTS
    NodeCount = 3
    Key <- MCKey
    Value <- MCValue
    K1 = K1
    V1 = V1
    NotFound = NotFound
    InitFile <- MCFileAbsent
    LinksWork = TRUE
    MaxRequests = 0
    MaxKills = 1
    MaxTerm = 1
SPECIFICATION Spec
INVARIANT NodesSurviveDisconnects
CHECK_DEADLOCK FALSE
