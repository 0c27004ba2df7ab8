\* Does every loop keep turning, under the fairness of the 50 ms ticks?
CONSTANTS
    NodeCount = 2
    Key <- MCKey
    Value <- MCValue
    K1 = K1
    V1 = V1
    NotFound = NotFound
    InitFile <- MCFileAbsent
    LinksWork = TRUE
    MaxRequests = 0
    MaxKills = 0
    MaxTerm = 1
SPECIFICATION FairSpec
PROPERTY LoopNeverBlocked
CHECK_DEADLOCK FALSE
