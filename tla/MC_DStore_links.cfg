\* TCP links work (tcp_client_init given an errbuf); no /rale.state on either node, as on a fresh host.
\* Every loop ends up blocked in recv (see MC_DStore_loop_blocks.cfg), so the model stops.
CONSTANTS
    NodeCount = 2
    Key <- MCKey
    Value <- MCValue
    K1 = K1
    V1 = V1
    NotFound = NotFound
    InitFile <- MCFileAbsent
    LinksWork = TRUE
    MaxRequests = 2
    MaxKills = 1
    MaxTerm = 1
SPECIFICATION Spec
INVARIANT TypeOK
CHECK_DEADLOCK FALSE
