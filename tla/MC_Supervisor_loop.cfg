\* One signal of each kind raled handles but SIGUSR2 (whose handler never
\* returns), delivered to the main loop thread; up to three membership lines
\* from clients: a duplicate add, two new nodes (the second one over a
\* MAX_NODES scaled down to 4) and a removal.
CONSTANTS
    Signals = {"SIGTERM", "SIGINT", "SIGQUIT", "SIGHUP", "SIGUSR1", "SIGPIPE"}
    Targets = {"loop"}
    SelfId = 1
    MaxNodes = 4
    MaxSignals = 1
    Commands <- MCCommands
    MaxCommands = 3
SPECIFICATION FairSpec
PROPERTY ShutdownCompletes ReloadServed
