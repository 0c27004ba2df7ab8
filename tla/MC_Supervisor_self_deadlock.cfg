\* A single SIGTERM, which the kernel may deliver to the main thread.
CONSTANTS
    Signals = {"SIGTERM"}
    Targets = {"main", "loop"}
    SelfId = 1
    MaxNodes = 10
    Commands = {}
    MaxCommands = 0
    MaxSignals = 1
SPECIFICATION FairSpec
INVARIANT NoSelfDeadlock
