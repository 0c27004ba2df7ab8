---------------------------- MODULE MC_Supervisor ----------------------------
EXTENDS Supervisor

\* Every signal raled installs a handler for and that changes its state.
MCSignals == {"SIGTERM", "SIGINT", "SIGQUIT", "SIGHUP", "SIGUSR1", "SIGUSR2", "SIGPIPE"}

\* PROPAGATE_ADD of a registered id and of two new ones, PROPAGATE_REMOVE
\* of a node in the middle of the registry.
MCCommands == {[kind |-> "ADD", id |-> 1], [kind |-> "ADD", id |-> 4],
               [kind |-> "ADD", id |-> 5], [kind |-> "REMOVE", id |-> 2]}
=============================================================================
