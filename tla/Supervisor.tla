----------------------------- MODULE Supervisor -----------------------------
(***************************************************************************)
(* The raled process around its protocols: the main thread's loop and     *)
(* cleanup (raled_main.c), the main loop thread that runs the ticks, the   *)
(* signal handler (raled_signal.c) and the coordinated-shutdown flags      *)
(* (shutdown.c).                                                           *)
(*                                                                         *)
(* A signal runs its handler on the thread it is delivered to, on top of   *)
(* whatever that thread was doing: `frames[t]` is the stack of handlers    *)
(* running on thread t, and while it is not empty the thread's own code   *)
(* does not move.  signal() installs BSD semantics on Linux: a signal is  *)
(* blocked while its own handler runs, other signals are not.             *)
(* `owner` is the holder of signal_ctx.mutex, a default (non-recursive)   *)
(* mutex.  The ticks themselves belong to the other modules; here the     *)
(* loop thread only checks its flag and sleeps (its cancellation point).   *)
(*                                                                         *)
(* Start-up is main() up to its loop, in foreground mode: the shutdown     *)
(* flags are initialised, the handlers installed one signal() at a time,  *)
(* then initialize_librale runs rale_init (the cluster registry, the UDP  *)
(* socket, the DStore listener), registers the three nodes and starts the *)
(* loop thread.  Until the loop thread exists, main is the only thread a   *)
(* signal can be delivered to.                                             *)
(***************************************************************************)
EXTENDS Cluster

CONSTANTS
    Signals,     \* the signals the environment sends
    Targets,     \* the threads the kernel may deliver them to
    MaxSignals,  \* signals delivered in a behaviour
    SelfId,      \* config.node.id
    Commands,    \* the PROPAGATE_ADD / PROPAGATE_REMOVE lines clients send
    MaxCommands  \* how many of them reach the DStore server in a behaviour

Thread == {"main", "loop"}
Subsystem == {"dstore", "rale", "comm"}
None == "none"

ASSUME Signals \subseteq {"SIGTERM", "SIGINT", "SIGQUIT", "SIGHUP", "SIGUSR1", "SIGUSR2", "SIGPIPE"}
ASSUME Targets \subseteq Thread /\ MaxSignals \in Nat
ASSUME SelfId \in Int /\ MaxCommands \in Nat
ASSUME Commands \subseteq [kind : {"ADD", "REMOVE"}, id : Nat]

\* The order in which setup_signal_handlers installs signal_handler.
SignalOrder == <<"SIGTERM", "SIGINT", "SIGQUIT", "SIGHUP", "SIGUSR1", "SIGUSR2",
                 "SIGPIPE">>

\* The nodes initialize_librale registers, in order.
ConfiguredNodes == <<1, 2, 3>>

VARIABLES
    pc,           \* each thread's place in its own code
    frames,       \* each thread's stack of running signal handlers
    owner,        \* holder of signal_ctx.mutex, or None
    sigctx,       \* signal_ctx: shutdown / reload / status requests
    systemExit,   \* system_exit
    requested,    \* <subsystem>_shutdown_requested
    initialized,  \* shutdown_system_initialized
    cancelled,    \* pthread_cancel has been called on the loop thread
    installed,    \* how many signal() calls setup_signal_handlers has made
    registry,     \* the ids of cluster.nodes[0 .. node_count-1]
    selfId,       \* cluster.self_id
    started,      \* dstore_threads_started
    commands,     \* how many membership lines the server has read
    sent          \* ghost: the signals delivered so far, in order

vars == <<pc, frames, owner, sigctx, systemExit, requested, initialized,
          cancelled, installed, registry, selfId, started, commands, sent>>

\* The state start-up changes and the running process leaves alone.
startVars == <<installed, registry, selfId, started, commands>>

-----------------------------------------------------------------------------
(* shutdown.c *)

\* librale_request_shutdown forgetting rale_shutdown_requested.
RequestShutdownNoRale ==
    /\ systemExit' = 1
    /\ requested' = IF initialized THEN [requested EXCEPT !["dstore"] = 1,
                                                       !["comm"] = 1]
                   ELSE requested

\* librale_request_shutdown (the fallback only sets system_exit).
RequestShutdown ==
    /\ systemExit' = 1
    /\ requested' = IF initialized THEN [s \in Subsystem |-> 1] ELSE requested

\* librale_is_shutdown_requested(sub): the subsystem's flag once the
\* shutdown system is initialised, system_exit before.
IsShutdownRequested(sub) == IF initialized THEN requested[sub] = 1
                            ELSE systemExit = 1

-----------------------------------------------------------------------------
(* Start-up: main() and initialize_librale, up to the main loop.          *)

StartGoto(from, to) ==
    /\ frames["main"] = <<>>
    /\ pc["main"] = from
    /\ pc' = [pc EXCEPT !["main"] = to]

\* parse_arguments: getopt over -c -v -C -d -f -p -h (-h prints the help
\* and exits 0), the default raled.conf when no -c is given, then
\* handle_config_file, whose read_config fails (exit 1) when the file
\* cannot be opened; with --check, run_config_checks (directories, socket
\* path, ports) and exit 0 or 1.  Only a readable configuration without
\* -h or --check goes on to main's start-up; -d (daemon mode, with its
\* PID-file check) is left out.
ParseArguments ==
    /\ \E outcome \in {"help", "unreadable", "check", "run"} :
          StartGoto("start", IF outcome = "run" THEN "shutdown_init" ELSE "exited")
    /\ UNCHANGED <<frames, owner, sigctx, systemExit, requested, initialized,
                   cancelled, sent, startVars>>

\* librale_shutdown_init: clear system_exit and the subsystem flags.
ShutdownInit ==
    /\ StartGoto("shutdown_init", "handlers")
    /\ initialized' = TRUE
    /\ systemExit' = 0
    /\ requested' = [s \in Subsystem |-> 0]
    /\ UNCHANGED <<frames, owner, sigctx, cancelled, sent, startVars>>

\* One signal() call of setup_signal_handlers.
InstallHandler ==
    /\ StartGoto("handlers",
                 IF installed + 1 = Len(SignalOrder) THEN "config" ELSE "handlers")
    /\ installed' = installed + 1
    /\ UNCHANGED <<frames, owner, sigctx, systemExit, requested, initialized,
                   cancelled, sent, registry, selfId, started, commands>>

\* librale_config_set_node_id refuses a negative id; the other setters
\* initialize_librale calls refuse only NULL arguments, and raled passes
\* its config arrays.
ConfigNodeIdAccepted(id) == id >= 0

\* initialize_librale up to librale_rale_init: librale_config_create (a
\* malloc, which can fail) and the setters; any failure makes main
\* return 1.
ConfigureLibrale ==
    /\ \/ StartGoto("config", IF ConfigNodeIdAccepted(SelfId) THEN "rale_init"
                                                              ELSE "exited")
       \/ StartGoto("config", "exited")
    /\ UNCHANGED <<frames, owner, sigctx, systemExit, requested, initialized,
                   cancelled, sent, startVars>>

\* librale_rale_init, up to rale_proto_init: rale_init runs cluster_init
\* and cluster_set_self_id, which refuses an id outside 1..1000.  Every
\* error of rale_init makes initialize_librale fail, and main returns 1
\* with no cleanup.
RaleInit ==
    /\ StartGoto("rale_init", IF ValidNodeId(SelfId) THEN "proto_init" ELSE "exited")
    /\ registry' = ClusterInit
    /\ selfId' = IF ValidNodeId(SelfId) THEN SelfId ELSE -1
    /\ UNCHANGED <<frames, owner, sigctx, systemExit, requested, initialized,
                   cancelled, sent, installed, started, commands>>

\* rale_proto_init: reset the RALE state, load rale.state, and
\* rale_setup_socket, which binds the UDP port and fails if it is taken.
RaleProtoInit ==
    /\ \/ StartGoto("proto_init", "dstore_init")
       \/ StartGoto("proto_init", "exited")
    /\ UNCHANGED <<frames, owner, sigctx, systemExit, requested, initialized,
                   cancelled, sent, startVars>>

\* tcp_server_init: malloc, socket, setsockopt(SO_REUSEADDR), bind,
\* listen; each can fail (bind when another socket listens on the DStore
\* port), and a failure closes the socket and returns NULL.
TcpServerInitResults == {"listening", "NULL"}

\* dstore_init: dstore_init_server's tcp_server_init; a NULL server makes
\* dstore_init, rale_init and initialize_librale fail.  The client slots
\* stay NULL.
DStoreInit ==
    /\ \E r \in TcpServerInitResults :
          StartGoto("dstore_init", IF r = "listening" THEN "add" ELSE "exited")
    /\ UNCHANGED <<frames, owner, sigctx, systemExit, requested, initialized,
                   cancelled, sent, startVars>>

\* The three cluster_add_node calls; a failure is only logged.
RegisterNodes ==
    /\ StartGoto("add", "thread")
    /\ registry' = FoldLeft(ClusterAddNode, registry, ConfiguredNodes)
    /\ UNCHANGED <<frames, owner, sigctx, systemExit, requested, initialized,
                   cancelled, sent, installed, selfId, started, commands>>

\* pthread_create of the main loop thread: its failure is ignored, and
\* raled runs on with no loop thread and dstore_threads_started 0.
\* raled_init, which follows, only records the UDP port.
CreateLoopThread ==
    /\ frames["main"] = <<>>
    /\ pc["main"] = "thread"
    /\ \/ /\ started' = TRUE
          /\ pc' = [pc EXCEPT !["main"] = "check", !["loop"] = "check"]
       \/ /\ started' = FALSE
          /\ pc' = [pc EXCEPT !["main"] = "check"]
    /\ UNCHANGED <<frames, owner, sigctx, systemExit, requested, initialized,
                   cancelled, sent, installed, registry, selfId, commands>>

StartStep == ParseArguments \/ ShutdownInit \/ InstallHandler \/ ConfigureLibrale \/ RaleInit
             \/ RaleProtoInit
             \/ DStoreInit \/ RegisterNodes \/ CreateLoopThread

-----------------------------------------------------------------------------
(* The main thread: the while loop of main() and cleanup_resources. *)

Free == owner = None

\* One step of thread t's own code, taken only when no handler runs on it.
MainGoto(from, to) == pc["main"] = from /\ pc' = [pc EXCEPT !["main"] = to]

\* is_reload_requested, clear_reload_request, is_status_requested,
\* clear_status_request: lock signal_ctx.mutex, then read or clear the
\* flag and unlock.
LockFor(from, to) ==
    /\ MainGoto(from, to) /\ Free /\ owner' = "main"
    /\ UNCHANGED <<sigctx>>

ReadAndUnlock(from, flag, ifSet, ifClear) ==
    /\ pc["main"] = from
    /\ pc' = [pc EXCEPT !["main"] = IF sigctx[flag] = 1 THEN ifSet ELSE ifClear]
    /\ owner' = None
    /\ UNCHANGED sigctx

\* clear_*_request unlocking without clearing the flag.
ClearAndUnlockKeeps(from, flag, to) ==
    /\ MainGoto(from, to)
    /\ sigctx' = sigctx
    /\ owner' = None

ClearAndUnlock(from, flag, to) ==
    /\ MainGoto(from, to)
    /\ sigctx' = [sigctx EXCEPT ![flag] = 0]
    /\ owner' = None

MainStep ==
    /\ frames["main"] = <<>>
    /\ \/ /\ MainGoto("check", IF IsShutdownRequested("rale") THEN "cancel"
                                ELSE "reload")
          /\ UNCHANGED <<owner, sigctx>>
       \/ LockFor("reload", "reload_locked")
       \/ ReadAndUnlock("reload_locked", "reload", "clear_reload", "status")
       \/ LockFor("clear_reload", "clear_reload_locked")
       \/ ClearAndUnlock("clear_reload_locked", "reload", "status")
       \/ LockFor("status", "status_locked")
       \/ ReadAndUnlock("status_locked", "status", "clear_status", "check")
       \/ LockFor("clear_status", "clear_status_locked")
       \/ ClearAndUnlock("clear_status_locked", "status", "check")
    /\ UNCHANGED <<frames, systemExit, requested, initialized, cancelled, sent,
                   startVars>>

\* librale_rale_finit (RALE state reset, UDP socket destroyed, dstore_finit
\* closing the listener and the clients), comm_finit, and then
\* librale_shutdown_cleanup, which destroys the shutdown mutex and
\* condition variable and clears shutdown_system_initialized.
ShutdownCleanup == initialized' = FALSE

\* cleanup_resources: pthread_cancel and pthread_join the loop thread if
\* dstore_threads_started, librale_rale_finit (rale state reset, the UDP
\* socket destroyed, dstore_finit closing the listener and the clients)
\* and comm_finit, then librale_shutdown_cleanup; main returns.
MainCleanup ==
    /\ frames["main"] = <<>>
    /\ \/ /\ MainGoto("cancel", IF started THEN "join" ELSE "finit")
          /\ cancelled' = started
          /\ UNCHANGED initialized
       \/ /\ MainGoto("join", "finit")
          /\ pc["loop"] = "exited"
          /\ UNCHANGED <<initialized, cancelled>>
       \/ /\ MainGoto("finit", "exited")
          /\ ShutdownCleanup
          /\ UNCHANGED cancelled
    /\ UNCHANGED <<frames, owner, sigctx, systemExit, requested, sent, startVars>>

-----------------------------------------------------------------------------
(* The main loop thread: raled_main_loop_thread.  usleep is a             *)
(* cancellation point.  Of the ticks, only what changes the registry is   *)
(* modelled here: a membership line the DStore server reads.              *)

LoopStep ==
    /\ frames["loop"] = <<>>
    /\ \/ /\ pc["loop"] = "check"
          /\ pc' = [pc EXCEPT !["loop"] =
                      IF IsShutdownRequested("rale") THEN "exited" ELSE "tick"]
       \/ /\ pc["loop"] = "sleep"
          /\ pc' = [pc EXCEPT !["loop"] = IF cancelled THEN "exited" ELSE "check"]
    /\ UNCHANGED <<frames, owner, sigctx, systemExit, requested, initialized,
                   cancelled, sent, startVars>>

\* dstore_server_tick: return at once once dstore_shutdown_requested is
\* set; otherwise tcp_server_run's select (a cancellation point) and, if a
\* client sent one, a PROPAGATE_ADD or PROPAGATE_REMOVE line, which
\* dstore_server_on_receive hands to dstore_put_from_command.  The client
\* and RALE ticks that follow leave the registry alone.
LoopTick ==
    /\ frames["loop"] = <<>>
    /\ pc["loop"] = "tick"
    /\ \/ /\ cancelled
          /\ pc' = [pc EXCEPT !["loop"] = "exited"]
          /\ UNCHANGED <<registry, commands>>
       \/ /\ ~cancelled
          /\ pc' = [pc EXCEPT !["loop"] = "sleep"]
          /\ UNCHANGED <<registry, commands>>
       \/ /\ ~cancelled
          /\ ~IsShutdownRequested("dstore")
          /\ commands < MaxCommands
          /\ \E cmd \in Commands : registry' = ApplyPropagated(registry, cmd)
          /\ commands' = commands + 1
          /\ pc' = [pc EXCEPT !["loop"] = "sleep"]
    /\ UNCHANGED <<frames, owner, sigctx, systemExit, requested, initialized,
                   cancelled, sent, installed, selfId, started>>

-----------------------------------------------------------------------------
(* signal_handler (raled_signal.c).  A frame's step is "lock" (take       *)
(* signal_ctx.mutex and act on the signal), "health" (SIGUSR2 only:        *)
(* perform_health_check calls is_shutdown_requested, which locks the same *)
(* mutex again while this thread holds it, so no step leaves "health") or *)
(* "unlock" (release it and return).                                      *)

Top(t) == frames[t][Len(frames[t])]

SetTop(t, step) == [frames EXCEPT ![t][Len(frames[t])].step = step]

\* What the handler does under the lock, for each signal.
HandlerBody(sig) ==
    CASE sig \in {"SIGTERM", "SIGINT"} ->
             /\ sigctx' = [sigctx EXCEPT !.shutdown = 1]
             /\ RequestShutdown
      [] sig = "SIGQUIT" ->
             /\ sigctx' = [sigctx EXCEPT !.shutdown = 1]
             /\ systemExit' = 1 /\ UNCHANGED requested
      [] sig = "SIGHUP" ->
             /\ sigctx' = [sigctx EXCEPT !.reload = 1]
             /\ UNCHANGED <<systemExit, requested>>
      [] sig = "SIGUSR1" ->
             /\ sigctx' = [sigctx EXCEPT !.status = 1]
             /\ UNCHANGED <<systemExit, requested>>
      [] sig \in {"SIGUSR2", "SIGPIPE"} -> UNCHANGED <<sigctx, systemExit, requested>>

HandlerStep(t) ==
    /\ frames[t] # <<>>
    /\ \/ /\ Top(t).step = "lock" /\ Free
          /\ owner' = t
          /\ frames' = SetTop(t, IF Top(t).sig = "SIGUSR2" THEN "health" ELSE "unlock")
          /\ HandlerBody(Top(t).sig)
       \/ /\ Top(t).step = "unlock"
          /\ owner' = None
          /\ frames' = [frames EXCEPT ![t] = SubSeq(@, 1, Len(@) - 1)]
          /\ UNCHANGED <<sigctx, systemExit, requested>>
    /\ UNCHANGED <<pc, initialized, cancelled, sent, startVars>>

\* The kernel delivers sig to thread t of the running process; a signal
\* is blocked on a thread while its own handler runs there.
\* Whether signal() has been called for sig.
Installed(sig) == \E i \in 1..installed : SignalOrder[i] = sig

\* The threads of Targets that exist: the loop thread only once
\* pthread_create has started it.
Receivers == {t \in Targets : pc[t] \notin {"none", "exited"}}

Deliver(sig, t) ==
    /\ Len(sent) < MaxSignals
    /\ pc["main"] # "exited" /\ pc[t] \notin {"none", "exited"}
    /\ Installed(sig)
    /\ \A i \in DOMAIN frames[t] : frames[t][i].sig # sig
    /\ frames' = [frames EXCEPT ![t] = Append(@, [sig |-> sig, step |-> "lock"])]
    /\ sent' = Append(sent, sig)
    /\ UNCHANGED <<pc, owner, sigctx, systemExit, requested, initialized,
                   cancelled, startVars>>

\* A signal that arrives before setup_signal_handlers has installed its
\* handler takes its default action, which for all seven is to terminate
\* the process: no cleanup runs.
DefaultAction(sig) ==
    /\ Len(sent) < MaxSignals
    /\ pc["main"] # "exited"
    /\ ~Installed(sig)
    /\ pc' = [t \in Thread |-> "exited"]
    /\ sent' = Append(sent, sig)
    /\ UNCHANGED <<frames, owner, sigctx, systemExit, requested, initialized,
                   cancelled, startVars>>

-----------------------------------------------------------------------------

Init ==
    /\ pc = [main |-> "start", loop |-> "none"]
    /\ frames = [t \in Thread |-> <<>>]
    /\ owner = None
    /\ sigctx = [shutdown |-> 0, reload |-> 0, status |-> 0]
    /\ systemExit = 0
    /\ requested = [s \in Subsystem |-> 0]
    /\ initialized = FALSE
    /\ cancelled = FALSE
    /\ installed = 0
    /\ registry = <<>>
    /\ selfId = 0
    /\ commands = 0
    /\ started = FALSE
    /\ sent = <<>>

\* Everything thread t can do next: its top handler, or its own code.
ThreadStep(t) ==
    \/ HandlerStep(t)
    \/ t = "main" /\ (StartStep \/ MainStep \/ MainCleanup)
    \/ t = "loop" /\ (LoopStep \/ LoopTick)

\* main has returned: the process is gone.
Exited == pc["main"] = "exited" /\ UNCHANGED vars

Next ==
    \/ \E t \in Thread : ThreadStep(t)
    \/ \E sig \in Signals : \/ \E t \in Receivers : Deliver(sig, t)
                            \/ DefaultAction(sig)
    \/ Exited

\* The scheduler runs every runnable thread; a thread waiting for
\* signal_ctx.mutex gets it once the holder releases it for good, since
\* the main thread holds it only for a flag read between 100 ms sleeps.
FairSpec == Init /\ [][Next]_vars /\ \A t \in Thread : SF_vars(ThreadStep(t))

-----------------------------------------------------------------------------
(* Properties *)

\* No signal handler waits for signal_ctx.mutex while its own thread holds
\* it: signal_handler locks a default mutex that the interrupted code may
\* hold, which would block that thread for ever.
NoSelfDeadlock ==
    \A t \in Thread :
        frames[t] # <<>> /\ Top(t).step \in {"lock", "health"} => owner # t

Sent(sigs) == \E i \in DOMAIN sent : sent[i] \in sigs

\* A SIGTERM or SIGINT ends the process: signal_handler calls
\* librale_request_shutdown, both loops see rale_shutdown_requested, and
\* main returns from cleanup_resources.
ShutdownCompletes == [](Sent({"SIGTERM", "SIGINT"}) => <>(pc["main"] = "exited"))


\* A SIGHUP is served: the main loop sees reload_requested, clears it and
\* re-reads the configuration (or the process ends).
ReloadServed == [](sigctx.reload = 1 => <>(sigctx.reload = 0 \/ pc["main"] = "exited"))

=============================================================================
