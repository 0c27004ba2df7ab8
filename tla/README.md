# TLA+ models of RALE / DStore (librale, raled)

This directory holds TLA+ models of the coordination logic in `src/librale`:
the RALE leader election over UDP, the DStore replicated
key-value store over TCP that is meant to read RALE's `rale.state` to find
the leader (as built it reads another file, `/rale.state`; see DStore).
Every definition translates code under `src/`; `PROJECT.json` maps each
definition to the lines it models and lists the runs, mutants, findings and
hazards.

## The system

`raled` is one process per node. It registers nodes 1, 2 and 3
(`raled_main.c` 310-357, all on 127.0.0.1, RALE ports 5001-5003, DStore ports
6001-6003) and starts one thread, `raled_main_loop_thread`, that every 50 ms
calls in order `dstore_server_tick`, `dstore_client_tick` and `rale_tick`.

| Part | Source | What it does |
|---|---|---|
| RALE election | `rale_proto.c` | follower/candidate/leader roles, VOTE_REQUEST / VOTE_GRANTED / HEARTBEAT over UDP, saves `term voted_for leader_id ...` to `<db_path>/rale.state` on every transition and reloads it at start |
| UDP transport | `udp.c` | one server socket per node on its RALE port; each send creates a client socket with `udp_client_init(target_port)`, sends, destroys it; one datagram is read per tick, by a `recvfrom` that blocks until one arrives |
| DStore | `dstore.c` | TCP links between nodes, `PUT`/`FORWARD_PUT`/`DELETE` write path, replication from the leader, `LEADER`/`LEADER_ELECTED` snapshots that rewrite `rale.state`, membership propagation |
| Cluster registry | `cluster.c` | up to 10 node slots, add/remove/save/load; changed at run time by `PROPAGATE_ADD`/`PROPAGATE_REMOVE` lines |
| KV store | `db.c`, `hash.c` | a 1024-bucket chained hash table behind `db_insert`/`db_get` |
| TCP | `tcp_server.c`, `tcp_client.c` | select loop with 5 slots and line framing; clients with connect/send and disconnection callbacks |
| Shutdown | `shutdown.c` | per-subsystem shutdown flags and a completion condition variable |
| Signals and main thread | `raled_signal.c`, `raled_main.c` | one `signal_handler` for SIGTERM/INT/QUIT/HUP/USR1/USR2/PIPE that sets request flags under `signal_ctx.mutex`; the main thread polls the flags every 100 ms and runs `cleanup_resources` |

The two subsystems interact only through files and one call: RALE calls
`dstore_put_from_command("LEADER_ELECTED t l")` when it wins, and DStore
decides whether it is leader (`dstore_is_current_leader`) and whom to forward to
(`dstore_get_current_leader`) by reading a `rale.state` from disk. That is
not RALE's file: DStore builds the path from `db.path`, which raled leaves
empty (it passes its database path to `librale_config_set_db_path`, which
fills `node.db_path`, `librale.c` 133), so DStore reads `/rale.state`,
while RALE saves to `<node.db_path>/rale.state` (`rale_proto.c` 200). Only
DStore's own `write_rale_state_leader` writes `/rale.state`.

## Modules

### RaleElection (rale_proto.c, udp.c)

State per node: `currentTerm`, `votedFor`, `leaderId`, `role` (the fields of
`current_rale_state`), `votesReceived` and `electionActive` (the static
counters), `up` (the process runs) and `disk` (the parsed content of
`rale.state`). `msgs` is the set of datagrams ever sent and never emptied: a
datagram may be received any number of times, at any later step, or never.
`votesCast` is a history of every vote (`<<voter, term, candidate>>`), a self
vote included. `elected` is a history of every `rale_become_leader` call
(`<<node, term>>`).

Actions, one per handler:

* `FollowerTimeout`, `CandidateTimeout`: the follower and candidate duties that
  call `rale_start_election` (modelled as `StartElection`: term+1, vote for
  self, save, VOTE_REQUEST to every other node). The candidate's periodic
  re-send of the same VOTE_REQUEST adds nothing the datagram set does not
  already allow, so it is not a separate action.
* `LeaderHeartbeat`: `rale_send_heartbeat`.
* `HandleVoteRequest`, `HandleHeartbeat`, `HandleVoteGranted`: the three
  branches of `rale_handle_message`, each including the `rale_become_follower`,
  `rale_become_leader` and `rale_state_save` calls they make. VOTE_DENIED and
  HEARTBEAT_ACK change no modelled state at their receiver (the first is an
  unknown message there, the second only refreshes `last_heartbeat`) and are
  not kept.
* `StepDown`: the STEP_DOWN command of `rale_process_command`, which only the
  control socket (`usock.c`) sends. raled never starts that server, so
  `StepDown` is enabled only with `ControlSocket = TRUE`: the passing run
  allows it (more behaviours, same properties), the violation runs do not, so
  their traces are ones raled can produce.
* `HandleElectionTimeout`: the ELECTION_TIMEOUT branch of
  `rale_handle_message` (`rale_proto.c` 409-436), which repeats
  `rale_start_election` in any role, a leader's included. No program of the
  repository sends that datagram; `ForeignSender = TRUE` lets one arrive
  (routed run only). It reaches no state `StepDown` followed by
  `FollowerTimeout` does not, so the routed run's state count is unchanged.
* `Crash`, `Stop`, `Restart`: the process is killed (`Crash`), or stopped by
  SIGTERM (`Stop`: `cleanup_resources` pthread_cancels the loop thread and
  calls `rale_finit`, which clears the in-memory state without saving it and
  closes the RALE socket), and is started again (`rale_proto_init` +
  `rale_state_load`). `rale_state_save` truncates the file (`fopen("w")`)
  before it writes it, so a stop that lands inside a save leaves a file that
  fails to parse and reads back as the defaults (`FileAfterStop`). A save can
  be in progress only if the node's thread may be in a handler that saves
  (`SaveCanStart`: a follower or candidate timing out, a HEARTBEAT, a
  higher-term VOTE_REQUEST); each of them saves before it sends, so the
  interrupted handler sends nothing. `TornSave` lets a kill land there;
  `CancelInSave` lets the SIGTERM's cancel land there: the cancel takes
  effect at the loop thread's next cancellation point, which is its `usleep`
  or the `open`/`write` of a save in progress.
* `Listening(m)`: the RALE socket `rale_setup_socket` binds through
  `udp_server_init` at start-up and `rale_finit` closes: bound exactly while
  the process runs.

**Blocking receive.** `rale_quram_process` (`rale_proto.c` 617) starts every
tick with `udp_process_messages`, whose `recvfrom` (`udp.c` 536) is called on
the socket `udp_server_init` created, which nothing makes non-blocking
(`udp_set_nonblocking` and `udp_set_timeout` only touch the unused
`udp_socket` global). A tick therefore reaches the timeout and heartbeat duties
only once a datagram for the node has arrived: `TickPasses(n)` guards
`FollowerTimeout`, `CandidateTimeout` and `LeaderHeartbeat`.
`BlockingReceive = TRUE` is the code; `BlockingReceive = FALSE` is the
specification's single non-blocking poll (spec 4.4), under which the other
RALE runs, and the DStore and Supervisor models (whose loop ticks follow the
RALE tick on the same thread), ask their questions.

**Abstract voter.** `RaleVoterState` is what `rale.state` promises the
election: per node a durable term that only grows (`AdvanceTerm`, which may
carry a vote of the new term) and at most one vote per term, never withdrawn
(`CastVote`). `RaleElection` instantiates it with `term <- disk[n].term`,
`vote <- disk[n].votedFor`, and the routed run checks `Voter!Spec` as the
property `VoterStateRefined`. Every save of the code (the handlers, the
duties, `rale_become_*`) is an `AdvanceTerm`, a `CastVote` or a stutter
(a leader-id change only); kills and stops leave the file as it is.

Timers are not modelled: a timeout may fire at any tick. This covers every
timing of the real clocks, so safety results hold for all of them.

**Transport.** `udp_client_init(port)` binds the client socket to the port it
is about to send to (`udp.c` 416). The datagram therefore leaves from the
target's port, the bind fails if a running process on the same host already
holds that port, and the receiver's reply goes to `<sender ip, its own
port>`, which it cannot bind either. The constant
`SourceIsTarget = TRUE` is the code; `SourceIsTarget = FALSE` sends from the
sender's own RALE port, the routing under which the handlers' reply logic
(and the specification's election scenarios) make sense. `Host` and `Port`
give each node's address. With the code's transport, VOTE_GRANTED never
arrives anywhere, so the vote-counting code is reachable only with the second
setting; the runs use each where it answers a question.

### HashTable, KvStore (hash.c, db.c)

`KvStore` is the abstract specification of the cluster key-value API that
dstore.c uses (`db_insert`, `db_get`, `db_delete`): a map `kv` and the
`reply` of the last call. `HashTable` is the implementation: `entries` is
`table->entries`, one chain (a sequence, head first) per bucket, restricted
to the buckets any model key can reach (every other bucket stays NULL).
Keys are byte strings given as sequences of character codes, because the
bucket is computed from the characters; values are model values.

* `hash` and `hash_func` are RECURSIVE operators looping over the key as the
  C `while` loops do. The `unsigned int` arithmetic wraps at 2^32 and is then
  reduced modulo `HASH_SIZE` = 1024; since 1024 divides 2^32 the model reduces
  every intermediate value modulo 1024, which yields the same bucket. A
  consequence worth knowing: since 32^2 = 1024, `hash` depends only on the
  last two characters of a key. `HashRef` is a reference definition of
  `hash` (the polynomial summed term by term); `KeysWhereHashed` checks
  every stored entry against it.
* `hash_put` (overwrite an entry found by `strcmp`, else push at the head),
  `hash_get`, `hash_delete` are operators on the table; the actions
  `db_insert`, `db_get`, `db_delete` are the db.c wrappers around them,
  including their return values (`db_insert` and `db_delete` report success
  whatever `hash_put`/`hash_delete` returned). `DbInitCalled` says whether
  `db_init` allocated the table. In the code nothing calls it: the table is
  NULL, every `db_insert` stores nothing and still reports success (with
  `DbInitCalled = FALSE`, `KvRefinement` fails at the first insert/get pair).
  The runs set it to TRUE, to check the table itself.
* `Contents` reads the table back as a map and is the refinement mapping:
  `KvRefinement` is `KvStore!Spec` with `kv <- Contents`.

Keys of the model: `"ab"` and `"bB"` (same `hash` bucket 130, so a chain of
two and the unlink-after-predecessor case), `"rale_leader_term_1"` (the key
written on `LEADER_ELECTED`, 18 characters, so the 32-bit wrap happens) and
`"az1"`, one of the 1 in 1024 keys whose two hashes agree, so that a
`db_get` can also succeed.

### DStore (dstore.c, tcp_client.c, tcp_server.c)

Node ids are `1..NodeCount` and node `n` sits at index `n-1` of
`cluster.nodes`, `tcp_clients` and `connection_status`; the model keeps ids
and indices apart (`IdOf`, `IndexOf`) because the code mixes them up. A TCP
connection `<<a, b>>` is node a's client connected to node b's server.

Framing decides what DStore can do. `tcp_server_send` writes each message
and then `"\n"`, and `dstore_client_on_receive` splits what `recv` returns
at `"\n"`, so the server-to-client direction works: `down[c]` holds the
whole lines b's server has sent and a's client has not read. In the other
direction `tcp_client_send` writes the bare string, no DStore caller adds
a newline, and `tcp_server_run` hands `on_receive` only text before a
`"\n"` (`tcp_server.c` 338). HELLO, KEEP_ALIVE, the snapshot, replicated
PUT and DELETE, FORWARD_PUT and FORWARD_DELETE sent by a peer's client stay
in the server's `recv_buf` for ever. The model therefore has no
client-to-server stream. Such a send can still fail, and a failure matters
(`SendOn`). Only external clients (ralectrl, tests), which end their lines,
reach a server.

State per node: `file` (the parsed `term voted_for leader_id` of
`/rale.state`, the file DStore reads; a missing file is modelled as
`term 0, voted_for -1, leader -1`, which every reader and writer treats the
same way: no leader, and `write_rale_state_leader` keeps term 0 and
voted_for -1), `kv` (the store, taken as the map `KvStore` describes,
including the `rale_leader_term_<t>` keys of `LEADER_ELECTED`), `client`
(`tcp_clients[i]`: NULL, created, connected), `connStatus`
(`connection_status`), `cursor` and `connTick` (where the node's one loop
thread is), and `proc` (the process is up, was killed by the environment,
or crashed). `accepted` holds the connections servers have accepted.
`released` holds the ones whose slot a server freed after a read error.
`requests` counts lines from external clients.

Each node's loop thread runs `dstore_server_tick`, `dstore_client_tick`
and `rale_tick` in turn. `cursor[n] = Done` is the server tick. These
happen in it:
- `ServerAccept`: `tcp_server_run` accepts a `Pending` connection and
  `dstore_server_on_connection` sends KEEP_ALIVE, the PROPAGATE_ADD
  snapshot and, if `rale.state` names a leader, `LEADER 0 <leader>`.
- One line from an external client (`ServeLine`), which is one of:
  - `ServePut`: `HandlePut`, with forwarding at a non-leader and the whole
    `dstore_replicate_to_followers` loop at the leader;
  - `ServeForwardPut`: `HandleForwardPut`, a FORWARD_PUT line. The branch
    in `dstore_put_from_command` checks the `k=v` part and then falls
    through to the `"PUT "` check, which rejects the line, so the store is
    left unchanged (the hazard at `dstore.c` 1556);
  - `ServeDelete`: `HandleDelete`, DELETE or FORWARD_DELETE;
  - `ServeLeaderElected`: store the term's leader, rewrite `rale.state`,
    broadcast `LEADER t l`;
  - `ServeLeader`: a `LEADER t l` line, handled as `ClientLine` does;
- `RaleBecomeLeader(n, t)`: `rale_become_leader` in node n's `rale_tick`
  handing DStore `LEADER_ELECTED t n` (the same handler as
  `ServeLeaderElected`). `write_rale_state_leader` writes
  `t -1 n 0 0` into a missing `/rale.state`, and both leader readers
  reject the `-1`: no node's DStore ever becomes leader
  (`dstore_leader_unknown`).
  - `ServeHello`: set `connection_status`.
- `KeepAliveFails`, `ServerEof`, `ServerReset` and `ExternalHangup`: see
  below.

`PollTick` and `ConnectTick` start a client tick (less or more than a
second since the last connection tick). Then there is one step per slot of
`tcp_clients`:
- `ClientSkipSelf`;
- `ClientPass`: not connected on a poll tick, or NULL after
  `dstore_init_client`;
- `ClientBackoff`: still in the retry interval;
- `ClientConnect`: connect succeeds against the listening peer,
  `connection_status` is set, and the loop breaks;
- `ClientRefused`: the peer's process is gone;
- `ClientRun`: `tcp_client_run`, a blocking `recv`, enabled only when
  `down[c]` is not empty. Every line then goes through `ClientLine`:
  KEEP_ALIVE is skipped, PROPAGATE_ADD is refused by `cluster_add_node` as
  the id exists, and `LEADER t l` is written into `rale.state`;
- `ClientEof`.

A node whose `ClientRun` waits on an empty stream has no step left: its
loop is blocked.

**Connections ending.** `Kill(n)` is the environment ending a raled
process. The kernel then closes its sockets. A peer whose server had sent
lines the dead client never read gets a reset; otherwise it gets an end of
stream. Each surviving side reacts as its code does:
- `ServerReset`: `tcp_server_run`'s read-error path frees the slot with no
  callback.
- `ServerEof`: the end-of-stream path calls `dstore_server_on_disconnection`.
  That calls `tcp_server_client_disconnect`, which calls `on_disconnection`
  again before it clears the slot. The recursion ends only when the stack
  overflows, so the process crashes.
- `ExternalHangup`: the same path for an external client that closes its
  connection after its command.
- `ClientEof`: `tcp_client_receive` reads 0 bytes.
- `KeepAliveFails`: `dstore_send_keep_alive`'s send fails.
- `SendOn`: a replicated or forwarded write's send fails.

The last three call `dstore_client_on_disconnection`. It calls
`tcp_client_cleanup`, which frees the client, and then frees it a second
time. glibc aborts on the double free. SIGPIPE is caught by raled's
handler, so a failed send returns `EPIPE` and reaches this path.

`LinksWork` says whether `tcp_client_init` can create a client. As built it
cannot, since `dstore_init_client` passes a NULL `errbuf` and
`tcp_client_init` refuses it (`LinksWork = FALSE`); DStore then forwards
nothing and, since no node's DStore is leader, stores nothing either. The runs set it to TRUE, to ask what the rest
of the code does once links come up.

Not modelled:
- GET, which changes no state;
- server keep-alives, which go only to HELLO-mapped sockets and so never
  exist;
- the content of a reused slot's `recv_buf` (see the hazards);
- PROPAGATE_ADD of an unknown node: every node registers the same peers;
- the `rale.db` append log, which is never read;
- `dstore_client_loop` and `dstore_server_loop`, which nothing calls.

Bounds:
- Every run starts from `MCFileAbsent`: no `/rale.state` on any node, as
  on a fresh host (writing `/` needs root; without it the file stays
  missing, which reads the same). A start where the file already names a
  leader with a vote cannot be reached by the code, so the leader branches
  of `HandlePut` and `HandleDelete` are modelled but never taken.
- `dstore_links` uses two nodes, at most two external lines and one kill.
  Two nodes give a connection each way, forwards, a disconnect and the
  LEADER paths. Three nodes with a kill do not finish within the time
  limit. That run explores 1.5 million distinct states in about 25
  seconds.
- `dstore_cascade` uses the three nodes raled registers;
  `dstore_loop_blocks` and `dstore_leader_unknown` need only two.
- One key, one value and `MaxTerm = 1` for `LEADER_ELECTED` and `LEADER`
  lines (RALE's leaders start at term 1). Each question needs a single
  write.
- The streams are bounded by the code itself, since a server writes only
  at accept, so no state constraint is needed.

Fairness (`FairSpec`, used only by `dstore_loop_blocks`):
- weak fairness of each node's client-tick step: a started tick goes on
  unless `recv` blocks;
- strong fairness of the connection tick, which recurs at least every
  second while the loop runs;
- strong fairness of each accept: every server tick's `select` sees a
  pending connection.

Polling ticks, backoff, external commands and kills get no fairness.

### Supervisor (raled_main.c, raled_signal.c, shutdown.c)

Two threads: `main` (the `while` loop of `main()` and `cleanup_resources`)
and `loop` (`raled_main_loop_thread`; its ticks belong to the other
modules, so here it only checks `rale_shutdown_requested` and sleeps in
`usleep`, its cancellation point). `pc` is each thread's place in its own
code; each `is_*_requested`/`clear_*_request` call is two steps (lock, then
read or clear and unlock), because what matters is that main *holds*
`signal_ctx.mutex` in between. `owner` is that mutex's holder.

A signal runs `signal_handler` on the thread it is delivered to, on top of
whatever the thread was doing: `frames[t]` is the stack of handlers
running on thread `t`, and the thread's own code does not move while it is
not empty. `signal()` gives BSD semantics on Linux: the signal being
handled is blocked, others are not, so a second, different signal can
nest. A handler frame steps through `lock` (take the mutex, act on the
signal: `HandlerBody`), `unlock` (release it, return). SIGUSR2 goes to
`health` instead, where `perform_health_check` calls
`is_shutdown_requested`, which locks the mutex the handler holds; no step
leaves it. `sigctx`, `systemExit`, `requested` and `initialized` are the
flags of `signal_ctx` and `shutdown.c`. `Deliver` is the kernel delivering
a signal to a running thread; `Exited` is the stuttering of a process that
has returned from `main`.

Start-up is `main()` up to its loop, in the foreground (the default;
daemon mode is a hazard, not modelled). `ParseArguments` is
`parse_arguments` with `handle_config_file`: `-h`, an unreadable
configuration file and `--check` (after `run_config_checks`) end the
process before anything is opened, and only a readable configuration
without them goes on. The option values and the parsed configuration are
not state of the model: `SelfId` stands for the node id read_config
produced. `ShutdownInit` is
`librale_shutdown_init`; `InstallHandler` is one `signal()` call of
`setup_signal_handlers`, in its order (`installed` counts them, and a
signal not yet installed takes its default action, `DefaultAction`, which
ends the process with no cleanup); `ConfigureLibrale` is the first part of
`initialize_librale`: `librale_config_create` (a `malloc` that may fail)
and the `librale_config_set_*` calls, of which only the node id can be
refused (`ConfigNodeIdAccepted`: negative ids); `RaleInit` is the start of `rale_init`:
`cluster_init` empties the registry (`ClusterInit`), `cluster_set_self_id`
sets `selfId` (-1 for an id outside 1..1000, and start-up fails);
`RaleProtoInit` (the UDP bind of `rale_setup_socket`) and `DStoreInit`
(the listen of `tcp_server_init`) may fail, and on any failure `main`
returns 1 at once; `RegisterNodes` folds the
three `cluster_add_node` calls (`ClusterAddNode`: id range, duplicates,
`MAX_NODES`) over `registry`; `CreateLoopThread` is the `pthread_create`
whose failure `initialize_librale` ignores, leaving `started`
(`dstore_threads_started`) false and no loop thread, which
`cleanup_resources` then neither cancels nor joins. A signal can only be
delivered to a thread of `Targets` that exists (`Receivers`).

The loop thread's round is `LoopStep` (the `rale_shutdown_requested`
check, then `usleep`, a cancellation point) and `LoopTick`: of the three
ticks only what changes the registry is kept. `dstore_server_tick`
returns at once once `dstore_shutdown_requested` is set; otherwise
`tcp_server_run`'s `select` (also a cancellation point) may read one
`PROPAGATE_ADD` or `PROPAGATE_REMOVE` line from a client, which
`dstore_server_on_receive` hands to `dstore_put_from_command` and the
`Cluster` operators apply to `registry` (`commands` bounds them).

### Cluster (cluster.c, the PROPAGATE branches of dstore.c)

Operators on the registry, kept as the sequence of the ids in
`cluster.nodes[0 .. node_count-1]`: `ClusterInit`, `ClusterAddNode` (id in
1..1000, not present, `node_count < MAX_NODES`, appended),
`ClusterRemoveNode` (the slot dropped, later slots shifted down), and the
two propagated commands. Their parse is modelled by the offsets it reads
at: `dstore_handle_propagated_add` starts at `command + 13`, the space
before the id, which `strtok` skips, so the id is read;
`dstore_handle_propagated_remove` starts at `command + 16`, the same space,
where `isdigit` fails, so `node_id` stays -1 and no `PROPAGATE_REMOVE` ever
removes a node (spec.md 8 says `LIST` after `PROPAGATE_REMOVE(id)` excludes
`id`). `ApplyPropagated` is the dispatch of `dstore_put_from_command`,
which first returns when `node_count` is 0. The module has no behaviour of
its own: Supervisor applies it.

Bounds: one delivered signal in the pass run (`MaxSignals = 1`), to the
loop thread, and three membership lines out of: an add of registered node 1,
adds of new nodes 4 and 5, and a removal of node 2, the middle slot, so that
an add can follow a removal and both new nodes can arrive.
`MAX_NODES` is scaled down from 10 to 4 so that the second new node meets
a full table. Two signals on one thread, or any signal to the main thread
while it holds the mutex, already deadlock (the violation run finds the
latter right after start-up), so the pass run asks what the code does when the
handler cannot meet its own thread's lock. SIGUSR2 is left out of it: it
hangs the loop thread and then main at its next lock.

Fairness: strong fairness of each thread's next step (`ThreadStep`). The
main thread holds `signal_ctx.mutex` only across one flag read and sleeps
100 ms per round, so a handler waiting for it on the other thread gets it
infinitely often; weak fairness would not do, since the mutex is free only
intermittently. Signals get no fairness.

What TLC shows: with one SIGTERM or SIGINT to the loop thread, raled always
stops (`ShutdownCompletes`), and a SIGHUP is always served
(`ReloadServed`). `ShutdownCompletes` is asked of the loop thread only;
a signal to main that deadlocks it is `NoSelfDeadlock`'s question. A SIGTERM delivered to the main
thread while it is inside `is_reload_requested` violates `NoSelfDeadlock`:
the handler waits for the mutex main holds. A SIGQUIT is handled but never
stops raled: it sets `system_exit` and `signal_ctx.shutdown_requested`, and
both loops wait for `rale_shutdown_requested` only (reachable in the pass
run, where a SIGQUIT behaviour loops for ever). `graceful_shutdown`,
`librale_wait_for_shutdown_completion` and `librale_signal_shutdown_complete`
are not modelled: raled never calls them. A signal before its handler is
installed ends raled by its default action (reached in the pass run); a
`pthread_create` failure leaves main as the only receiver, where the
violation run's deadlock is then always possible. Membership lines never
move a node to another slot, but only because `PROPAGATE_REMOVE` is never
applied: with the parse fixed, a removal of node 2 would move node 3 into
slot 1 while `tcp_clients[1]` and `connection_status[1]` still belong to
node 2's connection (a hazard in `PROJECT.json`, not a run).

## Runs

| Run | Config | Expect | Question |
|---|---|---|---|
| `rale_routed` | `MC_RaleElection_routed.cfg` | pass | with replies delivered, kills, clean stops, restarts, STEP_DOWN, foreign ELECTION_TIMEOUT datagrams, and any loss/duplication/reordering: does a node ever vote twice in a term (`VoteOncePerTerm`), does a term ever go back (`TermNeverDecreases`), does a running node's `rale.state` ever differ from its term, vote and leader (`DurableState`, the specification's persist/restart/load round trip)? Is the leader `rale.state` names, which DStore reads as the leader, always a node elected in a term no later than the file's (`LeaderIdElected`)? It is. A lower-term HEARTBEAT (`rale_proto.c` 376) and `rale_become_follower(-1)` (108) leave a leader id that is out of date, but never one that did not win. And does the file, read as term and vote, implement the abstract durable voter `RaleVoterState` (`VoterStateRefined`: the term only grows, the first vote of a term is never withdrawn or changed)? It does. |
| `rale_two_leaders` | `MC_RaleElection_safety.cfg` | violation | `ElectionSafety`: two leaders in term 2, because a VOTE_GRANTED of term 1 is counted in term 2 (`rale_proto.c` 398-407 checks neither the voter nor a lower term) |
| `rale_torn_state` | `MC_RaleElection_torn.cfg` | violation | `VoteOncePerTerm` with the code's transport on three machines: node 1 starts an election in term 1; SIGTERM's `pthread_cancel` (`raled_main.c` 218) lands inside the save of its next election and empties `rale.state`; restarted at term 0, it grants node 2's term-1 request: two votes in term 1. With `TornSave = TRUE` and `CancelInSave = FALSE` a kill gives the same trace |
| `rale_shipped_no_leader` | `MC_RaleElection_shipped.cfg` | violation | `EventuallyLeader` for raled as shipped (three processes on 127.0.0.1, the code's transport, the blocking RALE socket): every node waits in `recvfrom` on its first tick for a datagram nobody sends, so the initial state is the whole behaviour. With `BlockingReceive = FALSE` the same configuration is still violated a second way: every send binds the target's port, held by the target, so no datagram ever leaves (all reachable states have `msgs = {}`) |
| `kv_writes` | `MC_HashTable_writes.cfg` | pass | with the table allocated: one entry per key, in the bucket `HashRef` gives (`KeysWhereHashed`); each reported insert or delete changes the stored map as asked (`WritesTakeEffect`) |
| `kv_get_after_put` | `MC_HashTable_kv.cfg` | violation | `KvRefinement`: `db_insert("ab", v)` then `db_get("ab")` returns not-found: `hash_get` searches bucket `hash_func("ab")` = 808, the entry is in 130 |
| `dstore_links` | `MC_DStore_links.cfg` | pass | with links working, every interleaving of two nodes' server and client ticks, connections, LEADER snapshots, RALE's `LEADER_ELECTED` hand-over, two external lines (PUT, DELETE, FORWARD_DELETE, LEADER_ELECTED, LEADER, HELLO) at any node and one process kill stays well typed; it is the reachable-state coverage for every DStore action (`TypeOK`) |
| `dstore_leader_unknown` | `MC_DStore_leader.cfg` | violation | `ElectedLeaderLeads`: RALE's `rale_become_leader` hands DStore `LEADER_ELECTED 1 1`; DStore writes `1 -1 1 0 0` into `/rale.state` (not RALE's file, whose path raled sets only in librale), and `dstore_is_current_leader` rejects `voted_for = -1`: the elected node's DStore is not leader, forwards its writes to nobody and stores none |
| `dstore_loop_blocks` | `MC_DStore_loop_blocks.cfg` | violation | `LoopNeverBlocked`: nodes connect to each other (connect completes before the peer accepts) and on their next tick block in `recv`, each waiting for a server whose thread is blocked the same way; after an accept, the loop blocks once the snapshot is read, since the server never writes again |
| `dstore_cascade` | `MC_DStore_cascade.cfg` | violation | `NodesSurviveDisconnects`: node 2 connects to node 1 and marks it connected; node 1 is killed; node 2's next keep-alive send fails and `dstore_client_on_disconnection` frees the client twice (`dstore.c` 1234), so node 2 aborts. A server reading the end of stream recurses in `tcp_server_client_disconnect` instead (`tcp_server.c` 488) |
| `supervisor_signals` | `MC_Supervisor_loop.cfg` | pass | one SIGTERM, SIGINT, SIGQUIT, SIGHUP, SIGUSR1 or SIGPIPE to the loop thread at any point, with membership lines applied: SIGTERM/SIGINT always stop raled (`ShutdownCompletes`), SIGHUP is always served (`ReloadServed`) |
| `supervisor_self_deadlock` | `MC_Supervisor_self_deadlock.cfg` | violation | `NoSelfDeadlock`: SIGTERM delivered to main while it holds `signal_ctx.mutex` in `is_reload_requested`; the handler blocks on its own thread's lock |

The DStore safety runs set `CHECK_DEADLOCK FALSE`: in the model every
loop eventually blocks, and that is the `dstore_loop_blocks` finding, not
a modelling artefact. The
replication slot skip (`dstore.c` 1320: the loop skips the slot whose index
equals the leader's id) is modelled but hidden behind the framing finding.

Bounds: three nodes (what raled registers; majority is 2 of 3, so one voter
and one duplicate are enough to matter), `MaxTerm = 2` (two elections: the
least that lets a grant outlive its term), `MaxRestarts = 1` in the torn and routed runs (one crash or stop,
enough to lose a vote on restart; about 120,000 states in half a minute for
the routed run). `MaxRestarts = 2` gives the routed run a million states and
over three minutes with its two action properties, too close to the
five-minute limit. `MaxTerm = 3` makes the routed run too large for
five minutes (over 8 million states after 15). The shipped run uses
`MaxTerm = 3`; its conclusion does not depend on the bound since no node ever
sends, and it sets `CHECK_DEADLOCK FALSE` because every node waits forever
in its first receive. Node ids
are symmetric model values; `Host` and `Port` map a permuted node to the
permuted address, so the symmetry is sound for the safety runs (it is not used
for the liveness run).

Fairness: `FairSpec` assumes weak fairness of each node's `Tick` (its
timeouts and message handlers): the main loop thread calls `rale_tick` every
50 ms for as long as the process runs. Kills, stops, restarts, STEP_DOWN and ELECTION_TIMEOUT
are not fair; the shipped run sets `MaxRestarts = 0`.

Each property of a passing run has a mutant in `PROJECT.json`: a variant of
the mapped code (count compared with `node_count` instead of `node_count/2`;
VOTE_GRANTED sent without saving; an election started without saving;
`rale_state_load` reading back only the term and the vote; the HEARTBEAT
branch without adopting a higher term; the HEARTBEAT branch clearing the vote on a heartbeat of the node's own term;
`hash_get` copying out the key; `hash` with DJB2's step; `hash_put` without
its scan; `hash_delete` looking in the `hash_func` bucket; the accept's `LEADER`
line sent without its `leader_id >= 0` guard; `librale_request_shutdown` forgetting `rale_shutdown_requested`;
`clear_*_request` not clearing)
under which TLC
finds that property violated.

`hash_save`/`hash_load` are not modelled: they are reached only through
`db_init` and `db_load`, which nothing calls (`hash_load` would also deadlock
on its own mutex by calling `hash_put`). The table's mutex is held across
each whole operation, so each operation is one atomic step.

## Plan (remaining modules, in order)

1. **RaleDStore**: RALE plus DStore for a build where DStore's `db.path`
   is RALE's directory, so both use one `rale.state`: `LEADER_ELECTED`,
   `LEADER` snapshots, `dstore_is_current_leader` over the file RALE
   saves. Question: can two nodes' DStores act as leader at once (a
   deposed leader keeps `leader_id = self`). Abstract spec: RaleElection's
   view of the leader, refined by the file-based view.
2. **DStore** extensions: slot reuse with a stale `recv_buf` after the
   read-error path, and a peer restart after a kill.
3. **Cluster**: the registry's effect on DStore's slots (a node added at
   run time getting a client slot and a connection), which needs the
   registry inside the DStore model.
4. A timed RALE variant (integer clock, deadlines) for the liveness questions
   the untimed model cannot answer.

## Not modelled

The contents of the configuration (`read_config`'s parsing into the GUC
table, the individual checks of `run_config_checks`; only their exits are
modelled), logging, the REST API, `ralectrl`, daemonisation,
watchdog and system detection are I/O plumbing without protocol state.
`raled_process_command` is never called. `dlog.c` is not wired to
replication: only `dlog_init` is called (`dstore.c` 277); `dlog_put`
appends to the log of node id 0 while `dlog_get` reads `node_logs[0]`,
but nothing calls either. The `ELECTION_TIMEOUT` message branch has no sender in the code; it is modelled as a foreign datagram (`ForeignSender`).

The map covers about a fifth of the source lines. This is close to the
ceiling for a faithful model, because most of the remaining code is never
run by `raled`:

  - `ralectrl`, the REST API and the unix control socket (`usock.c`; raled
    never starts that server, so `StepDown` sits behind the `ControlSocket`
    constant);
  - the watchdog, validation, utility, logger, GUC and configuration files,
    and `dlog.c`. spec.md puts the CLI, HTTP, configuration, logging,
    daemonisation and the watchdog out of scope;
  - the legacy `udp_init`/`udp_send`/`udp_receive` API;
  - `dstore_client_loop` and `dstore_server_loop`;
  - `dstore_propagate_node_addition` and `dstore_propagate_node_removal`
    (no caller);
  - `dstore_handle_put` and `dstore_is_node_connected` (dead code);
  - `hash_save`/`hash_load` and `db_save`/`db_load` (never called).

Mapping any of these would add definitions that no behaviour of the
daemon exercises.

Daemon mode is left out as well. `daemon(0, 0)` forks after the loop
thread exists (`raled_main.c` 136), so the child has no loop thread.
On SIGTERM, `cleanup_resources` would then cancel and join a thread id
inherited from the parent, which is undefined behaviour. The Supervisor
model starts raled in the foreground.
