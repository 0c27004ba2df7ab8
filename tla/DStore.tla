------------------------------- MODULE DStore -------------------------------
(***************************************************************************)
(* DStore (dstore.c over tcp_client.c / tcp_server.c): the TCP links      *)
(* between the raled nodes, the write path, replication from the leader,  *)
(* and the LEADER snapshots that rewrite rale.state.                      *)
(*                                                                         *)
(* Node ids are 1..NodeCount, registered in that order, so the node with  *)
(* id n sits at index n-1 of cluster.nodes, tcp_clients and               *)
(* connection_status: the model keeps indices and ids apart as the code   *)
(* does.  A TCP connection is named <<a, b>>: node a's client connected   *)
(* to node b's server.                                                     *)
(*                                                                         *)
(* Framing.  tcp_server_send follows every message with "\n", and          *)
(* dstore_client_on_receive splits what recv returns at "\n": the server- *)
(* to-client stream `down` carries whole lines.  tcp_client_send sends    *)
(* the bare string, and tcp_server_run hands on_receive only the text     *)
(* before a "\n": nothing a peer's client sends (HELLO, KEEP_ALIVE, the   *)
(* snapshot, PUT, FORWARD_PUT, DELETE, FORWARD_DELETE) ever completes a   *)
(* line, so those sends change no state the model tracks.                 *)
(*                                                                         *)
(* Each node runs dstore_server_tick, dstore_client_tick and rale_tick in *)
(* turn on one thread (raled_main.c).  cursor[n] is the slot of          *)
(* tcp_clients node n's client tick is at, or Done between client ticks, *)
(* when its server tick runs.  tcp_client_receive is a blocking recv.    *)
(*                                                                         *)
(* DStore finds the leader by reading "<db.path>/rale.state".  raled     *)
(* passes its database path to librale_config_set_db_path, which fills    *)
(* node.db_path, so dstore_config.db.path is empty and DStore reads       *)
(* /rale.state, a file RALE never writes (rale_state_save falls back to   *)
(* node.db_path); only DStore's own write_rale_state_leader writes it.   *)
(* `file` is its parsed content (term, voted_for, leader_id; the two log  *)
(* fields are always written non-negative and are left out); a missing    *)
(* file reads as no leader, as does voted_for -1.  The key-value store is *)
(* taken as the map db.h promises (module KvStore).                       *)
(***************************************************************************)
EXTENDS Integers, Sequences, SequencesExt, FiniteSets

CONSTANTS
    NodeCount,    \* nodes registered by raled
    Key, Value, NotFound,
    InitFile,     \* rale.state of each node when DStore starts
    LinksWork,    \* whether tcp_client_init can create a client
    MaxRequests,  \* external commands and hang-ups in a behaviour
    MaxKills,     \* raled processes the environment kills
    MaxTerm       \* terms external LEADER / LEADER_ELECTED lines carry

Node == 1..NodeCount
Idx == 0..NodeCount - 1
IdOf(i) == i + 1
\* find_node_index_by_id
IndexOf(id) == id - 1
Conn == {c \in Node \X Node : c[1] # c[2]}
Term == 0..MaxTerm
\* The db key "rale_leader_term_<t>" LEADER_ELECTED stores.
LeaderTermKey(t) == <<"rale_leader_term", t>>
StoreKey == Key \cup {LeaderTermKey(t) : t \in Term}
\* The client tick's loop has passed every slot.
Done == NodeCount

ASSUME NodeCount \in Nat \ {0, 1} /\ LinksWork \in BOOLEAN
ASSUME MaxRequests \in Nat /\ MaxKills \in Nat /\ MaxTerm \in Nat
ASSUME InitFile \in [Node -> [term : Nat, voted : Node \cup {-1},
                              leader : Node \cup {-1}]]

VARIABLES
    file,        \* rale.state of each node
    kv,          \* the node's key-value store
    client,      \* tcp_clients[i] of each node: "null", "idle" or "connected"
    connStatus,  \* connection_status[i] of each node
    accepted,    \* connections the target's server holds in a slot
    released,    \* connections whose slot the server freed after a read error
    down,        \* lines the target's server has sent on a connection, unread
    cursor,      \* the slot each node's client tick is at, or Done
    connTick,    \* whether that tick is a connection tick
    requests,    \* external commands issued so far
    proc         \* each raled process: "up", "killed" or "crashed"

vars == <<file, kv, client, connStatus, accepted, released, down, cursor,
          connTick, requests, proc>>

Up(n) == proc[n] = "up"

Leader(t, l) == [type |-> "LEADER", term |-> t, id |-> l]
KeepAlive == [type |-> "KEEP_ALIVE"]
\* The NodeCount "PROPAGATE_ADD <id> ..." lines of a cluster snapshot.
Snapshot == [type |-> "PROPAGATE_ADD"]

-----------------------------------------------------------------------------
(* Reading and writing rale.state. *)

\* dstore_get_current_leader: -1 unless every field parses non-negative.
GetCurrentLeader(n) ==
    IF file[n].term >= 0 /\ file[n].voted >= 0 /\ file[n].leader >= 0
    THEN file[n].leader ELSE -1

\* dstore_is_current_leader
IsCurrentLeader(n) == GetCurrentLeader(n) = n

\* write_rale_state_leader: keep voted_for, replace term (if t >= 0) and
\* leader_id, write the file again.
WriteRaleStateLeader(f, t, l) ==
    [term |-> IF t >= 0 THEN t ELSE f.term, voted |-> f.voted, leader |-> l]

\* One line at a client, through dstore_client_on_receive: KEEP_ALIVE is
\* skipped; dstore_put_from_command applies "LEADER <t> <l>" and hands
\* PROPAGATE_ADD to cluster_add_node, which refuses a registered id.
ClientLine(f, m) ==
    IF m.type = "LEADER" /\ m.term >= 0 /\ m.id >= 0
    THEN WriteRaleStateLeader(f, m.term, m.id) ELSE f

\* tcp_client_init: NULL when errbuf is NULL, which is how
\* dstore_init_client calls it (LinksWork = FALSE; TRUE takes the call as
\* accepted); otherwise a client with no socket, not connected.
TcpClientInit == IF LinksWork THEN "idle" ELSE "null"

\* dstore_init_client: a NULL slot gets tcp_client_init's result; a slot
\* that has a client keeps it.
InitClient(cl) == IF cl = "null" THEN TcpClientInit ELSE cl

-----------------------------------------------------------------------------
(* The server side: lines from external clients (ralectrl, a test), which *)
(* send "\n"-terminated commands.  Sends on client links are lost, but a  *)
(* send can fail.                                                         *)

\* tcp_client_send on node n's connected clients at the indices idxs.  A
\* send to a peer whose process is gone may fail (the first one draws a
\* reset); tcp_client_send then calls on_disconnection, whose double free
\* (see ClientEof) aborts the process.
SendOn(n, idxs) ==
    \/ UNCHANGED proc
    \/ /\ \E i \in idxs : client[n][i] = "connected" /\ ~Up(IdOf(i))
       /\ proc' = [proc EXCEPT ![n] = "crashed"]

\* A non-leader's forward (FORWARD_PUT, FORWARD_DELETE) goes by
\* dstore_send_message to the leader rale.state names, if it is another
\* node and connection_status marks it connected.
ForwardToLeader(n) ==
    LET l == GetCurrentLeader(n)
    IN SendOn(n, IF l # -1 /\ l # n /\ connStatus[n][IndexOf(l)] = 1
                 THEN {IndexOf(l)} ELSE {})

\* dstore_replicate_to_followers: skip the slot whose INDEX equals
\* self_id, run dstore_init_client on a NULL slot, and send "PUT k=v" on
\* the connected clients.
ReplicateToFollowers(n) ==
    /\ client' = [client EXCEPT ![n] =
                     [i \in Idx |-> IF i = n THEN @[i] ELSE InitClient(@[i])]]
    /\ SendOn(n, Idx \ {n})

\* dstore_put_from_command for "PUT k=v": a leader stores, appends to
\* rale.db and calls dstore_replicate_to_followers, which skips the slot
\* whose INDEX equals self_id, initialises missing clients and sends
\* "PUT k=v" to the connected ones; any other node sends FORWARD_PUT to
\* the leader.
HandlePut(n, k, v) ==
    IF IsCurrentLeader(n)
    THEN /\ kv' = [kv EXCEPT ![n][k] = v]
         /\ ReplicateToFollowers(n)
    ELSE /\ ForwardToLeader(n)
         /\ UNCHANGED <<kv, client>>

\* The FORWARD_PUT branch of dstore_put_from_command: it checks the
\* "k=v" part, then falls through past PROPAGATE_ADD/REMOVE to the "PUT "
\* check, which the line fails: a forwarded write is rejected and
\* stores, replicates and forwards nothing.
HandleForwardPut(n, k, v) == UNCHANGED <<kv, client, proc>>

\* The DELETE / FORWARD_DELETE branch of dstore_server_on_receive: a
\* DELETE at a non-leader is forwarded as FORWARD_DELETE; a FORWARD_DELETE
\* anywhere, and a DELETE at the leader, deletes the key and sends
\* "DELETE k" to every other (by id) connected client.
HandleDelete(n, k, isForward) ==
    IF isForward \/ IsCurrentLeader(n)
    THEN /\ kv' = [kv EXCEPT ![n][k] = NotFound]
         /\ SendOn(n, {i \in Idx : IdOf(i) # n})
    ELSE /\ ForwardToLeader(n)
         /\ UNCHANGED kv

\* The LEADER_ELECTED branch of dstore_put_from_command (the line
\* rale_become_leader passes in, here from a client): store the leader
\* under "rale_leader_term_<t>", rewrite rale.state, and
\* dstore_broadcast_leader_snapshot sends "LEADER t l" to the HELLO-mapped
\* server sockets and to every connected client.
HandleLeaderElected(n, t, l) ==
    /\ kv' = [kv EXCEPT ![n][LeaderTermKey(t)] = l]
    /\ file' = [file EXCEPT ![n] = WriteRaleStateLeader(@, t, l)]
    /\ SendOn(n, Idx)

\* HELLO <id> maps the client's socket to the node and sets its
\* connection_status; find_node_index_by_id finds every registered id.
HandleHello(n, id) == connStatus' = [connStatus EXCEPT ![n][IndexOf(id)] = 1]

\* A line from an external client, in n's server tick.
ServeLine(n) ==
    /\ Up(n)
    /\ cursor[n] = Done
    /\ requests < MaxRequests
    /\ requests' = requests + 1
    /\ UNCHANGED <<accepted, released, down, cursor, connTick>>

ServePut(n, k, v) ==
    /\ ServeLine(n) /\ HandlePut(n, k, v) /\ UNCHANGED <<file, connStatus>>

ServeForwardPut(n, k, v) ==
    /\ ServeLine(n) /\ HandleForwardPut(n, k, v) /\ UNCHANGED <<file, connStatus>>

ServeDelete(n, k, isForward) ==
    /\ ServeLine(n) /\ HandleDelete(n, k, isForward)
    /\ UNCHANGED <<file, client, connStatus>>

ServeLeaderElected(n, t, l) ==
    /\ ServeLine(n) /\ HandleLeaderElected(n, t, l)
    /\ UNCHANGED <<client, connStatus>>

\* rale_become_leader, in node n's rale_tick (after its client tick):
\* having saved its own rale.state, RALE passes "LEADER_ELECTED <term>
\* <self>" straight to dstore_put_from_command.  A RALE leader's term is
\* at least 1 (rale_start_election increments it).
RaleBecomeLeader(n, t) ==
    /\ Up(n)
    /\ cursor[n] = Done
    /\ HandleLeaderElected(n, t, n)
    /\ UNCHANGED <<client, connStatus, accepted, released, down, cursor,
                   connTick, requests>>

\* "LEADER t l", handled as a client does (ClientLine).
ServeLeader(n, t, l) ==
    /\ ServeLine(n)
    /\ file' = [file EXCEPT ![n] = ClientLine(@, Leader(t, l))]
    /\ UNCHANGED <<kv, client, connStatus, proc>>

ServeHello(n, id) ==
    /\ ServeLine(n) /\ HandleHello(n, id)
    /\ UNCHANGED <<file, kv, client, proc>>

\* A connection tcp_server_run's select finds on the listening socket: the
\* peer's connect completed in the kernel and nothing has accepted it.
Pending(c) ==
    /\ client[c[1]][IndexOf(c[2])] = "connected"
    /\ c \notin accepted \cup released

\* tcp_server_send of each message, each followed by its own "\n", on the
\* server socket of connection c.
ServerSend(c, msgs) == down' = [down EXCEPT ![c] = @ \o msgs]

\* dstore_server_on_connection sending KEEP_ALIVE with no guard on the
\* leader snapshot.
ServerAcceptAnyLeader(c) ==
    LET b == c[2]
    IN /\ Up(b)
       /\ cursor[b] = Done
       /\ Pending(c)
       /\ accepted' = accepted \cup {c}
       /\ ServerSend(c, <<KeepAlive, Snapshot, Leader(0, GetCurrentLeader(b))>>)
       /\ UNCHANGED <<file, kv, client, connStatus, cursor, connTick, released,
                      proc, requests>>

\* tcp_server_run accepting a pending connection in b's server tick, and
\* dstore_server_on_connection: the socket is not mapped (that waits for
\* HELLO); node_idx starts at 0 and is never MAX_NODES, so KEEP_ALIVE, the
\* cluster snapshot and, when rale.state names a leader, "LEADER 0 <l>"
\* are sent.
ServerAccept(c) ==
    LET b == c[2]
        l == GetCurrentLeader(b)
    IN /\ Up(b)
       /\ cursor[b] = Done
       /\ Pending(c)
       /\ accepted' = accepted \cup {c}
       /\ ServerSend(c, <<KeepAlive, Snapshot>>
                         \o (IF l >= 0 THEN <<Leader(0, l)>> ELSE <<>>))
       /\ UNCHANGED <<file, kv, client, connStatus, cursor, connTick, released,
                      proc, requests>>
-----------------------------------------------------------------------------
(* The client side: dstore_client_tick, one slot of tcp_clients a step.   *)

\* Step to the next slot.
Advance(n) == cursor' = [cursor EXCEPT ![n] = @ + 1]

\* The slot node n's client tick is at, and the client there as the
\* connection tick's loop sees it after dstore_init_client.
Slot(n) == cursor[n]
SlotClient(n) ==
    IF connTick[n] THEN InitClient(client[n][Slot(n)]) ELSE client[n][Slot(n)]

\* dstore_client_tick starting after the server tick.  A tick less than a
\* second after the last connection tick only runs the connected clients.
PollTick(n) ==
    /\ Up(n)
    /\ cursor[n] = Done
    /\ cursor' = [cursor EXCEPT ![n] = 0]
    /\ connTick' = [connTick EXCEPT ![n] = FALSE]
    /\ UNCHANGED <<file, kv, client, connStatus, accepted, released, proc, down, requests>>

\* Otherwise it records last_connect_attempt and tries to connect.
ConnectTick(n) ==
    /\ Up(n)
    /\ cursor[n] = Done
    /\ cursor' = [cursor EXCEPT ![n] = 0]
    /\ connTick' = [connTick EXCEPT ![n] = TRUE]
    /\ UNCHANGED <<file, kv, client, connStatus, accepted, released, proc, down, requests>>

\* Both loops skip the slot whose id is self_id.
ClientSkipSelf(n) ==
    /\ Slot(n) < Done
    /\ IdOf(Slot(n)) = n
    /\ Advance(n)
    /\ UNCHANGED <<file, kv, client, connStatus, accepted, released, proc, down, connTick,
                   requests>>

\* An unconnected client is passed over by a polling tick, and by a
\* connection tick when dstore_init_client left the slot NULL.
ClientPass(n) ==
    /\ Slot(n) < Done
    /\ IdOf(Slot(n)) # n
    /\ SlotClient(n) # "connected"
    /\ ~connTick[n] \/ SlotClient(n) = "null"
    /\ Advance(n)
    /\ UNCHANGED <<file, kv, client, connStatus, accepted, released, proc, down, connTick,
                   requests>>

\* A connection tick passing over a client still in its retry interval
\* (CONNECTION_RETRY_INTERVAL, longer after 5 and 10 attempts).
ClientBackoff(n) ==
    /\ Up(n)
    /\ Slot(n) < Done
    /\ IdOf(Slot(n)) # n
    /\ connTick[n]
    /\ SlotClient(n) = "idle"
    /\ client' = [client EXCEPT ![n][Slot(n)] = "idle"]
    /\ Advance(n)
    /\ UNCHANGED <<file, kv, connStatus, accepted, released, proc, down, connTick,
                   requests>>

\* tcp_client_connect: socket, connect, is_connected = 1.
Connect(n, i) == client' = [client EXCEPT ![n][i] = "connected"]

\* tcp_client_receive: recv (blocking) returns what the server has sent,
\* which on_receive handles.
Receive(n, c) ==
    /\ down[c] # <<>>
    /\ file' = [file EXCEPT ![n] = FoldLeft(ClientLine, @, down[c])]
    /\ down' = [down EXCEPT ![c] = <<>>]

\* The connection attempt: tcp_client_connect to the peer's listening
\* server succeeds; connection_status is set, HELLO, KEEP_ALIVE and the
\* snapshot are sent (and lost, see above), and the loop breaks.
ClientConnect(n) ==
    /\ Slot(n) < Done
    /\ IdOf(Slot(n)) # n
    /\ connTick[n]
    /\ SlotClient(n) = "idle"
    /\ Up(IdOf(Slot(n)))
    /\ Connect(n, Slot(n))
    /\ connStatus' = [connStatus EXCEPT ![n][Slot(n)] = 1]
    /\ cursor' = [cursor EXCEPT ![n] = Done]
    /\ UNCHANGED <<file, kv, accepted, released, proc, down, connTick, requests>>

\* tcp_client_run on a connected client: tcp_client_receive's recv blocks
\* until the peer's server has sent something, then returns all of it;
\* dstore_client_on_receive applies it line by line.
ClientRun(n) ==
    LET c == <<n, IdOf(Slot(n))>>
    IN /\ Slot(n) < Done
       /\ IdOf(Slot(n)) # n
       /\ client[n][Slot(n)] = "connected"
       /\ Receive(n, c)
       /\ Advance(n)
       /\ UNCHANGED <<kv, client, connStatus, accepted, released, proc, connTick, requests>>

\* The connection attempt to a node whose process is gone: connect is
\* refused, tcp_client_connect closes the socket, and the loop breaks.
ClientRefused(n) ==
    /\ Slot(n) < Done
    /\ IdOf(Slot(n)) # n
    /\ connTick[n]
    /\ SlotClient(n) = "idle"
    /\ ~Up(IdOf(Slot(n)))
    /\ client' = [client EXCEPT ![n][Slot(n)] = "idle"]
    /\ cursor' = [cursor EXCEPT ![n] = Done]
    /\ UNCHANGED <<file, kv, connStatus, accepted, released, proc, down,
                   connTick, requests>>

\* tcp_client_run on a client whose server's process is gone, once every
\* line it sent has been read: recv returns 0 (or ECONNRESET), and
\* on_disconnection runs dstore_client_on_disconnection, which calls
\* tcp_client_cleanup (that frees the client) and then frees
\* tcp_clients[j] again.  glibc detects the double free of a block of
\* this size and aborts the process.
ClientEof(n) ==
    LET c == <<n, IdOf(Slot(n))>>
    IN /\ Slot(n) < Done
       /\ IdOf(Slot(n)) # n
       /\ client[n][Slot(n)] = "connected"
       /\ ~Up(c[2]) /\ down[c] = <<>>
       /\ proc' = [proc EXCEPT ![n] = "crashed"]
       /\ UNCHANGED <<file, kv, client, connStatus, accepted, released, down,
                      cursor, connTick, requests>>

-----------------------------------------------------------------------------
(* Connections ending.  A process that dies has its sockets closed by the *)
(* kernel: with unread data in its receive buffer the peer gets a reset,  *)
(* otherwise an orderly end of stream.                                    *)

\* The environment kills a raled process (SIGKILL, an OOM kill, a host
\* restart); nothing of it runs again.
Kill(n) ==
    /\ Up(n)
    /\ Cardinality({m \in Node : proc[m] = "killed"}) < MaxKills
    /\ proc' = [proc EXCEPT ![n] = "killed"]
    /\ UNCHANGED <<file, kv, client, connStatus, accepted, released, down,
                   cursor, connTick, requests>>

\* tcp_server_run reading 0 bytes on the slot of a connection whose client
\* is gone: it calls on_disconnection, dstore_server_on_disconnection
\* clears the socket's mapping and calls tcp_server_client_disconnect,
\* which finds the slot still in use and calls on_disconnection again,
\* before either clears the slot: the recursion only ends when the stack
\* overflows.
ServerEof(c) ==
    LET b == c[2]
    IN /\ Up(b)
       /\ cursor[b] = Done
       /\ c \in accepted
       /\ ~Up(c[1]) /\ down[c] = <<>>
       /\ proc' = [proc EXCEPT ![b] = "crashed"]
       /\ UNCHANGED <<file, kv, client, connStatus, accepted, released, down,
                      cursor, connTick, requests>>

\* The dead client had not read everything the server sent: read fails
\* with ECONNRESET, and tcp_server_run closes the socket and frees the
\* slot without calling on_disconnection.
ServerReset(c) ==
    LET b == c[2]
    IN /\ Up(b)
       /\ cursor[b] = Done
       /\ c \in accepted
       /\ ~Up(c[1]) /\ down[c] # <<>>
       /\ accepted' = accepted \ {c}
       /\ released' = released \cup {c}
       /\ UNCHANGED <<file, kv, client, connStatus, down, cursor, connTick,
                      requests, proc>>

\* dstore_send_keep_alive writes KEEP_ALIVE on every connected client of
\* another node whose connection_status is 1.
KeepAliveTargets(n) ==
    {i \in Idx : /\ IdOf(i) # n
                 /\ client[n][i] = "connected" /\ connStatus[n][i] = 1}

\* dstore_server_tick's periodic dstore_send_keep_alive: once the peer's
\* process is gone the first such send draws a reset and a later one
\* fails, and tcp_client_send calls on_disconnection: the double free
\* again.
KeepAliveFails(n) ==
    /\ Up(n)
    /\ cursor[n] = Done
    /\ \E i \in KeepAliveTargets(n) : ~Up(IdOf(i))
    /\ proc' = [proc EXCEPT ![n] = "crashed"]
    /\ UNCHANGED <<file, kv, client, connStatus, accepted, released, down,
                   cursor, connTick, requests>>

\* An external client (a CLI that sent its command) closes its connection:
\* tcp_server_run reads 0 bytes on its slot and recurses as in ServerEof.
ExternalHangup(n) ==
    /\ Up(n)
    /\ cursor[n] = Done
    /\ requests < MaxRequests
    /\ requests' = requests + 1
    /\ proc' = [proc EXCEPT ![n] = "crashed"]
    /\ UNCHANGED <<file, kv, client, connStatus, accepted, released, down,
                   cursor, connTick>>

-----------------------------------------------------------------------------
Init ==
    /\ file = InitFile
    /\ kv = [n \in Node |-> [k \in StoreKey |-> NotFound]]
    /\ client = [n \in Node |-> [i \in Idx |-> "null"]]
    /\ connStatus = [n \in Node |-> [i \in Idx |-> 0]]
    /\ accepted = {}
    /\ released = {}
    /\ down = [c \in Conn |-> <<>>]
    /\ cursor = [n \in Node |-> Done]
    /\ connTick = [n \in Node |-> FALSE]
    /\ requests = 0
    /\ proc = [n \in Node |-> "up"]

\* One slot of a client tick, when the thread is not blocked in recv.
ClientStep(n) ==
    /\ Up(n)
    /\ \/ ClientSkipSelf(n) \/ ClientPass(n) \/ ClientConnect(n)
       \/ ClientRefused(n) \/ ClientRun(n) \/ ClientEof(n)

Next ==
    \/ \E n \in Node :
          \/ PollTick(n) \/ ConnectTick(n) \/ ClientStep(n) \/ ClientBackoff(n)
          \/ \E k \in Key : \/ \E v \in Value : ServePut(n, k, v)
                                                 \/ ServeForwardPut(n, k, v)
                           \/ \E f \in BOOLEAN : ServeDelete(n, k, f)
          \/ \E t \in Term \ {0} : RaleBecomeLeader(n, t)
          \/ \E t \in Term, l \in Node : ServeLeaderElected(n, t, l)
                                       \/ ServeLeader(n, t, l)
          \/ \E id \in Node : ServeHello(n, id)
          \/ KeepAliveFails(n) \/ ExternalHangup(n) \/ Kill(n)
    \/ \E c \in Conn : ServerAccept(c) \/ ServerEof(c) \/ ServerReset(c)

Spec == Init /\ [][Next]_vars

\* raled's loop runs the three ticks every 50 ms: a node's client tick,
\* once started, goes on unless recv blocks; a connection tick comes at
\* least every second; and each server tick accepts a pending connection.
FairSpec ==
    /\ Spec
    /\ \A n \in Node : WF_vars(ClientStep(n)) /\ SF_vars(ConnectTick(n))
    /\ \A c \in Conn : SF_vars(ServerAccept(c))
-----------------------------------------------------------------------------
(* Properties *)

Message ==
    [type : {"LEADER"}, term : Nat, id : Node]
    \cup {KeepAlive, Snapshot}

TypeOK ==
    /\ file \in [Node -> [term : Nat, voted : Node \cup {-1},
                          leader : Node \cup {-1}]]
    /\ kv \in [Node -> [StoreKey -> Value \cup Node \cup {NotFound}]]
    /\ client \in [Node -> [Idx -> {"null", "idle", "connected"}]]
    /\ connStatus \in [Node -> [Idx -> {0, 1}]]
    /\ accepted \subseteq Conn
    /\ \A c \in Conn : down[c] \in Seq(Message)
    /\ cursor \in [Node -> 0..Done]
    /\ connTick \in [Node -> BOOLEAN]
    /\ requests \in 0..MaxRequests
    /\ proc \in [Node -> {"up", "killed", "crashed"}]
    /\ released \subseteq Conn

\* DStore follows RALE's election (spec 4.7: the RALE leader's DStore
\* stores client writes and replicates them; the comment above
\* dstore_is_current_leader: "Check if this node is the current RALE
\* leader"): right after rale_become_leader has handed DStore its
\* LEADER_ELECTED line, dstore_is_current_leader is true on that node.
ElectedLeaderLeads ==
    [][\A n \in Node, t \in Term : RaleBecomeLeader(n, t) => IsCurrentLeader(n)']_vars

\* raled's loop keeps turning (raled_main.c, "Main loop: tick DStore and
\* RALE"): every node's dstore_client_tick returns again and again, so its
\* server tick and rale_tick keep running.
LoopNeverBlocked == \A n \in Node : []<>(cursor[n] = Done)

\* No raled process dies because a connection ended (spec 4.7 and 5: liveness
\* is conveyed by socket-level errors; a lost peer is marked disconnected
\* and reconnected with backoff): a peer's exit or a client's hang-up is
\* handled by dstore_server_on_disconnection or
\* dstore_client_on_disconnection, and only a process the environment
\* kills stops.
NodesSurviveDisconnects == \A n \in Node : proc[n] # "crashed"

====
