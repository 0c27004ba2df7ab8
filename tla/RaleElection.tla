---------------------------- MODULE RaleElection ----------------------------
(***************************************************************************)
(* The RALE leader-election protocol of src/librale/src/rale_proto.c over  *)
(* the UDP transport of src/librale/src/udp.c.                             *)
(*                                                                         *)
(* Each node is a raled process: its in-memory rale_state_t (term, vote,   *)
(* leader, role), the static election counters of rale_proto.c, and the    *)
(* rale.state file it rewrites on every transition.  Datagrams are kept in *)
(* a set that is never emptied: a datagram may be received any number of  *)
(* times at any later step, or never, so it may be lost, delayed,         *)
(* duplicated or reordered.  Timers (last_heartbeat, election_deadline,    *)
(* next_*_at) are not modelled: a timeout may fire at any tick, which      *)
(* covers every schedule of the real clocks.                               *)
(***************************************************************************)
EXTENDS Naturals, FiniteSets

CONSTANTS
    Node,          \* node ids of the cluster (cluster_add_node in raled)
    Host,          \* Host[n]: the IP address node n runs on
    Port,          \* Port[n]: node n's rale_port
    SourceIsTarget,\* TRUE: a datagram leaves from the port it is sent to
                   \* (udp_client_init binds the target port, the code);
                   \* FALSE: it leaves from the sender's own RALE port
    TornSave,      \* TRUE: a crash may land inside rale_state_save
    CancelInSave,  \* TRUE: a SIGTERM's pthread_cancel may land there too
    ControlSocket, \* TRUE: a control-socket client can send STEP_DOWN
                   \* (usock.c; raled never starts that server)
    ForeignSender, \* TRUE: a process other than raled may send ELECTION_TIMEOUT
                   \* to a RALE port (no program of the repository does)
    BlockingReceive,\* TRUE: the RALE socket blocks in recvfrom (the code
                   \* never makes it non-blocking); FALSE: the poll returns
                   \* when nothing is pending (spec 4.4)
    MaxTerm,       \* bound on current_term
    MaxRestarts,   \* bound on process crashes
    Nil            \* the -1 of voted_for / leader_id

ASSUME Nil \notin Node
ASSUME SourceIsTarget \in BOOLEAN /\ TornSave \in BOOLEAN /\ CancelInSave \in BOOLEAN
ASSUME ControlSocket \in BOOLEAN /\ ForeignSender \in BOOLEAN
ASSUME BlockingReceive \in BOOLEAN

Follower == "follower"
Candidate == "candidate"
Leader == "leader"

VARIABLES
    currentTerm,    \* current_rale_state.current_term
    votedFor,       \* current_rale_state.voted_for
    leaderId,       \* current_rale_state.leader_id
    role,           \* current_rale_state.role
    votesReceived,  \* static votes_received
    electionActive, \* static election_active
    up,             \* the raled process is running
    disk,           \* contents of <db_path>/rale.state
    msgs,           \* datagrams on the wire
    votesCast,      \* history: <<voter, term, candidate>> of every vote
    elected,        \* history: <<node, term>> of every rale_become_leader
    restarts        \* crashes so far

nodeVars == <<currentTerm, votedFor, leaderId, role, votesReceived, electionActive>>
vars == <<nodeVars, up, disk, msgs, votesCast, elected, restarts>>

Addr(n) == <<Host[n], Port[n]>>

\* rale.state after a save of the given in-memory fields (rale_state_save);
\* an empty or unparsable file reads back as the defaults of rale_proto_init.
StateFile(t, v, l) == [term |-> t, votedFor |-> v, leaderId |-> l]
DefaultFile == StateFile(0, Nil, Nil)

\* rale_setup_socket's udp_server_init binds node m's rale_port when raled
\* starts, and rale_finit's udp_destroy closes it: the RALE socket is bound
\* exactly while the process runs.
Listening(m) == up[m]

\* udp_client_init binds the socket it sends from; the bind fails while a
\* running raled on the same host holds that port (no SO_REUSEADDR).
PortFree(h, p) == ~\E m \in Node : Listening(m) /\ Host[m] = h /\ Port[m] = p

\* rale_send_message(msg, ip, port) from node n: the datagram exists only if
\* the client socket could be bound and some socket listens at the target.
SrcPort(n, dst) == IF SourceIsTarget THEN dst[2] ELSE Port[n]

CanSend(n, dst) ==
    /\ ~SourceIsTarget \/ PortFree(Host[n], dst[2])
    /\ \E m \in Node : Listening(m) /\ Addr(m) = dst

Datagram(n, dst, type, id, t) ==
    [type |-> type, id |-> id, term |-> t,
     src |-> <<Host[n], SrcPort(n, dst)>>, dst |-> dst]

SendTo(n, dst, type, id, t) ==
    IF CanSend(n, dst) THEN {Datagram(n, dst, type, id, t)} ELSE {}

\* The loop over cluster.nodes skipping self (rale_send_heartbeat,
\* rale_request_votes).
Broadcast(n, type, t) ==
    UNION {SendTo(n, Addr(p), type, n, t) : p \in Node \ {n}}

\* Variant: the count compared with node_count instead of node_count / 2.
MajorityOfAll(v) == v > Cardinality(Node)

\* votes_received > cluster.node_count / 2
Majority(v) == v > Cardinality(Node) \div 2

\* rale_quram_process starts with udp_process_messages, whose recvfrom on
\* a blocking socket returns only once a datagram for n has arrived; only
\* then does the tick go on to the role's duties.  (HEARTBEAT_ACK and
\* VOTE_DENIED replies are not kept in msgs; a run with BlockingReceive
\* sends none.)
TickPasses(n) == ~BlockingReceive \/ \E m \in msgs : m.dst = Addr(n)

-----------------------------------------------------------------------------

Init ==
    /\ currentTerm = [n \in Node |-> 0]
    /\ votedFor = [n \in Node |-> Nil]
    /\ leaderId = [n \in Node |-> Nil]
    /\ role = [n \in Node |-> Follower]
    /\ votesReceived = [n \in Node |-> 0]
    /\ electionActive = [n \in Node |-> FALSE]
    /\ up = [n \in Node |-> TRUE]
    /\ disk = [n \in Node |-> DefaultFile]
    /\ msgs = {}
    /\ votesCast = {}
    /\ elected = {}
    /\ restarts = 0

\* Variant: rale_start_election without its rale_state_save.
StartElectionUnsaved(n) ==
    LET t == currentTerm[n] + 1 IN
    /\ t <= MaxTerm
    /\ currentTerm' = [currentTerm EXCEPT ![n] = t]
    /\ votedFor' = [votedFor EXCEPT ![n] = n]
    /\ role' = [role EXCEPT ![n] = Candidate]
    /\ electionActive' = [electionActive EXCEPT ![n] = TRUE]
    /\ votesReceived' = [votesReceived EXCEPT ![n] = 1]
    /\ msgs' = msgs \cup Broadcast(n, "VOTE_REQUEST", t)
    /\ votesCast' = votesCast \cup {<<n, t, n>>}
    /\ UNCHANGED <<leaderId, up, disk, elected, restarts>>

\* rale_start_election (with rale_request_votes); reached from the follower
\* duty when last_heartbeat is too old and from the candidate duty when the
\* election deadline has passed.
StartElection(n) ==
    LET t == currentTerm[n] + 1 IN
    /\ t <= MaxTerm
    /\ currentTerm' = [currentTerm EXCEPT ![n] = t]
    /\ votedFor' = [votedFor EXCEPT ![n] = n]
    /\ role' = [role EXCEPT ![n] = Candidate]
    /\ electionActive' = [electionActive EXCEPT ![n] = TRUE]
    /\ votesReceived' = [votesReceived EXCEPT ![n] = 1]
    /\ disk' = [disk EXCEPT ![n] = StateFile(t, n, leaderId[n])]
    /\ msgs' = msgs \cup Broadcast(n, "VOTE_REQUEST", t)
    /\ votesCast' = votesCast \cup {<<n, t, n>>}
    /\ UNCHANGED <<leaderId, up, elected, restarts>>

\* rale_handle_follower_duties: any role other than leader and candidate.
FollowerTimeout(n) ==
    /\ up[n]
    /\ TickPasses(n)
    /\ role[n] \notin {Leader, Candidate}
    /\ StartElection(n)

\* rale_handle_candidate_duties, deadline branch.  Its other branch re-sends
\* the VOTE_REQUEST of the current term; the datagram set already lets each
\* request sent by StartElection arrive any number of times, so a re-send
\* reaches no new state and is not a separate action.
CandidateTimeout(n) ==
    /\ up[n]
    /\ TickPasses(n)
    /\ role[n] = Candidate
    /\ StartElection(n)

\* rale_handle_leader_duties / rale_send_heartbeat.
LeaderHeartbeat(n) ==
    /\ up[n]
    /\ TickPasses(n)
    /\ role[n] = Leader
    /\ msgs' = msgs \cup Broadcast(n, "HEARTBEAT", currentTerm[n])
    /\ UNCHANGED <<nodeVars, up, disk, votesCast, elected, restarts>>

\* Receipt of a datagram addressed to node n (udp_process_messages ->
\* rale_handle_message), one per tick.
Receivable(n, m, type) ==
    /\ up[n]
    /\ m \in msgs
    /\ m.dst = Addr(n)
    /\ m.type = type

\* Variant: the grant is sent without being saved to rale.state first.
HandleVoteRequestUnsaved(n, m) ==
    LET c == m.id
        t == m.term
        higher == t > currentTerm[n]
        role1 == IF higher THEN Follower ELSE role[n]
        voted1 == IF higher THEN Nil ELSE votedFor[n]
        grant == role1 # Leader /\ (voted1 = Nil \/ voted1 = c)
        voted2 == IF grant THEN c ELSE voted1
    IN
    /\ Receivable(n, m, "VOTE_REQUEST")
    /\ t >= currentTerm[n]
    /\ currentTerm' = [currentTerm EXCEPT ![n] = t]
    /\ votedFor' = [votedFor EXCEPT ![n] = voted2]
    /\ role' = [role EXCEPT ![n] = role1]
    /\ electionActive' = [electionActive EXCEPT ![n] = electionActive[n] /\ ~higher]
    /\ votesReceived' = [votesReceived EXCEPT ![n] = IF higher THEN 0 ELSE @]
    /\ disk' = IF higher
               THEN [disk EXCEPT ![n] = StateFile(t, voted1, leaderId[n])]
               ELSE disk
    /\ msgs' = msgs \cup (IF grant THEN SendTo(n, m.src, "VOTE_GRANTED", n, t) ELSE {})
    /\ votesCast' = votesCast \cup (IF grant THEN {<<n, t, c>>} ELSE {})
    /\ UNCHANGED <<leaderId, up, elected, restarts>>

\* rale_handle_message, VOTE_REQUEST branch.  A request of a lower term is
\* answered with VOTE_DENIED and nothing else; the receiver of VOTE_DENIED
\* drops it as an unknown message, so that branch changes no state and the
\* datagram is not kept.
HandleVoteRequest(n, m) ==
    LET c == m.id
        t == m.term
        higher == t > currentTerm[n]
        \* after rale_become_follower(-1) when the term is higher
        role1 == IF higher THEN Follower ELSE role[n]
        voted1 == IF higher THEN Nil ELSE votedFor[n]
        grant == role1 # Leader /\ (voted1 = Nil \/ voted1 = c)
        voted2 == IF grant THEN c ELSE voted1
    IN
    /\ Receivable(n, m, "VOTE_REQUEST")
    /\ t >= currentTerm[n]
    /\ currentTerm' = [currentTerm EXCEPT ![n] = t]
    /\ votedFor' = [votedFor EXCEPT ![n] = voted2]
    /\ role' = [role EXCEPT ![n] = role1]
    /\ electionActive' = [electionActive EXCEPT ![n] = electionActive[n] /\ ~higher]
    /\ votesReceived' = [votesReceived EXCEPT ![n] = IF higher THEN 0 ELSE @]
    /\ disk' = IF higher \/ grant
               THEN [disk EXCEPT ![n] = StateFile(t, voted2, leaderId[n])]
               ELSE disk
    /\ msgs' = msgs \cup (IF grant THEN SendTo(n, m.src, "VOTE_GRANTED", n, t) ELSE {})
    /\ votesCast' = votesCast \cup (IF grant THEN {<<n, t, c>>} ELSE {})
    /\ UNCHANGED <<leaderId, up, elected, restarts>>

\* Variant: the HEARTBEAT branch without adopting a higher term.
HandleHeartbeatNoTermAdopt(n, m) ==
    /\ Receivable(n, m, "HEARTBEAT")
    /\ role' = [role EXCEPT ![n] = Follower]
    /\ leaderId' = [leaderId EXCEPT ![n] = m.id]
    /\ electionActive' = [electionActive EXCEPT ![n] = FALSE]
    /\ votesReceived' = [votesReceived EXCEPT ![n] = 0]
    /\ disk' = [disk EXCEPT ![n] = StateFile(currentTerm[n], votedFor[n], m.id)]
    /\ UNCHANGED <<currentTerm, votedFor, up, msgs, votesCast, elected, restarts>>

\* Variant: the HEARTBEAT branch clearing voted_for on a heartbeat of the node's own
\* term too (hb_term >= current_term).
HandleHeartbeatSameTermReset(n, m) ==
    LET l == m.id
        reset == m.term >= currentTerm[n]
        t1 == IF reset THEN m.term ELSE currentTerm[n]
        voted1 == IF reset THEN Nil ELSE votedFor[n]
    IN
    /\ Receivable(n, m, "HEARTBEAT")
    /\ currentTerm' = [currentTerm EXCEPT ![n] = t1]
    /\ votedFor' = [votedFor EXCEPT ![n] = voted1]
    /\ role' = [role EXCEPT ![n] = Follower]
    /\ leaderId' = [leaderId EXCEPT ![n] = l]
    /\ electionActive' = [electionActive EXCEPT ![n] = FALSE]
    /\ votesReceived' = [votesReceived EXCEPT ![n] = 0]
    /\ disk' = [disk EXCEPT ![n] = StateFile(t1, voted1, l)]
    /\ UNCHANGED <<up, msgs, votesCast, elected, restarts>>

\* rale_handle_message, HEARTBEAT branch: adopt a higher term, then
\* rale_become_follower(hb_leader) whatever the term of the heartbeat.  The
\* HEARTBEAT_ACK reply only refreshes last_heartbeat at its receiver (it
\* matches the same branch with msg[9] != ' '), a timer this model leaves
\* free, so it is not kept.
HandleHeartbeat(n, m) ==
    LET l == m.id
        higher == m.term > currentTerm[n]
        t1 == IF higher THEN m.term ELSE currentTerm[n]
        voted1 == IF higher THEN Nil ELSE votedFor[n]
    IN
    /\ Receivable(n, m, "HEARTBEAT")
    /\ currentTerm' = [currentTerm EXCEPT ![n] = t1]
    /\ votedFor' = [votedFor EXCEPT ![n] = voted1]
    /\ role' = [role EXCEPT ![n] = Follower]
    /\ leaderId' = [leaderId EXCEPT ![n] = l]
    /\ electionActive' = [electionActive EXCEPT ![n] = FALSE]
    /\ votesReceived' = [votesReceived EXCEPT ![n] = 0]
    /\ disk' = [disk EXCEPT ![n] = StateFile(t1, voted1, l)]
    /\ UNCHANGED <<up, msgs, votesCast, elected, restarts>>

\* rale_become_leader.  Its LEADER_ELECTED notification to DStore writes a
\* different rale.state (see RaleDStore) and heartbeats go out on the next
\* leader duty.
BecomeLeader(n) ==
    /\ role' = [role EXCEPT ![n] = Leader]
    /\ leaderId' = [leaderId EXCEPT ![n] = n]
    /\ electionActive' = [electionActive EXCEPT ![n] = FALSE]
    /\ votesReceived' = [votesReceived EXCEPT ![n] = 0]
    /\ disk' = [disk EXCEPT ![n] = StateFile(currentTerm[n], votedFor[n], n)]
    /\ elected' = elected \cup {<<n, currentTerm[n]>>}

\* rale_handle_message, VOTE_GRANTED branch: the voter id is parsed and not
\* used; only a grant of a higher term is ignored.
HandleVoteGranted(n, m) ==
    LET v == votesReceived[n] + 1 IN
    /\ Receivable(n, m, "VOTE_GRANTED")
    /\ electionActive[n]
    /\ m.term <= currentTerm[n]
    /\ IF Majority(v)
       THEN BecomeLeader(n)
       ELSE /\ votesReceived' = [votesReceived EXCEPT ![n] = v]
            /\ UNCHANGED <<role, leaderId, electionActive, disk, elected>>
    /\ UNCHANGED <<currentTerm, votedFor, up, msgs, votesCast, restarts>>

\* rale_process_command("STEP_DOWN"), from unix_socket_on_receive:
\* rale_become_follower(-1), which keeps leader_id.
\* The ELECTION_TIMEOUT branch of rale_handle_message: once the last
\* heartbeat is older than keep_alive_timeout (at any step, timers being
\* unmodelled) it does what rale_start_election does, in whatever role the
\* node is, a leader's included.  The datagram itself ends a blocking
\* receive, so TickPasses is not needed.
HandleElectionTimeout(n) ==
    /\ ForeignSender
    /\ up[n]
    /\ StartElection(n)

StepDown(n) ==
    /\ ControlSocket
    /\ up[n]
    /\ role' = [role EXCEPT ![n] = Follower]
    /\ electionActive' = [electionActive EXCEPT ![n] = FALSE]
    /\ votesReceived' = [votesReceived EXCEPT ![n] = 0]
    /\ disk' = [disk EXCEPT ![n] = StateFile(currentTerm[n], votedFor[n], leaderId[n])]
    /\ UNCHANGED <<currentTerm, votedFor, leaderId, up, msgs, votesCast, elected, restarts>>

\* Node n's thread can be inside rale_state_save: every role but leader
\* may time out into rale_start_election, and a HEARTBEAT or a VOTE_REQUEST
\* of a higher term sends any role through rale_become_follower.  Each
\* handler saves before it sends anything.
SaveCanStart(n) ==
    \/ role[n] # Leader
    \/ \E m \in msgs : /\ m.dst = Addr(n)
                      /\ \/ m.type = "HEARTBEAT"
                         \/ m.type = "VOTE_REQUEST" /\ m.term > currentTerm[n]

\* rale.state after node n stops: rale_state_save truncates the file (fopen
\* "w") before it writes it, so a stop inside a save leaves a file that
\* fails to parse; the stopped handler sends nothing.
FileAfterStop(n, inSave) ==
    IF inSave /\ SaveCanStart(n) THEN {disk[n], DefaultFile} ELSE {disk[n]}

\* The raled process dies (SIGKILL, a host failure).
Crash(n) ==
    /\ up[n]
    /\ restarts < MaxRestarts
    /\ up' = [up EXCEPT ![n] = FALSE]
    /\ restarts' = restarts + 1
    /\ \E f \in FileAfterStop(n, TornSave) : disk' = [disk EXCEPT ![n] = f]
    /\ UNCHANGED <<nodeVars, msgs, votesCast, elected>>

\* SIGTERM: main's loop sees the RALE shutdown flag and cleanup_resources
\* pthread_cancels the loop thread, joins it, and calls rale_finit, which
\* clears current_rale_state without saving it and closes the RALE socket.
\* The cancel takes effect at the loop thread's next cancellation point:
\* its usleep, or the open or write of a rale_state_save in progress.
Stop(n) ==
    /\ up[n]
    /\ restarts < MaxRestarts
    /\ up' = [up EXCEPT ![n] = FALSE]
    /\ restarts' = restarts + 1
    /\ \E f \in FileAfterStop(n, CancelInSave) : disk' = [disk EXCEPT ![n] = f]
    /\ UNCHANGED <<nodeVars, msgs, votesCast, elected>>

\* Variant: rale_state_load reading back only the term and the vote.
RestartTermVoteOnly(n) ==
    /\ ~up[n]
    /\ up' = [up EXCEPT ![n] = TRUE]
    /\ currentTerm' = [currentTerm EXCEPT ![n] = disk[n].term]
    /\ votedFor' = [votedFor EXCEPT ![n] = disk[n].votedFor]
    /\ leaderId' = [leaderId EXCEPT ![n] = Nil]
    /\ role' = [role EXCEPT ![n] = Follower]
    /\ electionActive' = [electionActive EXCEPT ![n] = FALSE]
    /\ votesReceived' = [votesReceived EXCEPT ![n] = 0]
    /\ UNCHANGED <<disk, msgs, votesCast, elected, restarts>>

\* rale_proto_init then rale_state_load: defaults, then every field of the
\* file that is >= 0; the static election counters start at zero.
Restart(n) ==
    /\ ~up[n]
    /\ up' = [up EXCEPT ![n] = TRUE]
    /\ currentTerm' = [currentTerm EXCEPT ![n] = disk[n].term]
    /\ votedFor' = [votedFor EXCEPT ![n] = disk[n].votedFor]
    /\ leaderId' = [leaderId EXCEPT ![n] = disk[n].leaderId]
    /\ role' = [role EXCEPT ![n] = Follower]
    /\ electionActive' = [electionActive EXCEPT ![n] = FALSE]
    /\ votesReceived' = [votesReceived EXCEPT ![n] = 0]
    /\ UNCHANGED <<disk, msgs, votesCast, elected, restarts>>

Next ==
    \/ \E n \in Node :
          \/ FollowerTimeout(n)
          \/ CandidateTimeout(n)
          \/ LeaderHeartbeat(n)
          \/ StepDown(n)
          \/ HandleElectionTimeout(n)
          \/ Crash(n)
          \/ Stop(n)
          \/ Restart(n)
    \/ \E n \in Node, m \in msgs :
          \/ HandleVoteRequest(n, m)
          \/ HandleHeartbeat(n, m)
          \/ HandleVoteGranted(n, m)

\* raled_main_loop_thread calls rale_tick every 50 ms while the process runs.
Tick(n) ==
    \/ FollowerTimeout(n) \/ CandidateTimeout(n)
    \/ \E m \in msgs : HandleVoteRequest(n, m) \/ HandleHeartbeat(n, m)
                       \/ HandleVoteGranted(n, m)

Spec == Init /\ [][Next]_vars

FairSpec == Spec /\ \A n \in Node : WF_vars(Tick(n))

-----------------------------------------------------------------------------

TypeOK ==
    /\ currentTerm \in [Node -> 0..MaxTerm]
    /\ votedFor \in [Node -> Node \cup {Nil}]
    /\ leaderId \in [Node -> Node \cup {Nil}]
    /\ role \in [Node -> {Follower, Candidate, Leader}]
    /\ votesReceived \in [Node -> 0..(Cardinality(Node) \div 2)]
    /\ electionActive \in [Node -> BOOLEAN]
    /\ up \in [Node -> BOOLEAN]
    /\ disk \in [Node -> [term : 0..MaxTerm, votedFor : Node \cup {Nil},
                          leaderId : Node \cup {Nil}]]
    /\ votesCast \subseteq Node \X (1..MaxTerm) \X Node
    /\ elected \subseteq Node \X (1..MaxTerm)
    /\ restarts \in 0..MaxRestarts

\* A node casts at most one vote per term, its own included, across crashes
\* and restarts: the VOTE_REQUEST grant rule of rale_handle_message relies
\* on voted_for being persisted by rale_state_save before VOTE_GRANTED
\* leaves and reloaded by rale_state_load.
VoteOncePerTerm ==
    \A x, y \in votesCast : x[1] = y[1] /\ x[2] = y[2] => x[3] = y[3]

\* The persistence round trip of the specification (persist the RALE
\* state, restart, load: the same fields come back): while raled runs,
\* rale.state holds its current term, vote and leader, because every
\* handler of rale_proto.c that changes one of them calls rale_state_save,
\* and a restart loads them back through rale_state_load.
DurableState ==
    \A n \in Node :
        up[n] => disk[n] = StateFile(currentTerm[n], votedFor[n], leaderId[n])

\* The leader rale.state names, which dstore_get_current_leader and
\* dstore_is_current_leader read, was elected by rale_become_leader in a
\* term no later than the file's.  rale_handle_message takes a leader id
\* only from a HEARTBEAT, which only a leader sends, and adopts the
\* heartbeat's term when it is higher; rale_become_follower(-1) and a
\* lower-term HEARTBEAT leave an out-of-date leader in the file, but never
\* one that did not win or one from a later term.
LeaderIdElected ==
    \A n \in Node :
        disk[n].leaderId # Nil =>
            \E t \in 0..disk[n].term : <<disk[n].leaderId, t>> \in elected

\* At most one running node is leader in any term: what counting
\* VOTE_GRANTED replies in rale_handle_message up to a majority of
\* cluster.node_count is meant to guarantee.
ElectionSafety ==
    \A a, b \in Node :
        /\ up[a] /\ role[a] = Leader
        /\ up[b] /\ role[b] = Leader
        /\ currentTerm[a] = currentTerm[b]
        => a = b

\* A node's current_term never goes down, in memory and across a restart
\* that reloads it from rale.state.
TermNeverDecreases ==
    [][\A n \in Node : currentTerm'[n] >= currentTerm[n]]_currentTerm

\* The durable record the code keeps implements RaleVoterState: every
\* transition that rewrites rale.state (rale_state_save from the handlers,
\* the duties and rale_become_*, the file surviving kills and SIGTERM stops
\* and read back by rale_state_load) either moves to a higher term or casts
\* the first vote of the file's term; no save withdraws or changes a vote
\* within a term, which is what lets a restarted node keep its promise.
Voter == INSTANCE RaleVoterState
    WITH term <- [n \in Node |-> disk[n].term],
         vote <- [n \in Node |-> disk[n].votedFor],
         Term <- 0..MaxTerm

VoterStateRefined == Voter!Spec

\* Once nodes keep ticking, some node is eventually elected leader (the
\* three-node election scenario of the specification).
EventuallyLeader ==
    <>(\E n \in Node : up[n] /\ role[n] = Leader)

=============================================================================
