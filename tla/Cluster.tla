------------------------------ MODULE Cluster ------------------------------
(***************************************************************************)
(* The cluster membership registry of cluster.c and the two DStore         *)
(* commands that change it at run time, PROPAGATE_ADD and                  *)
(* PROPAGATE_REMOVE (dstore.c), as operators on the registry.              *)
(*                                                                         *)
(* The registry is cluster.nodes[0 .. node_count-1], kept here as the      *)
(* sequence of the ids in those slots.  Names, addresses and ports are     *)
(* left out: every command modelled carries ones that pass their checks.   *)
(* A command is a record [kind, id]; its text is "PROPAGATE_ADD <id> ..."  *)
(* or "PROPAGATE_REMOVE <id>", and the parse below follows the offsets     *)
(* the code reads it at.                                                   *)
(***************************************************************************)
EXTENDS Integers, Sequences, SequencesExt

CONSTANT MaxNodes  \* MAX_NODES

ASSUME MaxNodes \in Nat

\* MAX_REASONABLE_NODE_ID (cluster.c).
MaxNodeId == 1000

\* The id range cluster_add_node and cluster_set_self_id accept.
ValidNodeId(id) == id > 0 /\ id <= MaxNodeId

\* cluster_init: node_count 0 (cluster_load_state returns at once: raled
\* sets no state file).
ClusterInit == <<>>

\* cluster_add_node: an id in range, not yet present, while
\* node_count < MAX_NODES, is appended; any other call changes nothing.
ClusterAddNode(reg, id) ==
    IF ValidNodeId(id) /\ id \notin ToSet(reg) /\ Len(reg) < MaxNodes
    THEN Append(reg, id) ELSE reg

\* cluster_remove_node: the slot holding id is dropped and the later
\* slots shift down one; an id not present changes nothing.
ClusterRemoveNode(reg, id) ==
    LET j == SelectInSeq(reg, LAMBDA x : x = id)
    IN IF j = 0 THEN reg ELSE RemoveAt(reg, j)

-----------------------------------------------------------------------------
(* Parsing the propagated commands.  strlen("PROPAGATE_ADD ") is 14 and   *)
(* strlen("PROPAGATE_REMOVE ") is 17: the character before the id is the  *)
(* separating space, and the ones before it are capital letters.          *)

AddPrefixLen == 14
RemovePrefixLen == 17

\* dstore_handle_propagated_add reads from command + 13; strtok skips the
\* space there, and a token starting inside the keyword would be a word
\* that atoi turns into 0.
AddOffset == 13
ParsedAddId(id) == IF AddOffset >= AddPrefixLen - 1 THEN id ELSE 0

\* dstore_handle_propagated_remove reads from command + 16 and takes the
\* id only if the character there is a digit; a space or a letter leaves
\* node_id at -1.
RemoveOffset == 16
ParsedRemoveId(id) == IF RemoveOffset >= RemovePrefixLen THEN id ELSE -1

\* dstore_handle_propagated_remove: a parsed id >= 0 goes to
\* cluster_remove_node, anything else is a parse error.
HandlePropagatedRemove(reg, id) ==
    IF ParsedRemoveId(id) >= 0 THEN ClusterRemoveNode(reg, ParsedRemoveId(id))
    ELSE reg

\* dstore_handle_propagated_add: a parsed id >= 0 (with name, address and
\* ports present) goes to cluster_add_node.
HandlePropagatedAdd(reg, id) ==
    IF ParsedAddId(id) >= 0 THEN ClusterAddNode(reg, ParsedAddId(id)) ELSE reg

\* The PROPAGATE_ADD / PROPAGATE_REMOVE branches of dstore_put_from_command,
\* which first returns if node_count is 0.
ApplyPropagated(reg, cmd) ==
    IF reg = <<>> THEN reg
    ELSE IF cmd.kind = "ADD" THEN HandlePropagatedAdd(reg, cmd.id)
    ELSE HandlePropagatedRemove(reg, cmd.id)

=============================================================================
