------------------------------ MODULE KvStore ------------------------------
(***************************************************************************)
(* What the cluster key-value API of db.c promises its callers (dstore.c  *)
(* stores LEADER_ELECTED terms and client PUTs with db_insert, serves GET  *)
(* with db_get and DELETE with db_delete): a map from keys to values, in   *)
(* which a get returns the value of the last successful insert of that key *)
(* not followed by a delete.  `reply` is what the last call returned.     *)
(***************************************************************************)
CONSTANTS Key, Value, NotFound

VARIABLES kv, reply

NoReply == [op |-> "none", key |-> NotFound, value |-> NotFound]

Reply(op, k, v) == [op |-> op, key |-> k, value |-> v]

Init ==
    /\ kv = [k \in Key |-> NotFound]
    /\ reply = NoReply

\* db_insert returns DB_SUCCESS: the key now maps to v.
Insert(k, v) ==
    /\ kv' = [kv EXCEPT ![k] = v]
    /\ reply' = Reply("insert", k, v)

\* db_delete returns DB_SUCCESS: the key is no longer mapped.
Delete(k) ==
    /\ kv' = [kv EXCEPT ![k] = NotFound]
    /\ reply' = Reply("delete", k, NotFound)

\* db_get copies out the stored value, or fails with "Key not found".
Get(k) ==
    /\ reply' = Reply("get", k, kv[k])
    /\ UNCHANGED kv

Next == \E k \in Key : \/ \E v \in Value : Insert(k, v)
                       \/ Delete(k)
                       \/ Get(k)

Spec == Init /\ [][Next]_<<kv, reply>>
=============================================================================
