----------------------------- MODULE HashTable -----------------------------
(***************************************************************************)
(* The cluster key-value store: the chained hash table of hash.c behind   *)
(* the db_insert / db_get / db_delete wrappers of db.c.                   *)
(*                                                                         *)
(* Keys are byte strings, given as sequences of character codes, because  *)
(* the bucket a key lands in is computed from its characters.  Values are *)
(* model values: the table only copies them.                              *)
(*                                                                         *)
(* Both hash functions compute an `unsigned int` that wraps modulo 2^32    *)
(* and is then reduced modulo HASH_SIZE.  HASH_SIZE divides 2^32, so       *)
(* reducing every intermediate value modulo HASH_SIZE gives the same       *)
(* bucket as the 32-bit arithmetic, and keeps TLC's integers small.        *)
(***************************************************************************)
EXTENDS Integers, Sequences, SequencesExt

CONSTANTS
    Key,          \* the keys callers use, each a sequence of byte codes
    Value,        \* the values callers store
    NotFound,     \* what a failed lookup yields
    HashSize,     \* HASH_SIZE (hash.h)
    MaxKeySize,   \* MAX_KEY_SIZE (hash.h)
    DbInitCalled  \* whether db_init has allocated global_cluster_db.hash_table

ASSUME \E j \in 0..31 : 2^j = HashSize
ASSUME Key \subseteq Seq(1..255) /\ NotFound \notin Value
ASSUME DbInitCalled \in BOOLEAN

VARIABLES
    entries,  \* table->entries: bucket index -> chain, head first
    reply     \* what the last db_* call returned to its caller

vars == <<entries, reply>>

-----------------------------------------------------------------------------
(* The two string hashes of hash.c. *)

\* hash()'s loop with hash_func's update step.
RECURSIVE HashLoopTimes33(_, _)
HashLoopTimes33(h, s) ==
    IF s = <<>> THEN h
    ELSE HashLoopTimes33((h * 33 + Head(s)) % HashSize, Tail(s))

\* hash(): hash_val = (hash_val << 5) + c, from 0.  Since 32^2 = HASH_SIZE,
\* only the last two characters of a key decide its bucket.
RECURSIVE HashLoop(_, _)
HashLoop(h, s) ==
    IF s = <<>> THEN h ELSE HashLoop((h * 32 + Head(s)) % HashSize, Tail(s))

hash(k) == HashLoop(0, k) % HashSize

\* hash_func(): DJB2, hash = hash * 33 + c, from 5381.
RECURSIVE Djb2Loop(_, _)
Djb2Loop(h, s) ==
    IF s = <<>> THEN h ELSE Djb2Loop((h * 33 + Head(s)) % HashSize, Tail(s))

hash_func(k) == Djb2Loop(5381 % HashSize, k) % HashSize

\* The buckets any key can be looked up or stored in.  Every other bucket
\* of the 1024 is NULL in every reachable state.
Bucket == {hash(k) : k \in Key} \cup {hash_func(k) : k \in Key}

Entry == [key : Key, value : Value]

\* The position of key k in a chain, 0 if absent: the strcmp loops.
Find(chain, k) == SelectInSeq(chain, LAMBDA e : e.key = k)

-----------------------------------------------------------------------------
(* The table operations, as functions of the table. *)

\* hash_put without its scan for an existing entry.
HashPutNoScan(t, k, v) ==
    LET i == hash(k) IN [t EXCEPT ![i] = <<[key |-> k, value |-> v]>> \o @]

\* hash_put: overwrite the value of an entry for k in bucket hash(k), or
\* push a new entry at the head of that chain.
hash_put(t, k, v) ==
    LET i == hash(k)
        j == Find(t[i], k)
    IN IF j # 0 THEN [t EXCEPT ![i][j].value = v]
                ELSE [t EXCEPT ![i] = <<[key |-> k, value |-> v]>> \o @]

\* hash_get copying out the key of the entry found instead of its value.
HashGetCopiesKey(t, k) ==
    LET chain == t[hash_func(k)]
        j == Find(chain, k)
    IN IF j # 0 THEN chain[j].key ELSE NotFound

\* hash_get: scan bucket hash_func(k).
hash_get(t, k) ==
    LET chain == t[hash_func(k)]
        j == Find(chain, k)
    IN IF j # 0 THEN chain[j].value ELSE NotFound

\* hash_delete looking in bucket hash_func(k), as hash_get does.
HashDeleteByHashFunc(t, k) ==
    LET i == hash_func(k)
        j == Find(t[i], k)
    IN IF j # 0 THEN [t EXCEPT ![i] = RemoveAt(@, j)] ELSE t

\* hash_delete: unlink the first entry for k from bucket hash(k).
hash_delete(t, k) ==
    LET i == hash(k)
        j == Find(t[i], k)
    IN IF j # 0 THEN [t EXCEPT ![i] = RemoveAt(@, j)] ELSE t

-----------------------------------------------------------------------------
(* The db.c API.  With hash_table NULL, every hash_* call fails at once. *)

Reply(op, k, v) == [op |-> op, key |-> k, value |-> v]

Init ==
    /\ entries = [b \in Bucket |-> <<>>]
    /\ reply = [op |-> "none", key |-> NotFound, value |-> NotFound]

\* db_insert ignores what hash_put returns and reports DB_SUCCESS.
\* hash_put fails for a NULL table or a key of MAX_KEY_SIZE bytes or more.
db_insert(k, v) ==
    /\ entries' = IF DbInitCalled /\ Len(k) < MaxKeySize
                  THEN hash_put(entries, k, v) ELSE entries
    /\ reply' = Reply("insert", k, v)

\* db_get: the value hash_get copies out, or -1 ("Key not found").
db_get(k) ==
    /\ reply' = Reply("get", k, IF DbInitCalled THEN hash_get(entries, k)
                                                ELSE NotFound)
    /\ UNCHANGED entries

\* db_delete ignores what hash_delete returns and reports DB_SUCCESS.
db_delete(k) ==
    /\ entries' = IF DbInitCalled THEN hash_delete(entries, k) ELSE entries
    /\ reply' = Reply("delete", k, NotFound)

Next == \E k \in Key : \/ \E v \in Value : db_insert(k, v)
                       \/ db_get(k)
                       \/ db_delete(k)

Spec == Init /\ [][Next]_vars

-----------------------------------------------------------------------------
(* Reference definitions of the two hashes: the polynomials they evaluate *)
(* by Horner's rule, summed term by term.                                 *)

MaxKeyLen == 255

\* PowMod(b)[j] = b^j modulo HASH_SIZE.
PowMod(b) ==
    LET p[j \in 0..MaxKeyLen] == IF j = 0 THEN 1 % HashSize
                                 ELSE (p[j - 1] * b) % HashSize
    IN p

\* hash(k) = sum of k[i] * 32^(n-i), modulo 2^32 and HASH_SIZE.
HashRef(k) ==
    LET p == PowMod(32)
    IN SumFunction([i \in DOMAIN k |-> (k[i] * p[Len(k) - i]) % HashSize])
         % HashSize

\* hash_func(k) = 5381 * 33^n + sum of k[i] * 33^(n-i).
Djb2Ref(k) ==
    LET p == PowMod(33)
    IN ((5381 % HashSize) * p[Len(k)]
        + SumFunction([i \in DOMAIN k |-> (k[i] * p[Len(k) - i]) % HashSize]))
         % HashSize

\* What the table holds, read as a map: the value of an entry for k in any
\* bucket, or NotFound.
Contents ==
    [k \in Key |->
        LET hits == {e \in UNION {ToSet(entries[b]) : b \in Bucket} : e.key = k}
        IN IF hits = {} THEN NotFound ELSE (CHOOSE e \in hits : TRUE).value]

-----------------------------------------------------------------------------
(* Properties *)

TypeOK ==
    /\ DOMAIN entries = Bucket
    /\ \A b \in Bucket : entries[b] \in Seq(Entry)
    /\ reply.op \in {"none", "insert", "get", "delete"}
    /\ reply.value \in Value \cup {NotFound}

\* Each key sits in at most one entry of the table, in the bucket of the
\* polynomial hash() is written to compute (HashRef, 32-bit wrap-around
\* included): hash_put's loop computes that bucket, its scan finds an
\* earlier entry before it pushes a new one, and hash_delete looks where
\* hash_put stored.  A second entry for a key would reappear after
\* hash_delete unlinks the first.
KeysWhereHashed ==
    \A b \in Bucket : \A i \in 1..Len(entries[b]) :
        /\ b = HashRef(entries[b][i].key)
        /\ \A j \in 1..Len(entries[b]) :
              entries[b][j].key = entries[b][i].key => i = j

\* A db_insert or db_delete that reports DB_SUCCESS has changed the stored
\* map exactly as the caller asked (with db_init called): the write paths
\* of dstore.c rely on this when they reply "OK" or replicate.
WritesTakeEffect ==
    [][reply'.op \in {"insert", "delete"}
         => Contents' = [Contents EXCEPT ![reply'.key] = reply'.value]]_vars

\* The table implements the key-value map db.h offers: a db_get returns
\* what the last db_insert of that key stored, unless db_delete came after.
KV == INSTANCE KvStore WITH kv <- Contents, reply <- reply

KvRefinement == KV!Spec

=============================================================================
