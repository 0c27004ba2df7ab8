--------------------------- MODULE MC_HashTable ---------------------------
EXTENDS HashTable, TLC

CONSTANTS V1, V2

\* "ab" and "bB" share bucket 130 of hash() (97*32+98 = 98*32+66 = 3202),
\* so one chain holds two entries; "rale_leader_term_1" is the key
\* dstore.c inserts on LEADER_ELECTED, long enough for the 32-bit wrap.
\* "az1" is a key for which hash() and hash_func() agree (bucket 881), the
\* one case in 1024 in which hash_get finds what hash_put stored.
MCKey ==
    { <<97, 98>>, <<98, 66>>, <<97, 122, 49>>,
      <<114, 97, 108, 101, 95, 108, 101, 97, 100, 101, 114, 95,
        116, 101, 114, 109, 95, 49>> }

MCValue == {V1, V2}
=============================================================================
