----------------------------- MODULE MCKeyValue -----------------------------
(***************************************************************************)
(* The files with and without faults, the stream with entries that expire  *)
(* and with entries that last, and the Redis server.                       *)
(***************************************************************************)
EXTENDS KeyValue, TLC

CONSTANT blob

\* Two buckets of the server, the identifier of one a prefix of the other's keys.
k1 == <<"a", "x">>
k2 == <<"a", "b", "x">>
MCKeys == {k1, k2}

Get(k) == [kind |-> "get", key |-> k]
Set(k, v, t) == [kind |-> "set", key |-> k, val |-> v, ttl |-> t]
Delete(k) == [kind |-> "delete", key |-> k]
Increment(k) == [kind |-> "increment", key |-> k]
Cas(k, e, v) == [kind |-> "cas", key |-> k, expected |-> e, val |-> v]
List == [kind |-> "keys", key |-> k1]

\* Every operation on one key, and an increment of another.
EachOnFiles ==
    {Get(k1), Set(k1, blob, None), Set(k1, 1, 1), Delete(k1), Increment(k1),
     Cas(k1, None, 1), Cas(k1, 1, blob), Increment(k2), List}

\* Operations that race for a key while others come and go.
Racing == {Increment(k1), Set(k1, 1, 1), Cas(k1, 1, blob), Increment(k2)}

\* Writes of each kind, the set with a time to live, the swap where nothing is.
Expiring == {Set(k1, 1, 1), Delete(k1), Increment(k1), Cas(k1, None, 1)}

\* Every operation, none with a time to live.
NoneExpires ==
    {Get(k1), Set(k1, 1, None), Set(k1, blob, None), Delete(k1), Increment(k1),
     Cas(k1, 1, blob), Cas(k1, None, 1)}

OnServer ==
    {Get(k1), Set(k1, 1, 2), Set(k1, blob, 0), Delete(k1), Increment(k1), Cas(k1, None, 1),
     Cas(k1, 1, blob), Set(k2, 1, None), [kind |-> "keys", bucket |-> <<"a">>],
     [kind |-> "keys", bucket |-> <<"a", "b">>]}

\* Two clients, whichever, or all three.
MCTerms ==
    LET two == {s \in SUBSET Clients : Cardinality(s) = 2}
        Of(store, clients, ops, ticks, fails, up) ==
            [store : {store}, clients : clients, ops : {ops}, ticks : {ticks}, fails : {fails},
             lost : {up}]
    IN  UNION {Of("files", two, EachOnFiles, 2, FALSE, 0), Of("files", {Clients}, Racing, 1, TRUE, 0),
               Of("stream", two, Expiring, 3, FALSE, 1), Of("stream", {Clients}, NoneExpires, 0, FALSE, 0),
               Of("redis", two, OnServer, 2, FALSE, 0)}

Symmetry == Permutations(Clients)

=============================================================================
