------------------------------ MODULE KeyValue ------------------------------
(***************************************************************************)
(* The three stores behind wasi:keyvalue: on files, on a NATS stream and on *)
(* a Redis server.  A behaviour is of one of them, as its terms say.        *)
(***************************************************************************)
EXTENDS FileKeyValue, NatsKeyValue, RedisKeyValue

storesAll == <<bucketVars, fileOnly, natsOnly, redisOnly>>

NoFiles ==
    /\ val = None /\ exp = None /\ pc = None /\ weak = None /\ handle = None
    /\ saved = None /\ got = None /\ cands = None

NoStream ==
    /\ msg = None /\ seq = None /\ awaits = None /\ snap = None /\ wire = None
    /\ tries = None /\ late = None /\ lost = None /\ applied = None

NoServer == db = None /\ gathered = None /\ scan = None

StoresInit ==
    \/ FileInit /\ NoStream /\ NoServer
    \/ NatsInit /\ NoFiles /\ NoServer
    \/ RedisInit /\ NoFiles /\ NoStream

StoresNext ==
    \/ terms.store = "files" /\ FileNext /\ UNCHANGED <<natsOnly, redisOnly>>
    \/ terms.store = "stream" /\ NatsNext /\ UNCHANGED <<fileOnly, redisOnly>>
    \/ terms.store = "redis" /\ RedisNext /\ UNCHANGED <<fileOnly, natsOnly>>

StoresSpec == StoresInit /\ [][StoresNext]_storesAll

-------------------------------------------------------------------------------
\* No two operations are inside one key and what one replaces is what it read,
\* through failed file steps and a process that dies; an operation of the stream
\* takes effect at most once, through lost races and publishes given up on; a
\* listing of the server names every key that was there throughout.
StoreInv ==
    /\ terms.store = "files" => FileTypeOK /\ OneInside /\ ReadStillThere
    /\ terms.store = "stream" => NatsTypeOK /\ AppliedOnce
    /\ terms.store = "redis" => ListingSound

\* Without faults the files, and the server's commands, do what ExpiringStore
\* promises, expiries included.
BucketsLinearizable ==
    /\ terms.store = "files" => FileStore!Init
    /\ terms.store = "redis" => RedisStore!Init
    /\ [][/\ terms.store = "files" /\ ~terms.fails => [FileStore!Next]_(FileStore!vars)
          /\ terms.store = "redis" => [RedisStore!Next]_(RedisStore!vars)]_storesAll

\* Entries of the stream without a time to live do too.
NatsLinearizable ==
    /\ terms.store = "stream" => NatsStore!Init
    /\ [][terms.store = "stream" /\ Lasting => [NatsStore!Next]_(NatsStore!vars)]_storesAll

\* keyvalue.rs: "Writes are atomic".
WritesAtomic == [][terms.store = "files" => AllOrNothing]_storesAll

\* README: the time to live is carried over.
DeadlineKept == [][terms.store = "stream" => DeadlineCarried]_storesAll

==============================================================================
