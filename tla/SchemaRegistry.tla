---------------------------- MODULE SchemaRegistry ----------------------------
(***************************************************************************)
(* The schema cache of the Kafka backend (registry.rs): lookups by schema  *)
(* id (decode) and by topic subject (encode), the single-flight fetch they *)
(* share, and what a lookup gives the record or the send it is for.        *)
(*                                                                         *)
(* A fetch is a Shared future: it makes progress only while some caller    *)
(* polls it, and a caller may be dropped at its await.                     *)
(***************************************************************************)
EXTENDS Integers, FiniteSets

CONSTANTS
    Calls,      \* calls of encode and decode, each made at most once
    Subjects,   \* keys of by_subject
    Ids,        \* keys of by_id
    MaxFetches  \* bound: fetches started

ASSUME KeysAssumption ==
    /\ MaxFetches \in Nat
    /\ Subjects \cap Ids = {}
    /\ Subjects \cup Ids # {}

CacheKeys == Subjects \cup Ids
Fetches == 1 .. MaxFetches
NoFetch == 0

\* What the registry says: a schema that compiles, one that does not, 404, or
\* no answer (after the client's own retries).
Answers == {"schema", "invalid", "unknown", "unavailable"}

VARIABLES
    cache,     \* key -> [state, fetch]: the Entry of get_or_fetch
    fetches,   \* fetches started
    answer,    \* fetch -> "pending" or what it came to
    phase,     \* call -> where it stands
    lookup,    \* call -> its key, once made
    joined,    \* call -> the fetch it waits on or reads
    result     \* call -> what it returned

registryVars == <<cache, fetches, answer, phase, lookup, joined, result>>

Phases  == {"idle", "waiting", "settling", "returned", "dropped"}
Results == {"none", "framed", "unwrapped", "as_it_came", "invalid_payload",
            "registry_unavailable", "unknown_schema", "invalid_schema"}
Absent  == [state |-> "absent", fetch |-> NoFetch]

\* A subject the registry does not know is an answer (send unframed); an id it
\* does not know is a failure.
Succeeds(k, a) == a = "schema" \/ (k \in Subjects /\ a = "unknown")

\* What encode and decode make of a lookup of k that came to a: the payload is
\* checked only under a schema.
Outcomes(k, a) ==
    CASE a = "schema"      -> {IF k \in Subjects THEN "framed" ELSE "unwrapped",
                               "invalid_payload"}
      [] a = "unknown"     -> {IF k \in Subjects THEN "as_it_came" ELSE "unknown_schema"}
      [] a = "invalid"     -> {"invalid_schema"}
      [] a = "unavailable" -> {"registry_unavailable"}

RegistryStarts(at) ==
    /\ cache = [k \in CacheKeys |-> Absent]
    /\ fetches = 0
    /\ answer = [f \in Fetches |-> "pending"]
    /\ phase = [c \in Calls |-> at]
    /\ lookup = [c \in Calls |-> CHOOSE k \in CacheKeys : TRUE]
    /\ joined = [c \in Calls |-> NoFetch]
    /\ result = [c \in Calls |-> "none"]

RegistryInit == RegistryStarts("idle")

-------------------------------------------------------------------------------
(***************************************************************************)
(* get_or_fetch, first critical section                                    *)
(***************************************************************************)

Join(c, k, f, to) ==
    /\ phase[c] = "idle"
    /\ phase' = [phase EXCEPT ![c] = to]
    /\ lookup' = [lookup EXCEPT ![c] = k]
    /\ joined' = [joined EXCEPT ![c] = f]

\* A ready value is returned at once.
Hit(c, k) ==
    /\ cache[k].state = "ready"
    /\ Join(c, k, cache[k].fetch, "returned")
    /\ \E r \in Outcomes(k, answer[cache[k].fetch]) : result' = [result EXCEPT ![c] = r]
    /\ UNCHANGED <<cache, fetches, answer>>

\* A fetch is under way, or its outcome has not been settled yet.
Share(c, k) ==
    /\ cache[k].state = "fetching"
    /\ Join(c, k, cache[k].fetch, "waiting")
    /\ UNCHANGED <<cache, fetches, answer, result>>

Miss(c, k) ==
    /\ cache[k].state = "absent"
    /\ fetches < MaxFetches
    /\ fetches' = fetches + 1
    /\ cache' = [cache EXCEPT ![k] = [state |-> "fetching", fetch |-> fetches + 1]]
    /\ Join(c, k, fetches + 1, "waiting")
    /\ UNCHANGED <<answer, result>>

-------------------------------------------------------------------------------
(***************************************************************************)
(* The await on the shared fetch                                           *)
(***************************************************************************)

\* A waiting caller polls the fetch to its end.  The poll goes on to settle the
\* entry, with no await at which the caller could be dropped.
Finish(c, a) ==
    /\ phase[c] = "waiting"
    /\ answer[joined[c]] = "pending"
    /\ answer' = [answer EXCEPT ![joined[c]] = a]
    /\ phase' = [phase EXCEPT ![c] = "settling"]
    /\ UNCHANGED <<cache, fetches, lookup, joined, result>>

\* Mutant of Wake: the end of a fetch wakes nobody but the caller who polled it.
WakeNobody(c) == phase[c] = "woken" /\ UNCHANGED registryVars

\* The other waiters are woken and see the outcome.
Wake(c) ==
    /\ phase[c] = "waiting"
    /\ answer[joined[c]] # "pending"
    /\ phase' = [phase EXCEPT ![c] = "settling"]
    /\ UNCHANGED <<cache, fetches, answer, lookup, joined, result>>

\* The caller's future is dropped: a delivery aborted, a guest cancelled.
Drop(c) ==
    /\ phase[c] = "waiting"
    /\ phase' = [phase EXCEPT ![c] = "dropped"]
    /\ UNCHANGED <<cache, fetches, answer, lookup, joined, result>>

-------------------------------------------------------------------------------
(***************************************************************************)
(* Second critical section                                                 *)
(***************************************************************************)

\* The entry a settled fetch leaves: a success is kept, a failure forgotten.
Settled(k, f) ==
    IF Succeeds(k, answer[f]) THEN [state |-> "ready", fetch |-> f] ELSE Absent

\* Mutant of SettleEntry: whatever the key holds by now is replaced.
SettleOver(k, f) == Settled(k, f)

\* Mutant of SettleEntry: settles the fetch in the map, not the one waited on.
SettleCurrent(k, f) == IF cache[k].state = "fetching" THEN Settled(k, f) ELSE cache[k]

\* A waiter settles the entry only while it is still the fetch it waited on.
SettleEntry(k, f) ==
    IF cache[k] = [state |-> "fetching", fetch |-> f] THEN Settled(k, f) ELSE cache[k]

\* Every waiter settles, then returns the outcome of its own fetch.
Settle(c) ==
    /\ phase[c] = "settling"
    /\ cache' = [cache EXCEPT ![lookup[c]] = SettleEntry(lookup[c], joined[c])]
    /\ phase' = [phase EXCEPT ![c] = "returned"]
    /\ \E r \in Outcomes(lookup[c], answer[joined[c]]) : result' = [result EXCEPT ![c] = r]
    /\ UNCHANGED <<fetches, answer, lookup, joined>>

-------------------------------------------------------------------------------
RegistryNext ==
    \/ \E c \in Calls, k \in CacheKeys : Hit(c, k)
    \/ \E c \in Calls, k \in CacheKeys : Share(c, k)
    \/ \E c \in Calls, k \in CacheKeys : Miss(c, k)
    \/ \E c \in Calls, a \in Answers : Finish(c, a)
    \/ \E c \in Calls : Wake(c)
    \/ \E c \in Calls : Drop(c)
    \/ \E c \in Calls : Settle(c)

RegistrySpec == RegistryInit /\ [][RegistryNext]_registryVars

\* A caller that is not dropped is polled when its fetch has something to say,
\* and a request ends within the client's timeouts and retries.
RegistryFairness ==
    \A c \in Calls : /\ WF_registryVars((\E a \in Answers : Finish(c, a)) \/ Wake(c))
                     /\ WF_registryVars(Settle(c))

RegistryFairSpec == RegistrySpec /\ RegistryFairness

-------------------------------------------------------------------------------
(***************************************************************************)
(* Properties                                                              *)
(***************************************************************************)

\* Types; a cache entry names a started fetch, a ready one a fetch that succeeded.
RegistryTypeOK ==
    /\ cache \in [CacheKeys -> [state: {"absent", "fetching", "ready"}, fetch: Nat]]
    /\ fetches \in 0 .. MaxFetches
    /\ answer \in [Fetches -> Answers \cup {"pending"}]
    /\ phase \in [Calls -> Phases]
    /\ lookup \in [Calls -> CacheKeys]
    /\ joined \in [Calls -> 0 .. fetches]
    /\ result \in [Calls -> Results]
    /\ \A k \in CacheKeys :
         /\ cache[k].fetch <= fetches
         /\ cache[k].state = "ready" => Succeeds(k, answer[cache[k].fetch])

\* One fetch per key at a time: a call that still waits on an unanswered fetch
\* waits on the one the map names, whoever was dropped and however late another
\* waiter settles.
OneFetch ==
    \A c \in Calls :
        phase[c] = "waiting" /\ answer[joined[c]] = "pending"
            => cache[lookup[c]] = [state |-> "fetching", fetch |-> joined[c]]

\* A failure is forgotten before anyone learns of it: a fetch in the map is one
\* whose outcome no call has returned yet, so a call made after a failure was
\* returned never gets that failure.
FailureForgotten ==
    \A k \in CacheKeys : cache[k].state = "fetching" =>
        \A c \in Calls : phase[c] = "returned" => joined[c] # cache[k].fetch

\* All successful calls of a key got the same schema, from one fetch: records of
\* one topic are never framed some with one schema and some with another, or
\* some framed and some not, by the same process.
SameSchema ==
    \A c, d \in Calls :
        /\ phase[c] = "returned" /\ phase[d] = "returned"
        /\ lookup[c] = lookup[d]
        /\ Succeeds(lookup[c], answer[joined[c]])
        /\ Succeeds(lookup[d], answer[joined[d]])
        => joined[c] = joined[d]

\* What holds of the cache and its fetches at every moment: the three above.
RegistryInv == RegistryTypeOK /\ OneFetch /\ FailureForgotten /\ SameSchema

\* A value, once ready, is kept for the life of the process: no waiter of an
\* earlier failed fetch takes it away.
SuccessKept ==
    [][\A k \in CacheKeys : cache[k].state = "ready" => cache'[k] = cache[k]]_registryVars

\* Every call that waits ends: with an outcome, or because it was dropped; a
\* dropped caller does not leave the others waiting on a fetch nobody polls.
EveryCallEnds ==
    \A c \in Calls : (phase[c] = "waiting") ~> (phase[c] \in {"returned", "dropped"})

=============================================================================
