------------------------------- MODULE Buckets -------------------------------
(***************************************************************************)
(* What the key-value stores have in common: clients that each call one     *)
(* operation at a time, and what a behaviour is of.                         *)
(***************************************************************************)
EXTENDS Entries, FiniteSets

CONSTANTS
    Keys, Clients,
    Values,    \* what a key may hold that is no number
    MaxOps,    \* bound: operations called in a behaviour
    Terms      \* what a behaviour may be of, below

\* An operation on a key; a listing has a shape of its own in each store.
Calls ==
    [kind : {"get", "delete", "increment"}, key : Keys]
      \cup [kind : {"set"}, key : Keys, val : Values \cup Nat, ttl : Nat \cup {None}]
      \cup [kind : {"cas"}, key : Keys, expected : Values \cup Nat \cup {None}, val : Values \cup Nat]

\* The store, the clients that call and the operations they call, how far the clock
\* goes, whether file steps may fail and how many publishes may be given up on.
ASSUME BucketAssumption ==
    /\ IsFiniteSet(Clients) /\ MaxOps \in Nat
    /\ Counters \subseteq Nat
    /\ None \notin Nat /\ None \notin Values /\ None \notin Calls
    /\ \A t \in Terms :
        /\ DOMAIN t = {"store", "clients", "ops", "ticks", "fails", "lost"}
        /\ t.store \in {"files", "stream", "redis"} /\ t.clients \subseteq Clients
        /\ t.ticks \in Nat /\ t.fails \in BOOLEAN /\ t.lost \in Nat
        /\ \A o \in t.ops : o \in Calls \/ o.kind = "keys"

VARIABLES
    terms,  \* what this behaviour is of
    clock,
    op,     \* per client, the operation under way
    began,  \* per client, when it was called
    ret,    \* per client, the last answer
    begun   \* operations called so far

bucketVars == <<terms, clock, op, began, ret, begun>>

CallsOf(store) == UNION {t.ops : t \in {u \in Terms : u.store = store}}

BucketInit(store) ==
    /\ terms \in Terms /\ terms.store = store
    /\ clock = 0 /\ begun = 0
    /\ op = [c \in Clients |-> None] /\ began = [c \in Clients |-> 0]
    /\ ret = [c \in Clients |-> Answer("none", None)]

==============================================================================
