------------------------------- MODULE Entries -------------------------------
(***************************************************************************)
(* The entries of a wasi:keyvalue bucket: a value and perhaps the time it   *)
(* expires at, and what each operation makes of one.                        *)
(***************************************************************************)
EXTENDS Naturals

CONSTANTS
    Counters,     \* the values an increment can read
    None          \* no value, no expiry, no operation

Absent == [val |-> None, exp |-> None]
Entry(v, e) == IF v = None THEN Absent ELSE [val |-> v, exp |-> e]

\* The entry as it stands at time t.
At(e, t) == IF e.exp # None /\ t >= e.exp THEN Absent ELSE e

Answer(tag, v) == [tag |-> tag, val |-> v]

\* add_i64: an absent value counts as zero, a value that is no counter is refused.
Countable(v) == v = None \/ v \in Counters
AddOne(v) == IF v = None THEN 1 ELSE v + 1

Deadline(ttl, t) == IF ttl = None THEN None ELSE t + ttl

\* The entry and the answer an operation leaves of e, taking effect at time t.
Effect(o, e, t) ==
    LET live == At(e, t) IN
    CASE o.kind = "get" -> [entry |-> live, ret |-> Answer("ok", live.val)]
      [] o.kind = "set" -> [entry |-> Entry(o.val, Deadline(o.ttl, t)), ret |-> Answer("ok", None)]
      [] o.kind = "delete" -> [entry |-> Absent, ret |-> Answer("ok", None)]
      [] o.kind = "increment" ->
           IF Countable(live.val)
             THEN [entry |-> Entry(AddOne(live.val), live.exp), ret |-> Answer("ok", AddOne(live.val))]
             ELSE [entry |-> live, ret |-> Answer("error", None)]
      [] o.kind = "cas" ->
           IF live.val = o.expected
             THEN [entry |-> Entry(o.val, live.exp), ret |-> Answer("ok", None)]
             ELSE [entry |-> live, ret |-> Answer("conflict", live.val)]

==============================================================================
