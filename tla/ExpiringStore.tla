---------------------------- MODULE ExpiringStore ----------------------------
(***************************************************************************)
(* What a wasi:keyvalue bucket promises: every operation takes effect at    *)
(* once, at some moment between its call and its answer, on entries that    *)
(* carry a value and perhaps the time it expires at.                        *)
(***************************************************************************)
EXTENDS Entries

CONSTANTS
    Keys, Clients,
    Ops,          \* the operations a client may call
    Racy          \* an operation that lost a race may be answered so

VARIABLES
    store,  \* per key, its [val, exp]
    clock,
    op,     \* per client, the operation under way
    began,  \* per client, when it was called
    ret     \* per client, the last answer

vars == <<store, clock, op, began, ret>>

Init ==
    /\ store = [k \in Keys |-> Absent]
    /\ clock = 0
    /\ op = [c \in Clients |-> None]
    /\ began = [c \in Clients |-> 0]
    /\ ret = [c \in Clients |-> Answer("none", None)]

Begin(c) ==
    /\ op[c] = None
    /\ \E o \in Ops : op' = [op EXCEPT ![c] = o]
    /\ began' = [began EXCEPT ![c] = clock]
    /\ UNCHANGED <<store, clock, ret>>

Apply(c) ==
    /\ op[c] # None
    /\ \E t \in began[c] .. clock :
         LET r == Effect(op[c], store[op[c].key], t) IN
         /\ store' = [store EXCEPT ![op[c].key] = r.entry]
         /\ ret' = [ret EXCEPT ![c] = r.ret]
    /\ op' = [op EXCEPT ![c] = None]
    /\ UNCHANGED <<clock, began>>

\* An operation that lost a race to another is refused with what it then finds, or
\* gives up; it leaves nothing.
Refuse(c) ==
    /\ Racy /\ op[c] # None
    /\ \/ op[c].kind = "cas"
          /\ ret' = [ret EXCEPT ![c] = Answer("conflict", At(store[op[c].key], clock).val)]
       \/ op[c].kind = "increment" /\ ret' = [ret EXCEPT ![c] = Answer("error", None)]
    /\ op' = [op EXCEPT ![c] = None]
    /\ UNCHANGED <<store, clock, began>>

\* An entry past its time goes, whoever finds it.
Expire(k) ==
    /\ store[k] # Absent /\ At(store[k], clock) = Absent
    /\ store' = [store EXCEPT ![k] = Absent]
    /\ UNCHANGED <<clock, op, began, ret>>

Tick == clock' = clock + 1 /\ UNCHANGED <<store, op, began, ret>>

Next ==
    \/ \E c \in Clients : Begin(c) \/ Apply(c) \/ Refuse(c)
    \/ \E k \in Keys : Expire(k)
    \/ Tick

Spec == Init /\ [][Next]_vars

==============================================================================
