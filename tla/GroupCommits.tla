----------------------------- MODULE GroupCommits -----------------------------
(***************************************************************************)
(* What the Kafka backend promises a consumer group, with no consumer in   *)
(* it: records become settled, the committed offset of a partition only    *)
(* moves forward, and never over a record that is not settled.             *)
(***************************************************************************)
EXTENDS Integers

CONSTANT Partitions

VARIABLES
    settled,    \* records done with their earlier sends reported
    committed   \* partition -> committed offset

Init ==
    /\ settled = {}
    /\ committed = [p \in Partitions |-> 0]

\* Records settle, partitions commit, or both.
Progress ==
    /\ settled \subseteq settled'
    /\ \A p \in Partitions :
         /\ committed[p] <= committed'[p]
         /\ \A o \in 0 .. committed'[p] - 1 : [p |-> p, offset |-> o] \in settled'

Spec == Init /\ [][Progress]_<<settled, committed>>

=============================================================================
