---------------------------- MODULE MCKafkaOffsets ----------------------------
(***************************************************************************)
(* Instances of KafkaOffsets for TLC.  The partitions are interchangeable. *)
(***************************************************************************)
EXTENDS KafkaOffsets, TLC

Symmetry == Permutations(Partitions)

=============================================================================
