--------------------------- MODULE MCKafkaDelivery ---------------------------
(***************************************************************************)
(* Instances of KafkaDelivery for TLC.  The keys are interchangeable.      *)
(***************************************************************************)
EXTENDS KafkaDelivery, TLC

Symmetry == Permutations(Keys)

=============================================================================
