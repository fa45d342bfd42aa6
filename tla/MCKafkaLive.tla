---------------------------- MODULE MCKafkaLive ----------------------------
(***************************************************************************)
(* The schema registry and the delivery loop under their fairness.  In a   *)
(* behaviour one of them is over from the start, so that the states are    *)
(* the sum of theirs and not the product.                                  *)
(***************************************************************************)
EXTENDS KafkaDelivery, SchemaRegistry

LiveInit ==
    \/ Init /\ RegistryStarts("dropped")
    \/ Starts("failed") /\ RegistryInit

LiveNext ==
    \/ Next /\ UNCHANGED registryVars
    \/ RegistryNext /\ UNCHANGED vars

LiveSpec ==
    /\ LiveInit /\ [][LiveNext]_<<vars, registryVars>>
    /\ Fairness /\ RegistryFairness

=============================================================================
