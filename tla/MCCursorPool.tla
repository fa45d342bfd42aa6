---------------------------- MODULE MCCursorPool ----------------------------
(***************************************************************************)
(* The pool with its callback, and the stream of one run.  In a behaviour  *)
(* one of them is over from the start, so that the states are the sum of   *)
(* theirs and not the product.                                             *)
(***************************************************************************)
EXTENDS CursorPool, RunStream

CursorInit ==
    \/ Init /\ StreamStarts("finished")
    \/ Starts("gone") /\ StreamInit

CursorNext ==
    \/ Next /\ UNCHANGED streamVars
    \/ StreamNext /\ UNCHANGED vars

CursorSpec ==
    /\ CursorInit /\ [][CursorNext]_<<vars, streamVars>>
    /\ Fairness /\ StreamFairness

\* A completion that waits for a slot gets one or gives up, and what a lease held
\* is given back in the end: its token, its route, its permit.
PoolServes == QueuedServed /\ GivenBack

\* Nothing rearms the cap: a stream that never falls silent ends too.
StreamEnds == RunEnds

=============================================================================
