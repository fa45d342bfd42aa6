------------------------------- MODULE Tracker -------------------------------
(***************************************************************************)
(* The offset tracker of omnia-kafka (crates/kafka/src/tracker.rs), as     *)
(* operators on its parts.  The BTreeMap offset -> Pending of a partition  *)
(* is a set of entries with distinct offsets; an Option<Stored> is a set   *)
(* of at most one entry; the loops of `resolve` and `advance` are given by *)
(* what they compute, so that nothing here is recursive.                   *)
(***************************************************************************)
EXTENDS Integers

\* One record the host has been given.  sendsBefore counts once done is set.
Entry == [offset: Nat, ticket: Nat, done: BOOLEAN, sendsBefore: Nat]

\* Mutant of Resolved: the sends are not waited for.
ResolvedAtReturn(e, delivered) == e.done

\* Pending::resolved
Resolved(e, delivered) == e.done /\ e.sendsBefore <= delivered

\* Mutant of LeadingRun: a resolved entry is removed wherever it stands.
AnyResolved(pend, delivered) == {e \in pend : Resolved(e, delivered)}

\* Partition::resolve removes the entries at the front for as long as they
\* are resolved: exactly those with no unresolved entry at or before them.
LeadingRun(pend, delivered) ==
    {e \in pend : \A f \in pend : f.offset <= e.offset => Resolved(f, delivered)}

Resolve(pend, delivered) == pend \ LeadingRun(pend, delivered)

\* The last entry of the run, whose offset is the new resolved offset.
LastResolved(pend, delivered) ==
    {e \in LeadingRun(pend, delivered) :
        \A f \in LeadingRun(pend, delivered) : f.offset <= e.offset}

\* Tracker::insert; an earlier pull of the same offset is replaced.
Insert(pend, isRevoked, offset, ticket) ==
    IF isRevoked THEN pend
    ELSE {e \in pend : e.offset # offset}
           \cup {[offset |-> offset, ticket |-> ticket,
                  done |-> FALSE, sendsBefore |-> 0]}

\* Tracker::holds
Holds(pend, offset, ticket) ==
    \E e \in pend : e.offset = offset /\ e.ticket = ticket

\* The entry Tracker::done changes, when the pull still holds its offset.
SetDone(pend, offset, ticket, sendsBefore) ==
    {e \in pend : ~(e.offset = offset /\ e.ticket = ticket)}
      \cup {[e EXCEPT !.done = TRUE, !.sendsBefore = sendsBefore] :
              e \in {f \in pend : f.offset = offset /\ f.ticket = ticket}}

\* Tracker::advance moves the watermark past `delivered` to the first number
\* that has no report yet.
Unreported(delivered, outOfOrder) ==
    {n \in {m + 1 : m \in {delivered} \cup outOfOrder} :
        n > delivered /\ n \notin outOfOrder}

\* Mutant of Advance: early reports are not taken in.
AdvanceByOne(delivered, outOfOrder) == delivered + 1

Advance(delivered, outOfOrder) ==
    CHOOSE n \in Unreported(delivered, outOfOrder) :
        \A m \in Unreported(delivered, outOfOrder) : n <= m

=============================================================================
