----------------------------- MODULE ProcessGroup -----------------------------
(***************************************************************************)
(* A launched process, everything it forks, and what the kernel and tokio  *)
(* tell its parent, as crates/sandbox/src/child.rs uses them.  The process *)
(* leads a group of its own; a fork stays in the group unless it leaves    *)
(* it, and whatever is alive holds the stderr and stdout pipes open.       *)
(***************************************************************************)

CONSTANT Forks   \* processes the leader, or one of its forks, may fork

VARIABLES
    leader,   \* "running", "exited", "waitable" (wait() would return), "reaped"
    life      \* fork -> "unborn", "group", "stray" (left the group), "dead"

groupVars == <<leader, life>>

InGroup == {f \in Forks : life[f] = "group"}
Strays  == {f \in Forks : life[f] = "stray"}
Alive   == leader = "running" \/ InGroup # {}
\* Nobody is left to hold a pipe open.
PipesClosed == leader # "running" /\ InGroup = {} /\ Strays = {}

GroupInit ==
    /\ leader = "running"
    /\ life = [f \in Forks |-> "unborn"]

LeaderExits ==
    /\ leader = "running"
    /\ leader' = "exited"
    /\ UNCHANGED life

\* The exit reaches the parent's reactor.
ExitNoticed ==
    /\ leader = "exited"
    /\ leader' = "waitable"
    /\ UNCHANGED life

ForkBorn(f) ==
    /\ Alive
    /\ life[f] = "unborn"
    /\ life' = [life EXCEPT ![f] = "group"]
    /\ UNCHANGED leader

ForkLeaves(f) ==
    /\ life[f] = "group"
    /\ life' = [life EXCEPT ![f] = "stray"]
    /\ UNCHANGED leader

ForkExits(f) ==
    /\ life[f] \in {"group", "stray"}
    /\ life' = [life EXCEPT ![f] = "dead"]
    /\ UNCHANGED leader

\* start_kill: SIGKILL to the group, whether or not its leader still exists.
KillGroup ==
    /\ leader' = IF leader = "running" THEN "exited" ELSE leader
    /\ life' = [f \in Forks |-> IF life[f] = "group" THEN "dead" ELSE life[f]]

\* KillOnDrop: SIGKILL to the leader alone.
KillLeader ==
    /\ leader' = IF leader = "running" THEN "exited" ELSE leader
    /\ UNCHANGED life

GroupNext ==
    \/ LeaderExits
    \/ ExitNoticed
    \/ \E f \in Forks : ForkBorn(f)
    \/ \E f \in Forks : ForkLeaves(f)
    \/ \E f \in Forks : ForkExits(f)

GroupTypeOK ==
    /\ leader \in {"running", "exited", "waitable", "reaped"}
    /\ life \in [Forks -> {"unborn", "group", "stray", "dead"}]

=============================================================================
