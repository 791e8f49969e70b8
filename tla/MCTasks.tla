------------------------------- MODULE MCTasks -------------------------------
(***************************************************************************)
(* The task manager with two periodic tasks and a background task, one of  *)
(* which retries without a delay; and the task that advertises a router on *)
(* an interface with DHCP contexts.  The two kinds of tasks share no       *)
(* state, so each is explored while the other is where it started.         *)
(***************************************************************************)
EXTENDS Tasks, Radv, TLC

CONSTANTS p1, p2, b1, eth0

MCBackoff == [t \in Task |-> IF t = p2 THEN "none" ELSE "exponential"]

MCInterval == eth0 :> 2
MCIsRouter == eth0 :> TRUE

\* The ULA is in two contexts, the global address in one whose times a number
\* cannot hold.
MCContexts ==
    LET Context(names, covers, lease_time) ==
           [ifaces |-> {eth0}, names |-> names, covers |-> covers, lease_time |-> lease_time]
    IN  <<Context(FALSE, {"ula", "link_global"}, 12), Context(TRUE, {"ula"}, 8)>>

MCInit == TasksInit /\ RadvInit

MCNext ==
    \/ RadvInit /\ TasksNext /\ UNCHANGED radv
    \/ TasksInit /\ RadvNext /\ UNCHANGED tasks

MCSpec == MCInit /\ [][MCNext]_<<tasks, radv>> /\ TasksFairness

=============================================================================
