----------------------------- MODULE LeaseLock ------------------------------
(***************************************************************************)
(* The lock around the lease manager: Arc<RwLock<LeaseManager>>, shared by *)
(* the DHCPv4 task (src/src/dhcp/v4/protocol.rs), the DHCPv6 task          *)
(* (src/src/dhcp/v6/server.rs and v6/protocol.rs) and the D-Bus interface  *)
(* (src/src/platform/dbus.rs).  Each handler is the sequence in which it   *)
(* takes and drops guards, one sequence per path through it; a guard that  *)
(* is a temporary of an `if let` or a `match` lives until the end of the   *)
(* whole statement (Rust 2021).                                            *)
(*                                                                         *)
(* The lock is tokio's, external to the repository: a request waits when   *)
(* it is incompatible with the guards that are out or when another request *)
(* waits already, and requests are granted in the order they came.         *)
(***************************************************************************)
EXTENDS Naturals, Sequences

CONSTANTS
    V4Messages,  \* the kinds of messages that reach the DHCPv4 task
    MaxScan      \* bound: addresses one search of the range looks at

ASSUME MessagesAssumption ==
    V4Messages \subseteq {"discover", "request", "decline", "release"}

ASSUME MaxScanAssumption == MaxScan \in Nat \ {0}

Task == {"v4", "v6", "dbus"}

Mode == {"read", "write"}

VARIABLES
    script,  \* what is left of each task's handler: <<>> when it is idle
    guards,  \* the guards each task has, in the order it took them
    queue    \* tasks waiting for the lock, in the order they came

lock == <<script, guards, queue>>

-----------------------------------------------------------------------------
(* The handlers *)

Reading == <<"read", "drop">>

Writing == <<"write", "drop">>

\* A search reads once for each address it looks at.
Scan(n) == [i \in 1..(2 * n) |-> IF i % 2 = 1 THEN "read" ELSE "drop"]

\* handle_discover: the guard of find_by_mac is the scrutinee of an `if let` and
\* is out while allocate_address_from_range reads on; a reservation reads
\* nothing, a live lease is offered at once.
DiscoverPaths ==
    {Reading} \cup {<<"read">> \o Scan(n) \o <<"drop">> : n \in 1..MaxScan}

\* A request is refused after the look at the lease, or goes on to allocate_lease
\* or renew_lease.
RequestPaths == {Reading, Reading \o Reading}

\* The `if` drops its guard before the block: the record is made, if there is
\* none, and then marked.
DeclinePaths == {Reading \o Writing, Reading \o Reading \o Writing}

ReleasePaths == {Reading}

V4Paths ==
    UNION {CASE kind = "discover" -> DiscoverPaths
             [] kind = "request" -> RequestPaths
             [] kind = "decline" -> DeclinePaths
             [] OTHER -> ReleasePaths : kind \in V4Messages}

\* SOLICIT reads, with rapid commit it goes on as REQUEST; the other messages,
\* the timer's prune_expired and the final save_leases write.
V6Paths == {Reading, Reading \o Writing, Writing}

\* delete_dhcp_lease reads and writes, or stops at an unknown address;
\* add_dhcp_lease writes.
DbusPaths == {Reading, Reading \o Writing, Writing}

Paths(t) == CASE t = "v4" -> V4Paths [] t = "v6" -> V6Paths [] OTHER -> DbusPaths

-----------------------------------------------------------------------------
Waiting(t) == \E i \in DOMAIN queue : queue[i] = t

Has(t, mode) == \E i \in DOMAIN guards[t] : guards[t][i] = mode

Compatible(mode) ==
    \A t \in Task : ~Has(t, "write") /\ (mode = "write" => ~Has(t, "read"))

LockInit ==
    /\ script = [t \in Task |-> <<>>]
    /\ guards = [t \in Task |-> <<>>]
    /\ queue = <<>>

\* A message, a timer or a call starts a handler.
Start(t) ==
    /\ script[t] = <<>>
    /\ \E path \in Paths(t) : script' = [script EXCEPT ![t] = path]
    /\ UNCHANGED <<guards, queue>>

Take(t) ==
    /\ guards' = [guards EXCEPT ![t] = Append(@, Head(script[t]))]
    /\ script' = [script EXCEPT ![t] = Tail(@)]

Immediate_Barging(mode) == Compatible(mode)

Immediate(mode) == queue = <<>> /\ Compatible(mode)

Acquire(t) ==
    /\ script[t] # <<>> /\ Head(script[t]) \in Mode
    /\ ~Waiting(t)
    /\ Immediate(Head(script[t]))
    /\ Take(t)
    /\ UNCHANGED queue

Enqueue(t) ==
    /\ script[t] # <<>> /\ Head(script[t]) \in Mode
    /\ ~Waiting(t)
    /\ ~Immediate(Head(script[t]))
    /\ queue' = Append(queue, t)
    /\ UNCHANGED <<script, guards>>

Grant ==
    /\ queue # <<>>
    /\ Compatible(Head(script[Head(queue)]))
    /\ Take(Head(queue))
    /\ queue' = Tail(queue)

\* Guards are dropped in the reverse order.
DropGuard(t) ==
    /\ script[t] # <<>> /\ Head(script[t]) = "drop"
    /\ guards' = [guards EXCEPT ![t] = SubSeq(@, 1, Len(@) - 1)]
    /\ script' = [script EXCEPT ![t] = Tail(@)]
    /\ UNCHANGED queue

LockNext == Grant \/ \E t \in Task : Start(t) \/ Acquire(t) \/ Enqueue(t) \/ DropGuard(t)

\* The runtime polls every task that can go on, and tokio hands the lock over;
\* nothing forces a message to come.
LockFairness ==
    /\ WF_lock(Grant)
    /\ \A t \in Task : WF_lock(Acquire(t) \/ Enqueue(t) \/ DropGuard(t))

LockSpec == LockInit /\ [][LockNext]_lock /\ LockFairness

-----------------------------------------------------------------------------
(* Properties *)

\* While somebody waits, some task still runs or the first in the queue can be
\* served: the tasks never all wait on each other's guards.
NoDeadlock ==
    queue # <<>> =>
       \/ Compatible(Head(script[Head(queue)]))
       \/ \E t \in Task : guards[t] # <<>> /\ ~Waiting(t)

\* Every message, timer tick or call that starts to be handled is handled to
\* its end: no handler starves while others keep coming.
EveryHandlerEnds == \A t \in Task : script[t] # <<>> ~> script[t] = <<>>

=============================================================================
