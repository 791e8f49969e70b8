------------------------------ MODULE ArpCache ------------------------------
(***************************************************************************)
(* The neighbour cache of src/src/network/arp.rs: which MAC address has    *)
(* which IP address, as the kernel said when it was last asked, and the    *)
(* scripts that hear of devices that come and go.  A caller has the cache  *)
(* to itself for a call (&mut self), so a call is one step; the kernel's   *)
(* table changes at any time between calls.                                *)
(*                                                                         *)
(* The cache is a vector that is searched from the front, and a strict     *)
(* lookup that finds nothing appends another Empty record each time.       *)
(***************************************************************************)
EXTENDS Naturals, Sequences, FiniteSets, SequencesExt

CONSTANTS
    Ip, Mac,
    NoMac,          \* mac = None
    ArpScript,      \* config.scripts.enable_arp_script
    MaxNeighbours,  \* bound: pairs in the kernel's table
    MaxRecords      \* bound: length of the two vectors

ArpStatus == {"Mark", "Found", "New", "Empty"}

ASSUME ArpAssumption ==
    NoMac \notin Mac /\ ArpScript \in BOOLEAN /\ {MaxNeighbours, MaxRecords} \subseteq Nat

VARIABLES
    kernel,             \* the kernel's table: <<ip, mac>> pairs
    records,            \* ArpCache::entries
    pending_deletions,  \* records that went and were not announced yet
    fresh,              \* the last refresh is less than 90 seconds ago
    answer,             \* what the last find_mac returned, or <<>>
    shown,              \* history: what the kernel said at the last refresh
    told,               \* history: addresses the script believes are there
    dropped             \* history: addresses whose departure could not be queued

arp == <<kernel, records, pending_deletions, fresh, answer, shown, told, dropped>>

-----------------------------------------------------------------------------
ArpInit ==
    /\ kernel = {}
    /\ records = <<>>
    /\ pending_deletions = <<>>
    /\ fresh = FALSE
    /\ answer = <<>>
    /\ shown = {}
    /\ told = {}
    /\ dropped = {}

-----------------------------------------------------------------------------
(* update_from_kernel *)

Marked_FoundOnly(rs) ==
    [i \in DOMAIN rs |-> IF rs[i].status # "Found" THEN rs[i] ELSE [rs[i] EXCEPT !.status = "Mark"]]

\* Phase 1.
Marked(rs) ==
    [i \in DOMAIN rs |-> IF rs[i].status = "Empty" THEN rs[i] ELSE [rs[i] EXCEPT !.status = "Mark"]]

\* Phase 2, one pair of the kernel's table.  The search passes over records that
\* are New already and ends at the first other one of the address.
Confirmed(rs, pair) ==
    LET ip == pair[1]
        mac == pair[2]
        mine == {i \in DOMAIN rs : rs[i].ip = ip}
        old == {i \in mine : rs[i].status # "New"}
        known(i) == rs[i].status # "Empty" /\ rs[i].mac = mac
    IN  IF mine = {} THEN Append(rs, [ip |-> ip, mac |-> mac, status |-> "New"])
        ELSE [i \in DOMAIN rs |->
                 IF i \in old /\ (\A j \in old : i <= j)
                 THEN [ip |-> ip, mac |-> mac, status |-> IF known(i) THEN "Found" ELSE "New"]
                 ELSE rs[i]]

\* The kernel is read in some order.
Confirmation(order) ==
    LET confirmed[n \in 0..Len(order)] ==
           IF n = 0 THEN Marked(records) ELSE Confirmed(confirmed[n - 1], order[n])
    IN confirmed[Len(order)]

\* Phase 3: the records that are still marked, or the ones that are not.
Those(rs, marked) ==
    LET those[n \in 0..Len(rs)] ==
           IF n = 0 THEN <<>>
           ELSE IF (rs[n].status = "Mark") = marked THEN Append(those[n - 1], rs[n])
                                                     ELSE those[n - 1]
    IN those[Len(rs)]

\* What is still marked goes, and is to be announced.
Retained(rs) ==
    [records |-> Those(rs, FALSE), pending |-> pending_deletions \o Those(rs, TRUE)]

Refreshed == {Retained(Confirmation(order)) : order \in SetToSeqs(kernel)}

Refresh(result) ==
    /\ Len(result.pending) <= MaxRecords
    /\ pending_deletions' = result.pending
    /\ fresh' = TRUE
    /\ shown' = kernel
    /\ UNCHANGED <<kernel, told, dropped>>

\* The kernel cannot be read: `?' returns with the records already marked.
RefreshFails ==
    /\ records' = Marked(records)
    /\ answer' = <<>>
    /\ UNCHANGED <<kernel, pending_deletions, fresh, shown, told, dropped>>

update_from_kernel ==
    \/ RefreshFails
    \/ \E result \in Refreshed :
          Refresh(result) /\ records' = result.records /\ answer' = <<>>

-----------------------------------------------------------------------------
(* find_mac *)

\* The record that ends the search, if any: a strict search passes over Empty.
Hits(rs, ip, lazy) == {i \in DOMAIN rs : rs[i].ip = ip /\ (lazy \/ rs[i].status # "Empty")}

Search(rs, ip, lazy) ==
    \/ \E i \in Hits(rs, ip, lazy) :
          /\ \A j \in Hits(rs, ip, lazy) : i <= j
          /\ answer' = [ip |-> ip, mac |-> IF rs[i].status = "Empty" THEN NoMac ELSE rs[i].mac]
          /\ records' = rs
    \/ /\ Hits(rs, ip, lazy) = {}
       /\ Len(rs) < MaxRecords
       /\ answer' = [ip |-> ip, mac |-> NoMac]
       /\ records' = Append(rs, [ip |-> ip, mac |-> NoMac, status |-> "Empty"])

find_mac(ip, lazy) ==
    \/ /\ fresh
       /\ Search(records, ip, lazy)
       /\ UNCHANGED <<kernel, pending_deletions, fresh, shown, told, dropped>>
    \/ ~fresh /\ RefreshFails
    \/ /\ ~fresh
       /\ \E result \in Refreshed : Refresh(result) /\ Search(result.records, ip, lazy)

-----------------------------------------------------------------------------
(* notify_changes: one change per call, departures first and the last of them *)
(* first.  The helper may be gone: then a departure is lost, for it was taken *)
(* from the vector before, and an arrival stays New.                          *)

AnnounceDeparture(queued) ==
    /\ pending_deletions # <<>>
    /\ LET ip == Last(pending_deletions).ip
       IN  /\ pending_deletions' = Front(pending_deletions)
           /\ told' = IF ArpScript /\ queued THEN told \ {ip} ELSE told
           /\ dropped' = IF ArpScript /\ ~queued THEN dropped \cup {ip} ELSE dropped
    /\ answer' = <<>>
    /\ UNCHANGED <<kernel, records, fresh, shown>>

AnnounceArrival(queued) ==
    /\ pending_deletions = <<>>
    /\ \E i \in DOMAIN records :
          /\ records[i].status = "New"
          /\ \A j \in 1..(i - 1) : records[j].status # "New"
          /\ queued \/ ~ArpScript
          /\ records' = [records EXCEPT ![i].status = "Found"]
          /\ told' = IF ArpScript THEN told \cup {records[i].ip} ELSE told
          /\ dropped' = IF ArpScript THEN dropped \ {records[i].ip} ELSE dropped
    /\ answer' = <<>>
    /\ UNCHANGED <<kernel, pending_deletions, fresh, shown>>

notify_changes == \E queued \in BOOLEAN : AnnounceDeparture(queued) \/ AnnounceArrival(queued)

-----------------------------------------------------------------------------
\* The kernel learns or forgets a pair; one IP address may have two MAC
\* addresses, on two interfaces.
KernelLearns(pair) ==
    /\ kernel' = IF pair \in kernel THEN kernel \ {pair} ELSE kernel \cup {pair}
    /\ Cardinality(kernel') <= MaxNeighbours
    /\ answer' = <<>>
    /\ UNCHANGED <<records, pending_deletions, fresh, shown, told, dropped>>

\* 90 seconds pass.
GrowOld ==
    /\ fresh
    /\ fresh' = FALSE
    /\ answer' = <<>>
    /\ UNCHANGED <<kernel, records, pending_deletions, shown, told, dropped>>

ArpNext ==
    \/ \E ip \in Ip, lazy \in BOOLEAN : find_mac(ip, lazy)
    \/ update_from_kernel
    \/ notify_changes
    \/ \E pair \in Ip \X Mac : KernelLearns(pair)
    \/ GrowOld

ArpSpec == ArpInit /\ [][ArpNext]_arp

-----------------------------------------------------------------------------
(* Properties *)

\* find_mac says what the kernel said at the last refresh, whatever refreshes
\* failed since and however many Empty records strict lookups have left behind.
AnswersAreShown ==
    answer # <<>> =>
       IF answer.mac = NoMac THEN \A pair \in shown : pair[1] # answer.ip
       ELSE <<answer.ip, answer.mac>> \in shown

\* A device the script believes is there has a record, or its departure waits to
\* be announced, or could not be queued: a departure is never just forgotten.
DeparturesAreAnnounced ==
    \A ip \in told \ dropped :
       \/ \E i \in DOMAIN records : records[i].ip = ip /\ records[i].status # "Empty"
       \/ \E i \in DOMAIN pending_deletions : pending_deletions[i].ip = ip

\* Lookups and announcements of the neighbour cache are right, whatever refreshes
\* came or failed between them.
NeighboursAreRight == AnswersAreShown /\ DeparturesAreAnnounced

=============================================================================
