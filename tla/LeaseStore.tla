----------------------------- MODULE LeaseStore -----------------------------
(***************************************************************************)
(* What the lease manager of src/src/dhcp/lease/mod.rs leaves outside the  *)
(* process: the lease file (lease/database.rs) and the lease script        *)
(* (lease/script_hooks.rs), with crashes between any two steps of a save,  *)
(* and the names it gives to the DNS cache (lease/dns_integration.rs).     *)
(*                                                                         *)
(* The callers' guards on the lease manager (LeaseLock) let one operation  *)
(* run at a time: the DHCPv4 task releases under a read guard, everybody   *)
(* else saves under the write guard.  A script and a lease file are        *)
(* configured.  The clock counts parts of a second, the file whole ones.   *)
(***************************************************************************)
EXTENDS Naturals, Sequences

CONSTANTS
    Ip, Mac,
    HostOf,      \* the name each client sends: None, Empty or a name
    CidOf,       \* the client identifier each client sends, or None
    None,        \* "*" in the file
    Empty,       \* a name of which strip_hostname left nothing
    PerSecond,   \* how many ticks of the clock make a second
    LeaseTime,   \* in ticks
    MaxTime,     \* bound: the clock stops here
    MaxOps,      \* bound: allocations, renewals, declines and releases
    MaxCrashes   \* bound: crashes of one behaviour

ASSUME SecondAssumption == PerSecond \in Nat \ {0}

ASSUME TimeAssumption == LeaseTime \in Nat \ {0} /\ MaxTime \in Nat /\ MaxCrashes \in Nat /\ MaxOps \in Nat

Text == {HostOf[m] : m \in Mac} \cup {CidOf[m] : m \in Mac} \cup {None}

ASSUME ClientAssumption == Ip # {} /\ Empty # None /\ \A m \in Mac : CidOf[m] # Empty

Lease == [mac : Mac, host : Text, cid : Text, expires : Nat, declined : BOOLEAN]

Name == {HostOf[m] : m \in Mac} \ {None, Empty}

Event == {"add", "old", "del"}

Job == [op : {"allocate", "release", "save"}, ip : Ip, event : Event, rest : SUBSET Ip,
        phase : {"script", "wait", "open", "write", "exit"}, todo : SUBSET Ip, done : SUBSET Ip]

ASSUME NoneAssumption == None \notin Lease /\ None \notin Job /\ None \notin Event

VARIABLES
    now,
    up,        \* the process runs
    leases,    \* the lease table: address -> lease
    job,       \* what is left of the operation under way
    file,      \* the lease file: the set of its lines
    names,     \* DHCP names of the DNS cache: name -> address and end
    told,      \* the last event a script was started with, for each address
    unsaved,   \* addresses whose record may differ from the file
    untold,    \* addresses of which the script may have missed an event
    orphans,   \* names whose lease another client's record replaced
    before,    \* the lease table at the last crash
    ops, crashes

memory == <<leases, names, job>>
ghosts == <<unsaved, untold, orphans, before, ops, crashes>>
vars == <<now, up, memory, file, told, ghosts>>

-----------------------------------------------------------------------------
(* The lines of the lease file *)

Second_Up(t) == ((t + PerSecond - 1) \div PerSecond) * PerSecond

\* as_secs cuts the part of a second off.
Second(t) == (t \div PerSecond) * PerSecond

\* A field a reader finds that splits the line at white space: none if it is empty.
Field(text) == IF text = Empty THEN <<>> ELSE <<text>>

\* write_lease_entry: expiry, client, address, name, client identifier.  Flags are
\* not written.
Line(ip, lease) ==
    <<Second(lease.expires), lease.mac, ip>> \o Field(lease.host) \o Field(lease.cid)

\* parse_standard_lease: a missing fifth field is no client identifier.
Parsed(line) ==
    [mac |-> line[2], host |-> line[4], cid |-> IF Len(line) > 4 THEN line[5] ELSE None,
     expires |-> line[1], declined |-> FALSE]

Lines(table) == {Line(ip, table[ip]) : ip \in {i \in Ip : table[i] # None}}

\* "expires < now" is skipped; the clock has its parts of a second.
KeepsLine(line) == line[1] >= now

\* read_leases: one record for each line kept.
Restored ==
    [ip \in Ip |-> LET mine == {l \in file : l[3] = ip /\ KeepsLine(l)}
                   IN IF mine = {} THEN None ELSE Parsed(CHOOSE l \in mine : TRUE)]

-----------------------------------------------------------------------------
NoLeases == [ip \in Ip |-> None]

NoNames == [n \in Name |-> None]

Init ==
    /\ now = 0
    /\ up = TRUE
    /\ leases = NoLeases
    /\ job = None
    /\ file = {}
    /\ names = NoNames
    /\ told = [ip \in Ip |-> None]
    /\ unsaved = {} /\ untold = {} /\ orphans = {}
    /\ before = NoLeases
    /\ crashes = 0 /\ ops = 0

IsExpired(ip) == leases[ip] # None /\ now > leases[ip].expires

Idle == up /\ job = None

Begin == Idle /\ ops < MaxOps /\ ops' = ops + 1

-----------------------------------------------------------------------------
(* The operations *)

\* register_lease_hostname replaces the entry of the name; there is none for an
\* empty name.
Register(m, ip) ==
    names' = [n \in Name |-> IF n = HostOf[m] THEN [ip |-> ip, until |-> now + LeaseTime]
                             ELSE names[n]]

\* unregister_lease_hostname removes the entry of the name, whatever its address.
Unregister_Keeps(lease) == UNCHANGED names

Unregister(lease) ==
    names' = [n \in Name |-> IF n = lease.host THEN None ELSE names[n]]

NamesAt(ip) == IF leases[ip] = None THEN {} ELSE {leases[ip].host} \cap Name

Action_AfterInsert(ip) == "old"

\* LeaseAction: whether a record was there before.
Action(ip) == IF leases[ip] = None THEN "add" ELSE "old"

\* allocate_lease: the record, its name, then the script; nothing is saved.  The
\* name of a record that is replaced stays.
Allocate(m, ip) ==
    /\ Begin
    /\ leases' = [leases EXCEPT ![ip] = [mac |-> m, host |-> HostOf[m], cid |-> CidOf[m],
                                         expires |-> now + LeaseTime, declined |-> FALSE]]
    /\ Register(m, ip)
    /\ orphans' = (orphans \cup NamesAt(ip)) \ {HostOf[m]}
    /\ job' = [op |-> "allocate", ip |-> ip, rest |-> {}, phase |-> "script", todo |-> {}, done |-> {},
               event |-> Action(ip)]
    /\ unsaved' = unsaved \cup {ip}
    /\ UNCHANGED <<now, up, file, told, untold, before, crashes>>

\* renew_lease and mark_lease_declined: no name, no script, no save.
Change(ip, lease) ==
    /\ Begin
    /\ leases[ip] # None
    /\ leases' = [leases EXCEPT ![ip] = lease]
    /\ unsaved' = unsaved \cup {ip}
    /\ UNCHANGED <<now, up, names, job, file, told, untold, orphans, before, crashes>>

Renew(ip) == Change(ip, [leases[ip] EXCEPT !.expires = now + LeaseTime])

MarkDeclined(ip) == Change(ip, [leases[ip] EXCEPT !.declined = TRUE])

\* release_lease removes the record; the script and a save of the whole table
\* follow, then the rest of the leases that prune_expired found.
TakeOut(ip, rest) ==
    /\ leases' = [leases EXCEPT ![ip] = None]
    /\ Unregister(leases[ip])
    /\ job' = [op |-> "release", ip |-> ip, rest |-> rest, phase |-> "script", todo |-> {}, done |-> {},
               event |-> "del"]

Release(ip) ==
    /\ Begin
    /\ leases[ip] # None
    /\ TakeOut(ip, {})
    /\ unsaved' = unsaved \cup {ip}
    /\ UNCHANGED <<now, up, file, told, untold, orphans, before, crashes>>

Prune ==
    /\ Idle
    /\ LET expired == {ip \in Ip : IsExpired(ip)}
       IN \E ip \in expired :
             /\ TakeOut(ip, expired \ {ip})
             /\ unsaved' = unsaved \cup {ip}
    /\ UNCHANGED <<now, up, file, told, untold, orphans, before, ops, crashes>>

\* The DHCPv6 task saves the table when it hears of the shutdown; the process
\* ends after that, and this counts as its crash.
SaveAtShutdown ==
    /\ Idle /\ crashes < MaxCrashes
    /\ job' = [op |-> "save", ip |-> CHOOSE ip \in Ip : TRUE, rest |-> {}, phase |-> "open",
               todo |-> {}, done |-> {}, event |-> "old"]
    /\ UNCHANGED <<now, up, leases, names, file, told, ghosts>>

-----------------------------------------------------------------------------
(* execute_lease_script *)

\* The operation is over, or the next expired lease is released.
Continue(rest) ==
    \/ /\ rest = {}
       /\ job' = IF job.op = "save" THEN [job EXCEPT !.phase = "exit"] ELSE None
       /\ UNCHANGED <<leases, names>>
    \/ \E ip \in rest : TakeOut(ip, rest \ {ip})

AfterScript ==
    IF job.op = "allocate" THEN Continue({})
    ELSE job' = [job EXCEPT !.phase = "open"] /\ UNCHANGED <<leases, names>>

\* The script is started.
StartScript ==
    /\ job # None /\ job.phase = "script"
    /\ told' = [told EXCEPT ![job.ip] = job.event]
    /\ untold' = untold \ {job.ip}
    /\ job' = [job EXCEPT !.phase = "wait"]
    /\ UNCHANGED <<now, up, leases, names, file, unsaved, orphans, before, ops, crashes>>

\* It is missing or cannot be started: the error is logged.
ScriptFails ==
    /\ job # None /\ job.phase = "script"
    /\ AfterScript
    /\ untold' = untold \cup {job.ip}
    /\ UNCHANGED <<now, up, file, told, unsaved, orphans, before, ops, crashes>>

ScriptEnds_NoTimer ==
    /\ job # None /\ job.phase = "wait" /\ job.event # "del"
    /\ AfterScript
    /\ UNCHANGED <<now, up, file, told, ghosts>>

\* It ends, fails, or is left to itself after DEFAULT_SCRIPT_TIMEOUT_SECS.
ScriptEnds ==
    /\ job # None /\ job.phase = "wait"
    /\ AfterScript
    /\ UNCHANGED <<now, up, file, told, ghosts>>

-----------------------------------------------------------------------------
(* save_leases and write_leases *)

\* The table is listed and the temporary file created, or truncated if an earlier
\* save left one; nothing reads one that is left.
OpenTmp ==
    /\ job # None /\ job.phase = "open"
    /\ job' = [job EXCEPT !.phase = "write", !.todo = {ip \in Ip : leases[ip] # None}]
    /\ UNCHANGED <<now, up, leases, names, file, told, ghosts>>

\* The entries come in the order of the map.
WriteEntry ==
    /\ job # None /\ job.phase = "write"
    /\ \E ip \in job.todo :
          job' = [job EXCEPT !.todo = @ \ {ip}, !.done = @ \cup {ip}]
    /\ UNCHANGED <<now, up, leases, names, file, told, ghosts>>

\* Once the entries are flushed and synced, one rename replaces the file.
Written_Any == job # None /\ job.phase = "write"

Written == job # None /\ job.phase = "write" /\ job.todo = {}

RenameTmp ==
    /\ Written
    /\ file' = {Line(ip, leases[ip]) : ip \in job.done}
    /\ Continue(job.rest)
    /\ unsaved' = {ip \in job.rest : leases'[ip] = None}
    /\ UNCHANGED <<now, up, told, untold, orphans, before, ops, crashes>>

\* Opening, writing, flushing, syncing or renaming fails: release_lease logs it
\* and the temporary file stays.
SaveFails ==
    /\ job # None /\ job.phase \in {"open", "write"}
    /\ Continue(job.rest)
    /\ unsaved' = unsaved \cup {ip \in job.rest : leases'[ip] = None}
    /\ UNCHANGED <<now, up, file, told, untold, orphans, before, ops, crashes>>

-----------------------------------------------------------------------------
(* Crashes and restarts *)

\* The process is killed, at any point of an operation, or has come to its end.
Crash ==
    /\ up /\ crashes < MaxCrashes
    /\ up' = FALSE
    /\ before' = leases
    /\ leases' = NoLeases /\ names' = NoNames
    /\ job' = None
    /\ crashes' = crashes + 1
    /\ untold' = untold \cup (IF job = None \/ job.op = "save" THEN {} ELSE {job.ip} \cup job.rest)
    /\ orphans' = {}
    /\ UNCHANGED <<now, file, told, unsaved, ops>>

Differs(table) == {ip \in Ip : {l \in file : l[3] = ip} # {l \in Lines(table) : l[3] = ip}}

\* A start with load_leases, as the integration tests do it, or without, as
\* EventLoop::new does it.
StartWith(table) ==
    /\ ~up
    /\ up' = TRUE
    /\ leases' = table
    /\ unsaved' = Differs(table)
    /\ before' = NoLeases
    /\ untold' = {ip \in Ip : ip \in untold \/ (before[ip] = None) # (table[ip] = None)}
    /\ UNCHANGED <<now, names, job, file, told, orphans, ops, crashes>>

StartLoading == StartWith(Restored)

StartEmpty == StartWith(NoLeases)

Tick ==
    /\ now < MaxTime
    /\ now' = now + 1
    /\ UNCHANGED <<up, memory, file, told, ghosts>>

Exit == job # None /\ job.phase = "exit" /\ Crash

Step == StartScript \/ ScriptFails \/ ScriptEnds \/ OpenTmp \/ WriteEntry \/ RenameTmp \/ SaveFails
           \/ Exit

Next ==
    \/ \E ip \in Ip : \/ \E m \in Mac : Allocate(m, ip)
                      \/ Renew(ip) \/ MarkDeclined(ip) \/ Release(ip)
    \/ Prune \/ SaveAtShutdown \/ Step
    \/ Crash \/ StartLoading \/ StartEmpty
    \/ Tick

\* The runtime goes on with an operation it has begun: the script ends or its
\* timer does, and the file system answers or fails.
Spec == Init /\ [][Next]_vars /\ WF_vars(Step)

-----------------------------------------------------------------------------
(* Properties *)

\* Every variable keeps its type, and a process that is down does nothing.
TypeOK ==
    /\ now \in 0..MaxTime
    /\ up \in BOOLEAN
    /\ leases \in [Ip -> Lease \cup {None}]
    /\ job \in Job \cup {None}
    /\ told \in [Ip -> Event \cup {None}]
    /\ unsaved \subseteq Ip /\ untold \subseteq Ip
    /\ before \in [Ip -> Lease \cup {None}]
    /\ crashes \in 0..MaxCrashes
    /\ ~up => job = None /\ leases = NoLeases

\* The lease file is at every moment a complete table: for an address whose
\* record has not changed since the last save it has exactly its line, whichever
\* step of a later save failed or was cut off by a crash.
FileIsWhole ==
    up => \A ip \in Ip \ unsaved : {l \in file : l[3] = ip} = {l \in Lines(leases) : l[3] = ip}

\* The store is well formed and its file a complete table.
StoreIsSound == TypeOK /\ FileIsWhole

\* What a restart at the present time may make of a saved lease: none if it has
\* less than a second to run, else the lease of the same client, not run out, not
\* longer, and less than a second shorter.
MayReturn(was, is) ==
    IF is = None THEN was = None \/ was.expires < now + PerSecond
    ELSE /\ was # None
         /\ is.mac = was.mac
         /\ now <= is.expires
         /\ is.expires <= was.expires /\ was.expires < is.expires + PerSecond

\* A restart that loads the file (read_leases) gives every saved lease back to its
\* client, less than a second shorter, unless it ends within a second; it brings
\* back no lease that ran out, or was removed and saved.
RestartKeepsSaved ==
    [][StartLoading => \A ip \in Ip \ unsaved : MayReturn(before[ip], leases'[ip])]_vars

\* The script has been told of the lease table: of every lease that is there its
\* last event is an addition or an update, of every other address a deletion or
\* nothing; and the events of an address alternate, "add" comes first or after a
\* deletion, "old" and "del" only for a lease the script has heard of.  This is
\* so except where a script did not start, a crash came between, or a restart
\* dropped the lease.
ScriptSeesTheTable ==
    /\ Idle => \A ip \in Ip \ untold :
                  told[ip] \in (IF leases[ip] = None THEN {None, "del"} ELSE {"add", "old"})
    /\ job # None /\ job.phase = "script" /\ job.ip \notin untold =>
          told[job.ip] \in (IF job.event = "add" THEN {None, "del"} ELSE {"add", "old"})

\* A name the DNS cache still answers for is the name of the lease its address
\* has, unless another client took that address over without a release.
NamesFollowLeases ==
    \A n \in Name \ orphans :
        names[n] # None /\ now <= names[n].until =>
            leases[names[n].ip] # None /\ leases[names[n].ip].host = n

\* Every operation ends, also when the script hangs or the disk is full.
EveryOperationEnds == job # None ~> job = None

=============================================================================
