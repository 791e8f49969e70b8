--------------------------- MODULE LeaseStoreProofs ---------------------------
(***************************************************************************)
(* Proofs about LeaseStore, for any addresses, clients, lease times and    *)
(* crashes: the lease file is a complete table, a restart gives saved      *)
(* leases back, the script hears of the table, and the names follow the    *)
(* leases.  The four arguments share one invariant of the operation under  *)
(* way (StoreInv): the table stands still from its start to its end, but   *)
(* for the leases it takes out itself.                                     *)
(***************************************************************************)
EXTENDS LeaseStore, TLAPS

Record == {lease \in Lease : lease.cid # Empty}

Table == [Ip -> Record \cup {None}]

Has(table) == {ip \in Ip : table[ip] # None}

\* What the operation under way still has to do, and what it has done.
JobFollowsTable ==
    job # None =>
       /\ job.rest \subseteq Has(leases)
       /\ job.op # "release" => job.rest = {}
       /\ job.phase \in {"script", "wait"} =>
             /\ job.op # "save"
             /\ job.event = "del" <=> leases[job.ip] = None
             /\ job.event = "del" <=> job.op = "release"
       /\ job.op = "release" => leases[job.ip] = None
       /\ job.op = "allocate" => job.phase \in {"script", "wait"}
       /\ job.phase \in {"script", "wait", "open"} => job.done = {}
       /\ job.phase = "write" => job.todo \cup job.done = Has(leases)

StoreInv ==
    /\ TypeOK
    /\ leases \in Table /\ before \in Table
    /\ file \subseteq {Line(ip, lease) : ip \in Ip, lease \in Record}
    /\ ~up => names = NoNames
    /\ JobFollowsTable

\* The lines of an address.
Of(lines, ip) == {l \in lines : l[3] = ip}

\* The file matches the table, while the process runs, or the table it had.
FileInv ==
    \A ip \in Ip \ unsaved : Of(file, ip) = Of(Lines(IF up THEN leases ELSE before), ip)

Heard(there) == IF there THEN {"add", "old"} ELSE {None, "del"}

\* The script has heard of the table, or is about to hear what makes it so.
ScriptInv ==
    \A ip \in Ip \ untold :
        told[ip] \in IF job # None /\ job.phase = "script" /\ job.ip = ip
                     THEN Heard(job.event # "add")
                     ELSE Heard((IF up THEN leases ELSE before)[ip] # None)

NamesInv ==
    \A n \in Name \ orphans :
        names[n] # None =>
           names[n].ip \in Ip /\ leases[names[n].ip] # None /\ leases[names[n].ip].host = n

-----------------------------------------------------------------------------
(* Lines and tables *)

LEMMA RecordIs ==
    ASSUME NEW lease \in Record
    PROVE  /\ lease # None /\ lease.cid # Empty /\ lease.mac \in Mac /\ lease.expires \in Nat
           /\ lease.host \in Text /\ lease.cid \in Text /\ lease.declined \in BOOLEAN
           /\ lease \in Lease
  BY NoneAssumption DEF Record, Lease

LEMMA TableIs ==
    ASSUME NEW table \in Table, NEW ip \in Ip, table[ip] # None
    PROVE  table[ip] \in Record
  BY DEF Table

LEMMA SecondIs ==
    ASSUME NEW t \in Nat
    PROVE  Second(t) \in Nat /\ Second(t) <= t /\ t < Second(t) + PerSecond
<1>1. PerSecond \in Nat \ {0}
  BY SecondAssumption
<1>2. PICK q \in Nat : t \div PerSecond = q
  BY <1>1
<1>3. q * PerSecond \in Nat /\ q * PerSecond <= t /\ t < q * PerSecond + PerSecond
  BY <1>1, <1>2
<1> QED
  BY <1>2, <1>3 DEF Second

LEMMA FourFields ==
    ASSUME NEW a, NEW b, NEW c, NEW d
    PROVE  LET line == <<a, b, c>> \o <<>> \o <<d>>
           IN Len(line) = 4 /\ line[1] = a /\ line[2] = b /\ line[3] = c /\ line[4] = d
  OBVIOUS

LEMMA FiveFields ==
    ASSUME NEW a, NEW b, NEW c, NEW d, NEW e
    PROVE  LET line == <<a, b, c>> \o <<d>> \o <<e>>
           IN Len(line) = 5 /\ line[1] = a /\ line[2] = b /\ line[3] = c /\ line[4] = d
                 /\ line[5] = e
  OBVIOUS

\* What a reader finds in a line of the file.
LEMMA LineIs ==
    ASSUME NEW ip \in Ip, NEW lease \in Record
    PROVE  /\ Line(ip, lease)[1] = Second(lease.expires)
           /\ Line(ip, lease)[2] = lease.mac
           /\ Line(ip, lease)[3] = ip
           /\ Line(ip, lease)[4] \in Text
           /\ Len(Line(ip, lease)) > 4 => Line(ip, lease)[5] \in Text /\ Line(ip, lease)[5] # Empty
<1> DEFINE expiry == Second(lease.expires)
<1>1. CASE lease.host = Empty
  <2>1. Line(ip, lease) = <<expiry, lease.mac, ip>> \o <<>> \o <<lease.cid>>
    BY <1>1, RecordIs DEF Line, Field
  <2> QED
    BY <2>1, RecordIs, FourFields
<1>2. CASE lease.host # Empty
  <2>1. Line(ip, lease) = <<expiry, lease.mac, ip>> \o <<lease.host>> \o <<lease.cid>>
    BY <1>2, RecordIs DEF Line, Field
  <2> QED
    BY <2>1, RecordIs, FiveFields
<1> QED
  BY <1>1, <1>2

LEMMA NoneIsText == None \in Text /\ None # Empty
  BY ClientAssumption DEF Text

\* The record a line gives back.
LEMMA ParsedIs ==
    ASSUME NEW ip \in Ip, NEW lease \in Record
    PROVE  /\ Parsed(Line(ip, lease)) \in Record
           /\ Parsed(Line(ip, lease)).mac = lease.mac
           /\ Parsed(Line(ip, lease)).expires = Second(lease.expires)
<1> DEFINE line == Line(ip, lease)
<1>1. Second(lease.expires) \in Nat /\ lease.mac \in Mac
  BY RecordIs, SecondIs
<1>2. line[1] = Second(lease.expires) /\ line[2] = lease.mac /\ line[4] \in Text
  BY LineIs
<1>3. (IF Len(line) > 4 THEN line[5] ELSE None) \in Text \ {Empty}
  BY LineIs, NoneIsText
<1> HIDE DEF line
<1> QED
  BY <1>1, <1>2, <1>3 DEF Parsed, Record, Lease, line

\* The file of a table has one line for each of its leases.
LEMMA LinesOf ==
    ASSUME NEW table \in Table, NEW ip \in Ip
    PROVE  Of(Lines(table), ip) = IF table[ip] = None THEN {} ELSE {Line(ip, table[ip])}
<1>1. \A i \in Ip : table[i] # None => Line(i, table[i])[3] = i
  BY TableIs, LineIs
<1> QED
  BY <1>1 DEF Of, Lines

LEMMA SameLines ==
    ASSUME NEW one \in Table, NEW two \in Table, NEW ip \in Ip, one[ip] = two[ip]
    PROVE  Of(Lines(one), ip) = Of(Lines(two), ip)
  BY LinesOf

\* Every line kept makes a record, and an address without one has none.
LEMMA RestoredIs ==
    ASSUME file \subseteq {Line(ip, lease) : ip \in Ip, lease \in Record}
    PROVE  Restored \in Table
<1>1. ASSUME NEW l \in file
      PROVE  Parsed(l) \in Record
  BY ParsedIs
<1> QED
  BY <1>1 DEF Restored, Table

LEMMA NoLeasesIs == NoLeases \in Table /\ NoLeases \in [Ip -> Lease \cup {None}]
  BY DEF NoLeases, Table

LEMMA TableIsTyped ==
    ASSUME NEW table \in Table
    PROVE  table \in [Ip -> Lease \cup {None}]
  BY DEF Table, Record

-----------------------------------------------------------------------------
(* The operation under way *)

LEMMA StoreInit == Init => StoreInv
  BY NoLeasesIs, TimeAssumption, ClientAssumption DEF Init, StoreInv, TypeOK, JobFollowsTable

\* What an allocation puts into the table.
LEMMA NewRecord ==
    ASSUME NEW m \in Mac, now \in Nat
    PROVE  [mac |-> m, host |-> HostOf[m], cid |-> CidOf[m],
            expires |-> now + LeaseTime, declined |-> FALSE] \in Record
  BY TimeAssumption, ClientAssumption DEF Record, Lease, Text

LEMMA JobIs ==
    ASSUME NEW x \in Job
    PROVE  /\ x # None
           /\ x.op \in {"allocate", "release", "save"} /\ x.ip \in Ip /\ x.event \in Event
           /\ x.rest \in SUBSET Ip /\ x.todo \in SUBSET Ip /\ x.done \in SUBSET Ip
           /\ x.phase \in {"script", "wait", "open", "write", "exit"}
  BY NoneAssumption DEF Job

LEMMA AllocateKeeps ==
    ASSUME StoreInv, NEW m \in Mac, NEW ip \in Ip, Allocate(m, ip)
    PROVE  StoreInv'
<1> DEFINE new == [mac |-> m, host |-> HostOf[m], cid |-> CidOf[m],
                   expires |-> now + LeaseTime, declined |-> FALSE]
<1>1. new \in Record /\ new # None /\ new \in Lease
  BY NewRecord, RecordIs DEF StoreInv, TypeOK
<1>2. leases' = [leases EXCEPT ![ip] = new]
  BY DEF Allocate
<1> HIDE DEF new
<1>3. leases' \in Table /\ leases' \in [Ip -> Lease \cup {None}] /\ leases'[ip] # None
  BY <1>1, <1>2, TableIsTyped DEF StoreInv, Table
<1>4. job' \in Job /\ job'.op = "allocate" /\ job'.ip = ip /\ job'.rest = {} /\ job'.phase = "script"
        /\ job'.todo = {} /\ job'.done = {} /\ job'.event # "del"
  BY DEF Allocate, Job, Action, Event
<1>5. UNCHANGED <<now, up, file, told, untold, before, crashes>> /\ up /\ unsaved' = unsaved \cup {ip}
  BY DEF Allocate, Begin, Idle
<1>6. TypeOK'
  BY <1>3, <1>4, <1>5 DEF StoreInv, TypeOK
<1>7. JobFollowsTable'
  BY <1>3, <1>4 DEF JobFollowsTable
<1> QED
  BY <1>3, <1>5, <1>6, <1>7 DEF StoreInv

LEMMA ChangeKeeps ==
    ASSUME StoreInv, NEW ip \in Ip, NEW lease \in Record, Change(ip, lease)
    PROVE  StoreInv'
<1>1. leases' \in Table
  BY DEF Change, StoreInv, Table
<1>2. job' = None /\ up /\ UNCHANGED <<now, up, names, file, told, untold, before, crashes>>
  BY DEF Change, Begin, Idle
<1> QED
  BY <1>1, <1>2, TableIsTyped DEF Change, StoreInv, TypeOK, JobFollowsTable

\* A renewed or declined record is a record.
LEMMA ChangedIs ==
    ASSUME StoreInv, NEW ip \in Ip, leases[ip] # None
    PROVE  /\ [leases[ip] EXCEPT !.expires = now + LeaseTime] \in Record
           /\ [leases[ip] EXCEPT !.declined = TRUE] \in Record
<1>1. leases[ip] \in Record /\ now + LeaseTime \in Nat
  BY TableIs, TimeAssumption DEF StoreInv, TypeOK
<1> QED
  BY <1>1 DEF Record, Lease

\* Taking a lease out of the table begins its release, for whatever is left of
\* the leases that are to go.
LEMMA TakeOutIs ==
    ASSUME StoreInv, NEW ip \in Ip, NEW rest \in SUBSET Has(leases), ip \notin rest,
           leases[ip] # None, TakeOut(ip, rest)
    PROVE  /\ leases' \in Table /\ leases' \in [Ip -> Lease \cup {None}]
           /\ leases'[ip] = None /\ \A i \in Ip \ {ip} : leases'[i] = leases[i]
           /\ job' \in Job /\ JobFollowsTable'
           /\ job'.ip = ip /\ job'.phase = "script" /\ job'.event = "del" /\ job'.rest = rest
<1>1. leases' \in Table /\ leases'[ip] = None /\ \A i \in Ip \ {ip} : leases'[i] = leases[i]
  BY DEF TakeOut, StoreInv, Table
<1>2. job' \in Job /\ job' = [op |-> "release", ip |-> ip, rest |-> rest, phase |-> "script",
                             todo |-> {}, done |-> {}, event |-> "del"]
  BY DEF TakeOut, Job, Event, Has
<1>3. rest \subseteq Has(leases')
  BY <1>1 DEF Has
<1> QED
  BY <1>1, <1>2, <1>3, TableIsTyped DEF JobFollowsTable

LEMMA ReleaseKeeps ==
    ASSUME StoreInv, NEW ip \in Ip, Release(ip)
    PROVE  StoreInv'
<1>1. TakeOut(ip, {}) /\ leases[ip] # None /\ up
        /\ UNCHANGED <<now, up, file, told, untold, before, crashes>> /\ unsaved' = unsaved \cup {ip}
  BY DEF Release, Begin, Idle
<1>2. /\ leases' \in Table /\ leases' \in [Ip -> Lease \cup {None}]
      /\ job' \in Job /\ JobFollowsTable'
  BY <1>1, TakeOutIs
<1> QED
  BY <1>1, <1>2 DEF StoreInv, TypeOK

LEMMA PruneIs ==
    ASSUME StoreInv, Prune
    PROVE  \E ip \in Ip : /\ leases[ip] # None
                          /\ \E rest \in SUBSET Has(leases) : ip \notin rest /\ TakeOut(ip, rest)
                          /\ unsaved' = unsaved \cup {ip}
<1> DEFINE expired == {i \in Ip : IsExpired(i)}
<1>1. PICK ip \in expired : TakeOut(ip, expired \ {ip}) /\ unsaved' = unsaved \cup {ip}
  BY DEF Prune
<1>2. expired \subseteq Has(leases)
  BY DEF IsExpired, Has
<1>3. expired \ {ip} \in SUBSET Has(leases) /\ ip \notin expired \ {ip} /\ leases[ip] # None /\ ip \in Ip
  BY <1>2 DEF Has
<1> HIDE DEF expired
<1> QED
  BY <1>1, <1>3

LEMMA PruneKeeps ==
    ASSUME StoreInv, Prune
    PROVE  StoreInv'
<1>1. PICK ip \in Ip : /\ leases[ip] # None
                       /\ \E rest \in SUBSET Has(leases) : ip \notin rest /\ TakeOut(ip, rest)
                       /\ unsaved' = unsaved \cup {ip}
  BY PruneIs
<1>2. /\ leases' \in Table /\ leases' \in [Ip -> Lease \cup {None}]
      /\ job' \in Job /\ JobFollowsTable'
  BY <1>1, TakeOutIs
<1>3. UNCHANGED <<now, up, file, told, untold, before, crashes>> /\ up
  BY DEF Prune, Idle
<1> QED
  BY <1>1, <1>2, <1>3 DEF StoreInv, TypeOK

LEMMA SaveAtShutdownKeeps ==
    ASSUME StoreInv, SaveAtShutdown
    PROVE  StoreInv'
<1>1. (CHOOSE ip \in Ip : TRUE) \in Ip
  BY ClientAssumption
<1>2. job' \in Job /\ job'.op = "save" /\ job'.rest = {} /\ job'.phase = "open" /\ job'.done = {}
  BY <1>1 DEF SaveAtShutdown, Job, Event
<1>3. UNCHANGED <<now, up, leases, names, file, told, unsaved, untold, before, crashes>> /\ up
  BY DEF SaveAtShutdown, ghosts, Idle
<1>4. JobFollowsTable'
  BY <1>2 DEF JobFollowsTable
<1> QED
  BY <1>2, <1>3, <1>4 DEF StoreInv, TypeOK

\* What is left after a script or a save: nothing, or the release of the next of
\* the expired leases.
LEMMA ContinueIs ==
    ASSUME StoreInv, job # None, NEW rest \in SUBSET Has(leases), job.op # "release" => rest = {},
           Continue(rest)
    PROVE  /\ leases' \in Table /\ leases' \in [Ip -> Lease \cup {None}]
           /\ job' \in Job \cup {None} /\ JobFollowsTable'
           /\ \/ UNCHANGED <<leases, names>> /\ rest = {}
                   /\ (job' = None \/ (job'.phase = "exit" /\ job'.ip = job.ip))
              \/ \E ip \in rest :
                    /\ TakeOut(ip, rest \ {ip})
                    /\ job' # None /\ job'.ip = ip /\ job'.phase = "script" /\ job'.event = "del"
                    /\ leases[ip] # None /\ leases'[ip] = None
                    /\ \A i \in Ip \ {ip} : leases'[i] = leases[i]
<1>1. job \in Job
  BY DEF StoreInv, TypeOK
<1>2. CASE rest = {} /\ job' = (IF job.op = "save" THEN [job EXCEPT !.phase = "exit"] ELSE None)
             /\ UNCHANGED <<leases, names>>
  <2>1. CASE job.op = "save"
    <3>1. job' \in Job /\ job'.op = "save" /\ job'.phase = "exit" /\ job'.rest = job.rest
            /\ job'.ip = job.ip
      BY <1>1, <1>2, <2>1 DEF Job
    <3>2. JobFollowsTable'
      BY <1>2, <2>1, <3>1 DEF JobFollowsTable, StoreInv
    <3> QED
      BY <1>2, <3>1, <3>2 DEF StoreInv, TypeOK
  <2>2. CASE job.op # "save"
    <3>1. job' = None /\ UNCHANGED <<leases, names>>
      BY <1>2, <2>2
    <3>2. JobFollowsTable'
      BY <3>1 DEF JobFollowsTable
    <3>3. leases' \in Table /\ leases' \in [Ip -> Lease \cup {None}]
      BY <3>1 DEF StoreInv, TypeOK
    <3> QED
      BY <1>2, <3>1, <3>2, <3>3
  <2> QED
    BY <2>1, <2>2
<1>3. ASSUME NEW ip \in rest, TakeOut(ip, rest \ {ip})
      PROVE  /\ leases' \in Table /\ leases' \in [Ip -> Lease \cup {None}]
             /\ job' \in Job /\ JobFollowsTable'
             /\ job' # None /\ job'.ip = ip /\ job'.phase = "script" /\ job'.event = "del"
             /\ leases[ip] # None /\ leases'[ip] = None
             /\ \A i \in Ip \ {ip} : leases'[i] = leases[i]
  <2>1. ip \in Ip /\ leases[ip] # None /\ rest \ {ip} \in SUBSET Has(leases) /\ ip \notin rest \ {ip}
    BY DEF Has
  <2> QED
    BY <1>3, <2>1, TakeOutIs, JobIs
<1> QED
  BY <1>2, <1>3 DEF Continue

\* A script that was not started, or has ended: the next step of the operation.
LEMMA AfterScriptIs ==
    ASSUME StoreInv, job # None, job.phase \in {"script", "wait"}, AfterScript
    PROVE  /\ UNCHANGED <<leases, names>>
           /\ job' \in Job \cup {None} /\ JobFollowsTable'
           /\ job' = None \/ job' = [job EXCEPT !.phase = "open"]
<1>1. job \in Job /\ job.op # "save"
  BY DEF StoreInv, TypeOK, JobFollowsTable
<1>2. CASE job.op = "allocate"
  <2>1. job' = None /\ UNCHANGED <<leases, names>>
    BY <1>1, <1>2 DEF AfterScript, Continue
  <2> QED
    BY <2>1 DEF JobFollowsTable
<1>3. CASE job.op # "allocate"
  <2>1. job' = [job EXCEPT !.phase = "open"] /\ UNCHANGED <<leases, names>>
    BY <1>3 DEF AfterScript
  <2>2. job' \in Job /\ job'.op = job.op /\ job'.ip = job.ip /\ job'.rest = job.rest
          /\ job'.done = job.done /\ job'.phase = "open"
    BY <1>1, <2>1 DEF Job
  <2>3. JobFollowsTable'
    BY <1>3, <2>1, <2>2 DEF JobFollowsTable, StoreInv
  <2> QED
    BY <2>1, <2>2, <2>3
<1> QED
  BY <1>2, <1>3

LEMMA StartScriptIs ==
    ASSUME StoreInv, StartScript
    PROVE  /\ job \in Job /\ job' \in Job /\ JobFollowsTable'
           /\ job'.phase = "wait" /\ job'.ip = job.ip
           /\ told' = [told EXCEPT ![job.ip] = job.event]
<1>1. job \in Job /\ job.phase = "script" /\ job' = [job EXCEPT !.phase = "wait"] /\ leases' = leases
  BY DEF StoreInv, TypeOK, StartScript
<1>2. job' \in Job /\ job'.op = job.op /\ job'.ip = job.ip /\ job'.rest = job.rest
        /\ job'.event = job.event /\ job'.done = job.done /\ job'.phase = "wait"
  BY <1>1 DEF Job
<1>3. JobFollowsTable'
  BY <1>1, <1>2, JobIs DEF JobFollowsTable, StoreInv
<1> QED
  BY <1>1, <1>2, <1>3 DEF StartScript

LEMMA ScriptKeeps ==
    ASSUME StoreInv, StartScript \/ ScriptFails \/ ScriptEnds
    PROVE  StoreInv'
<1>1. job \in Job /\ up
  BY DEF StoreInv, TypeOK, StartScript, ScriptFails, ScriptEnds
<1>2. CASE StartScript
  <2>1. job' \in Job /\ JobFollowsTable' /\ told' = [told EXCEPT ![job.ip] = job.event]
    BY <1>2, StartScriptIs
  <2>2. UNCHANGED <<now, up, leases, names, file, unsaved, before, crashes>> /\ untold' = untold \ {job.ip}
    BY <1>2 DEF StartScript
  <2>3. told' \in [Ip -> Event \cup {None}]
    BY <1>1, <2>1, JobIs DEF StoreInv, TypeOK
  <2> QED
    BY <1>1, <2>1, <2>2, <2>3 DEF StoreInv, TypeOK
<1>3. CASE ScriptFails \/ ScriptEnds
  <2>1. UNCHANGED <<leases, names>> /\ job' \in Job \cup {None} /\ JobFollowsTable'
    BY <1>3, AfterScriptIs DEF ScriptFails, ScriptEnds
  <2>2. UNCHANGED <<now, up, file, told, unsaved, before, crashes>> /\ untold' \subseteq untold \cup {job.ip}
    BY <1>3 DEF ScriptFails, ScriptEnds, ghosts
  <2> QED
    BY <1>1, <2>1, <2>2, JobIs DEF StoreInv, TypeOK
<1> QED
  BY <1>2, <1>3

LEMMA OpenTmpKeeps ==
    ASSUME StoreInv, OpenTmp
    PROVE  StoreInv'
<1>1. job \in Job /\ job.phase = "open" /\ up
        /\ job' = [job EXCEPT !.phase = "write", !.todo = {ip \in Ip : leases[ip] # None}]
        /\ UNCHANGED <<now, up, leases, names, file, told, unsaved, untold, before, crashes>>
  BY DEF StoreInv, TypeOK, OpenTmp, ghosts
<1>2. job' \in Job /\ job'.op = job.op /\ job'.ip = job.ip /\ job'.rest = job.rest
        /\ job'.done = job.done /\ job'.phase = "write" /\ job'.todo = Has(leases)
  BY <1>1 DEF Job, Has
<1>3. job.done = {} /\ job.op # "allocate"
  BY <1>1, JobIs DEF StoreInv, JobFollowsTable
<1>4. JobFollowsTable'
  BY <1>1, <1>2, <1>3, JobIs DEF JobFollowsTable, StoreInv
<1> QED
  BY <1>1, <1>2, <1>4 DEF StoreInv, TypeOK

LEMMA WriteEntryKeeps ==
    ASSUME StoreInv, WriteEntry
    PROVE  StoreInv'
<1>1. job \in Job /\ job.phase = "write" /\ up
        /\ UNCHANGED <<now, up, leases, names, file, told, unsaved, untold, before, crashes>>
  BY DEF StoreInv, TypeOK, WriteEntry, ghosts
<1>2. PICK ip \in job.todo : job' = [job EXCEPT !.todo = @ \ {ip}, !.done = @ \cup {ip}]
  BY DEF WriteEntry
<1>3. job' \in Job /\ job'.op = job.op /\ job'.ip = job.ip /\ job'.rest = job.rest
        /\ job'.phase = "write" /\ job'.todo = job.todo \ {ip} /\ job'.done = job.done \cup {ip}
  BY <1>1, <1>2 DEF Job
<1>4. job'.todo \cup job'.done = job.todo \cup job.done
  BY <1>2, <1>3
<1>5. JobFollowsTable'
  BY <1>1, <1>3, <1>4, JobIs DEF JobFollowsTable, StoreInv
<1> QED
  BY <1>1, <1>3, <1>5 DEF StoreInv, TypeOK

\* What a save has written when it renames is the table.
LEMMA WrittenIs ==
    ASSUME StoreInv, RenameTmp
    PROVE  file' = Lines(leases) /\ file' \subseteq {Line(ip, lease) : ip \in Ip, lease \in Record}
<1>1. job \in Job /\ job.phase = "write" /\ job.todo = {} /\ job # None
        /\ file' = {Line(ip, leases[ip]) : ip \in job.done}
  BY DEF StoreInv, TypeOK, RenameTmp, Written
<1>2. job.done = Has(leases)
  BY <1>1 DEF StoreInv, JobFollowsTable
<1>3. file' = Lines(leases)
  BY <1>1, <1>2 DEF Lines, Has
<1>4. \A ip \in Has(leases) : leases[ip] \in Record
  BY TableIs DEF StoreInv, Has
<1> QED
  BY <1>1, <1>2, <1>3, <1>4 DEF Has

LEMMA SaveIs ==
    ASSUME StoreInv, RenameTmp \/ SaveFails
    PROVE  /\ job \in Job /\ job # None /\ up /\ job.phase \in {"open", "write"}
           /\ job.rest \in SUBSET Has(leases) /\ (job.op # "release" => job.rest = {})
           /\ Continue(job.rest)
           /\ UNCHANGED <<now, up, told, untold, orphans, before, ops, crashes>>
  BY DEF StoreInv, TypeOK, JobFollowsTable, RenameTmp, SaveFails, Written

LEMMA SaveKeeps ==
    ASSUME StoreInv, RenameTmp \/ SaveFails
    PROVE  StoreInv'
<1>1. job \in Job /\ job.rest \in SUBSET Ip /\ up
        /\ UNCHANGED <<now, up, told, untold, before, crashes>>
  BY SaveIs, JobIs
<1>2. leases' \in Table /\ leases' \in [Ip -> Lease \cup {None}]
        /\ job' \in Job \cup {None} /\ JobFollowsTable'
  BY SaveIs, ContinueIs
<1>3. unsaved' \subseteq unsaved \cup job.rest
  BY DEF RenameTmp, SaveFails
<1>4. file' \subseteq {Line(ip, lease) : ip \in Ip, lease \in Record}
  BY WrittenIs DEF SaveFails, StoreInv
<1> QED
  BY <1>1, <1>2, <1>3, <1>4 DEF StoreInv, TypeOK

LEMMA CrashKeeps ==
    ASSUME StoreInv, Crash
    PROVE  StoreInv'
<1>1. up' = FALSE /\ leases' = NoLeases /\ names' = NoNames /\ job' = None /\ before' = leases
        /\ UNCHANGED <<now, file, told, unsaved>> /\ crashes' = crashes + 1 /\ crashes < MaxCrashes
  BY DEF Crash
<1>2. untold' \subseteq Ip
  BY JobIs DEF Crash, StoreInv, TypeOK
<1>3. JobFollowsTable'
  BY <1>1 DEF JobFollowsTable
<1>4. crashes' \in 0..MaxCrashes
  BY <1>1, TimeAssumption DEF StoreInv, TypeOK
<1>5. leases' \in Table /\ before' \in Table /\ leases' \in [Ip -> Lease \cup {None}]
        /\ before' \in [Ip -> Lease \cup {None}]
  BY <1>1, NoLeasesIs DEF StoreInv, TypeOK
<1>6. job' \in Job \cup {None} /\ up' \in BOOLEAN
  BY <1>1
<1>7. now' \in 0..MaxTime /\ told' \in [Ip -> Event \cup {None}] /\ unsaved' \subseteq Ip
  BY <1>1 DEF StoreInv, TypeOK
<1>8. TypeOK'
  BY <1>1, <1>2, <1>4, <1>5, <1>6, <1>7 DEF TypeOK
<1> QED
  BY <1>1, <1>3, <1>5, <1>8 DEF StoreInv

LEMMA StartKeeps ==
    ASSUME StoreInv, NEW table \in Table, StartWith(table)
    PROVE  StoreInv'
<1>1. up' = TRUE /\ leases' = table /\ job' = None /\ before' = NoLeases
        /\ UNCHANGED <<now, names, file, told, crashes>>
  BY DEF StartWith, StoreInv, TypeOK
<1>2. unsaved' \subseteq Ip /\ untold' \subseteq Ip
  BY DEF StartWith, Differs
<1>3. JobFollowsTable'
  BY <1>1 DEF JobFollowsTable
<1> QED
  BY <1>1, <1>2, <1>3, NoLeasesIs, TableIsTyped DEF StoreInv, TypeOK

LEMMA TickKeeps == ASSUME StoreInv, Tick PROVE StoreInv'
<1>1. UNCHANGED <<up, leases, names, job, file, told, unsaved, untold, before, crashes>>
        /\ now' = now + 1 /\ now < MaxTime
  BY DEF Tick, memory, ghosts
<1> QED
  BY <1>1, TimeAssumption DEF StoreInv, TypeOK, JobFollowsTable

\* One step of an operation, or an operation's start, keeps the store in order.
THEOREM StoreInvariant == Spec => []StoreInv
<1>1. ASSUME StoreInv, Next PROVE StoreInv'
  <2>1. CASE \E ip \in Ip : \E m \in Mac : Allocate(m, ip)
    BY <1>1, <2>1, AllocateKeeps
  <2>2. CASE \E ip \in Ip : Renew(ip) \/ MarkDeclined(ip)
    <3>1. PICK ip \in Ip : Renew(ip) \/ MarkDeclined(ip)
      BY <2>2
    <3>2. leases[ip] # None
      BY <3>1 DEF Renew, MarkDeclined, Change
    <3> QED
      BY <1>1, <3>1, <3>2, ChangedIs, ChangeKeeps DEF Renew, MarkDeclined
  <2>3. CASE \E ip \in Ip : Release(ip)
    BY <1>1, <2>3, ReleaseKeeps
  <2>4. CASE Prune \/ SaveAtShutdown
    BY <1>1, <2>4, PruneKeeps, SaveAtShutdownKeeps
  <2>5. CASE Step
    BY <1>1, <2>5, ScriptKeeps, OpenTmpKeeps, WriteEntryKeeps, SaveKeeps, CrashKeeps DEF Step, Exit
  <2>6. CASE Crash \/ Tick
    BY <1>1, <2>6, CrashKeeps, TickKeeps
  <2>7. CASE StartLoading \/ StartEmpty
    BY <1>1, <2>7, StartKeeps, RestoredIs, NoLeasesIs DEF StartLoading, StartEmpty, StoreInv
  <2> QED
    BY <1>1, <2>1, <2>2, <2>3, <2>4, <2>5, <2>6, <2>7 DEF Next
<1>2. ASSUME StoreInv, UNCHANGED vars PROVE StoreInv'
  BY <1>2 DEF vars, memory, ghosts, StoreInv, TypeOK, JobFollowsTable
<1> QED
  BY <1>1, <1>2, StoreInit, PTL DEF Spec

-----------------------------------------------------------------------------
(* The lease file *)

\* The lines of an address do not change when its record and the file do not.
LEMMA FileFrame ==
    ASSUME StoreInv, FileInv, up, up', leases' \in Table, file' = file,
           \A ip \in Ip \ unsaved' : ip \notin unsaved /\ leases'[ip] = leases[ip]
    PROVE  FileInv'
<1> SUFFICES ASSUME NEW ip \in Ip \ unsaved'
             PROVE  Of(file', ip) = Of(Lines(leases'), ip)
  BY DEF FileInv
<1>1. Of(file, ip) = Of(Lines(leases), ip)
  BY DEF FileInv
<1>2. Of(Lines(leases), ip) = Of(Lines(leases'), ip)
  BY SameLines DEF StoreInv
<1> QED
  BY <1>1, <1>2

\* A change of one record marks its address.
LEMMA OperationKeepsFile ==
    ASSUME StoreInv, StoreInv', FileInv,
           \/ \E ip \in Ip : \/ \E m \in Mac : Allocate(m, ip)
                             \/ Renew(ip) \/ MarkDeclined(ip) \/ Release(ip)
           \/ Prune
    PROVE  FileInv'
<1>1. PICK ip \in Ip : unsaved' = unsaved \cup {ip} /\ \A i \in Ip \ {ip} : leases'[i] = leases[i]
  <2>1. CASE \E ip \in Ip : \E m \in Mac : Allocate(m, ip)
    BY <2>1 DEF Allocate, StoreInv, TypeOK
  <2>2. CASE \E ip \in Ip : Renew(ip) \/ MarkDeclined(ip)
    BY <2>2 DEF Renew, MarkDeclined, Change, StoreInv, TypeOK
  <2>3. CASE \E ip \in Ip : Release(ip)
    BY <2>3 DEF Release, TakeOut, StoreInv, TypeOK
  <2>4. CASE Prune
    BY <2>4, PruneIs DEF TakeOut, StoreInv, TypeOK
  <2> QED
    BY <2>1, <2>2, <2>3, <2>4
<1>2. up /\ up' /\ file' = file
  BY DEF Allocate, Renew, MarkDeclined, Change, Release, Prune, Begin, Idle
<1> QED
  BY <1>1, <1>2, FileFrame DEF StoreInv

LEMMA StillKeepsFile ==
    ASSUME StoreInv, FileInv, UNCHANGED <<up, leases, before, file, unsaved>>
    PROVE  FileInv'
  BY DEF FileInv

\* A save that ends with the rename has the whole table in the file, one that
\* fails leaves the file; either may go on with a release, which marks its address.
LEMMA SaveKeepsFile ==
    ASSUME StoreInv, StoreInv', FileInv, RenameTmp \/ SaveFails
    PROVE  FileInv'
<1>1. /\ up /\ up' /\ job.rest \in SUBSET Has(leases) /\ job # None
      /\ (job.op # "release" => job.rest = {}) /\ Continue(job.rest)
  BY SaveIs
<1>2. \A i \in Ip : leases'[i] = leases[i] \/ (i \in job.rest /\ leases'[i] = None)
  BY <1>1, ContinueIs
<1>3. CASE RenameTmp
  <2> SUFFICES ASSUME NEW ip \in Ip \ unsaved'
               PROVE  Of(file', ip) = Of(Lines(leases'), ip)
    BY <1>1 DEF FileInv
  <2>1. leases'[ip] = leases[ip]
    BY <1>2, <1>3 DEF RenameTmp
  <2>2. file' = Lines(leases)
    BY <1>3, WrittenIs
  <2> QED
    BY <2>1, <2>2, SameLines DEF StoreInv
<1>4. CASE SaveFails
  <2>1. file' = file /\ unsaved' = unsaved \cup {ip \in job.rest : leases'[ip] = None}
    BY <1>4 DEF SaveFails
  <2> QED
    BY <1>1, <1>2, <2>1, FileFrame DEF StoreInv
<1> QED
  BY <1>3, <1>4

LEMMA CrashKeepsFile ==
    ASSUME StoreInv, FileInv, Crash
    PROVE  FileInv'
<1>1. up /\ ~up' /\ before' = leases /\ UNCHANGED <<file, unsaved>>
  BY DEF Crash
<1> QED
  BY <1>1 DEF FileInv

\* A start marks every address whose lines are not the ones of its table.
LEMMA StartKeepsFile ==
    ASSUME StoreInv, NEW table \in Table, StartWith(table)
    PROVE  FileInv'
<1>1. up' /\ leases' = table /\ file' = file /\ unsaved' = Differs(table)
  BY DEF StartWith
<1> QED
  BY <1>1 DEF FileInv, Differs, Of

\* The lease file has exactly the line of every address that was not changed
\* since the last save (write_leases and its rename), and after a crash the lines
\* of the table the process had.
THEOREM FileStaysWhole == Spec => []FileInv
<1>1. Init => FileInv
  BY NoLeasesIs, LinesOf DEF Init, FileInv, Of, NoLeases
<1>2. ASSUME StoreInv, StoreInv', FileInv, Next PROVE FileInv'
  <2>1. CASE \/ \E ip \in Ip : \/ \E m \in Mac : Allocate(m, ip)
                               \/ Renew(ip) \/ MarkDeclined(ip) \/ Release(ip)
             \/ Prune
    BY <1>2, <2>1, OperationKeepsFile
  <2>2. CASE SaveAtShutdown \/ StartScript \/ OpenTmp \/ WriteEntry \/ Tick
    <3>1. UNCHANGED <<up, leases, before, file, unsaved>>
      BY <2>2 DEF SaveAtShutdown, StartScript, OpenTmp, WriteEntry, Tick, memory, ghosts
    <3> QED
      BY <1>2, <3>1, StillKeepsFile
  <2>3. CASE ScriptFails \/ ScriptEnds
    <3>1. UNCHANGED <<up, leases, before, file, unsaved>>
      BY <1>2, <2>3, AfterScriptIs DEF ScriptFails, ScriptEnds, ghosts
    <3> QED
      BY <1>2, <3>1, StillKeepsFile
  <2>4. CASE RenameTmp \/ SaveFails
    BY <1>2, <2>4, SaveKeepsFile
  <2>5. CASE Crash
    BY <1>2, <2>5, CrashKeepsFile
  <2>6. CASE StartLoading \/ StartEmpty
    BY <1>2, <2>6, StartKeepsFile, RestoredIs, NoLeasesIs DEF StartLoading, StartEmpty, StoreInv
  <2> QED
    BY <1>2, <2>1, <2>2, <2>3, <2>4, <2>5, <2>6 DEF Next, Step, Exit
<1>3. ASSUME FileInv, UNCHANGED vars PROVE FileInv'
  BY <1>3 DEF vars, memory, ghosts, FileInv
<1> QED
  BY <1>1, <1>2, <1>3, StoreInvariant, PTL DEF Spec

\* The store is well formed and its file a complete table at every moment of every
\* save, whichever of its steps fails or is cut off (dhcp/lease/database.rs,
\* write_leases).
THEOREM StoreStaysSound == Spec => []StoreIsSound
<1>1. StoreInv /\ FileInv => StoreIsSound
  BY DEF StoreInv, FileInv, StoreIsSound, FileIsWhole, Of
<1> QED
  BY <1>1, StoreInvariant, FileStaysWhole, PTL

\* What a start reads back from lines that are those of a table.
LEMMA RestoredFrom ==
    ASSUME StoreInv, NEW ip \in Ip, Of(file, ip) = Of(Lines(before), ip)
    PROVE  /\ before[ip] = None => Restored[ip] = None
           /\ before[ip] # None =>
                 Restored[ip] = IF Second(before[ip].expires) >= now
                                THEN Parsed(Line(ip, before[ip])) ELSE None
<1> DEFINE mine == {l \in file : l[3] = ip /\ KeepsLine(l)}
<1>1. Restored[ip] = IF mine = {} THEN None ELSE Parsed(CHOOSE l \in mine : TRUE)
  BY DEF Restored
<1>2. mine \subseteq Of(file, ip)
  BY DEF Of
<1>3. Of(file, ip) = IF before[ip] = None THEN {} ELSE {Line(ip, before[ip])}
  BY LinesOf DEF StoreInv
<1>4. before[ip] = None => Restored[ip] = None
  <2> HIDE DEF mine
  <2> QED BY <1>1, <1>2, <1>3
<1>5. ASSUME before[ip] # None
      PROVE  Restored[ip] = IF Second(before[ip].expires) >= now
                            THEN Parsed(Line(ip, before[ip])) ELSE None
  <2> DEFINE line == Line(ip, before[ip])
  <2>1. before[ip] \in Record
    BY <1>5, TableIs DEF StoreInv
  <2>2. line[1] = Second(before[ip].expires) /\ before[ip].expires \in Nat
    BY <2>1, LineIs, RecordIs
  <2>3. KeepsLine(line) <=> Second(before[ip].expires) >= now
    BY <2>2 DEF KeepsLine
  <2>4. mine = IF KeepsLine(line) THEN {line} ELSE {}
    BY <1>3, <1>5 DEF Of
  <2> HIDE DEF mine, line
  <2>5. mine = {line} => (CHOOSE l \in mine : TRUE) = line
    OBVIOUS
  <2> QED
    BY <1>1, <2>3, <2>4, <2>5 DEF line
<1> QED
  BY <1>4, <1>5

\* A restart that loads the file (read_leases) gives every saved lease that has a
\* second left back to its client, less than a second shorter, and brings back none
\* that ran out, or was removed and saved.
THEOREM SavedLeasesReturn == Spec => RestartKeepsSaved
<1>1. ASSUME StoreInv, FileInv, StartLoading, NEW ip \in Ip \ unsaved
      PROVE  MayReturn(before[ip], leases'[ip])
  <2>1. ~up /\ leases' = Restored
    BY <1>1 DEF StartLoading, StartWith
  <2>2. Of(file, ip) = Of(Lines(before), ip)
    BY <1>1, <2>1 DEF FileInv
  <2>3. before[ip] # None =>
           /\ before[ip].expires \in Nat
           /\ Second(before[ip].expires) \in Nat
           /\ Second(before[ip].expires) <= before[ip].expires
           /\ before[ip].expires < Second(before[ip].expires) + PerSecond
           /\ Parsed(Line(ip, before[ip])) # None
           /\ Parsed(Line(ip, before[ip])).mac = before[ip].mac
           /\ Parsed(Line(ip, before[ip])).expires = Second(before[ip].expires)
    BY <1>1, TableIs, RecordIs, ParsedIs, SecondIs DEF StoreInv
  <2>4. now \in Nat /\ PerSecond \in Nat
    BY <1>1, SecondAssumption DEF StoreInv, TypeOK
  <2>5. CASE before[ip] = None
    BY <1>1, <2>1, <2>2, <2>5, RestoredFrom DEF MayReturn
  <2>6. CASE before[ip] # None /\ Second(before[ip].expires) >= now
    <3>1. leases'[ip] = Parsed(Line(ip, before[ip]))
      BY <1>1, <2>1, <2>2, <2>6, RestoredFrom
    <3> QED
      BY <2>3, <2>4, <2>6, <3>1 DEF MayReturn
  <2>7. CASE before[ip] # None /\ ~(Second(before[ip].expires) >= now)
    <3>1. leases'[ip] = None
      BY <1>1, <2>1, <2>2, <2>7, RestoredFrom
    <3> QED
      BY <2>3, <2>4, <2>7, <3>1 DEF MayReturn
  <2> QED
    BY <2>5, <2>6, <2>7
<1>2. StoreInv /\ FileInv /\ [Next]_vars =>
         [StartLoading => \A ip \in Ip \ unsaved : MayReturn(before[ip], leases'[ip])]_vars
  BY <1>1
<1> QED
  BY <1>2, StoreInvariant, FileStaysWhole, PTL DEF Spec, RestartKeepsSaved

-----------------------------------------------------------------------------
(* The script *)

\* What the script should have heard of an address.
Due(ip) ==
    IF job # None /\ job.phase = "script" /\ job.ip = ip
    THEN Heard(job.event # "add")
    ELSE Heard((IF up THEN leases ELSE before)[ip] # None)

LEMMA ScriptInvIs == ScriptInv <=> \A ip \in Ip \ untold : told[ip] \in Due(ip)
  BY DEF ScriptInv, Due

LEMMA DueIs ==
    ASSUME NEW ip \in Ip, up, ~(job # None /\ job.phase = "script" /\ job.ip = ip)
    PROVE  Due(ip) = Heard(leases[ip] # None)
  BY DEF Due

LEMMA NextDueIs ==
    ASSUME NEW ip \in Ip, up', ~(job' # None /\ job'.phase = "script" /\ job'.ip = ip)
    PROVE  Due(ip)' = Heard(leases'[ip] # None)
  BY DEF Due

\* A step that starts a script for at most one address, whose lease was there or
\* not as the event says, and leaves the other leases where they are.
LEMMA ScriptFrame ==
    ASSUME StoreInv, ScriptInv, up, up', told' = told, untold \subseteq untold',
           job = None \/ job.phase # "script" \/ job.ip \in untold',
           \A ip \in Ip :
              \/ (leases'[ip] = None) = (leases[ip] = None)
                    /\ ~(job' # None /\ job'.phase = "script" /\ job'.ip = ip)
              \/ /\ job' # None /\ job'.phase = "script" /\ job'.ip = ip
                 /\ (job'.event # "add") = (leases[ip] # None)
    PROVE  ScriptInv'
<1> SUFFICES ASSUME NEW ip \in Ip \ untold'
             PROVE  told[ip] \in Due(ip)'
  BY DEF ScriptInv, Due
<1>1. told[ip] \in Heard(leases[ip] # None)
  BY ScriptInvIs, DueIs
<1>2. Due(ip)' = Heard(leases[ip] # None)
  <2>1. CASE ~(job' # None /\ job'.phase = "script" /\ job'.ip = ip)
    BY <2>1, NextDueIs
  <2>2. CASE job' # None /\ job'.phase = "script" /\ job'.ip = ip
    <3>1. (job'.event # "add") = (leases[ip] # None)
      BY <2>2
    <3> QED
      BY <2>2, <3>1 DEF Due
  <2> QED
    BY <2>1, <2>2
<1> QED
  BY <1>1, <1>2

LEMMA OperationKeepsScript ==
    ASSUME StoreInv, ScriptInv,
           \/ \E ip \in Ip : \/ \E m \in Mac : Allocate(m, ip)
                             \/ Renew(ip) \/ MarkDeclined(ip) \/ Release(ip)
           \/ Prune \/ SaveAtShutdown
    PROVE  ScriptInv'
<1>1. up /\ up' /\ job = None /\ UNCHANGED <<told, untold>>
  BY DEF Allocate, Renew, MarkDeclined, Change, Release, Prune, SaveAtShutdown, Begin, Idle, ghosts
<1>2. CASE \E ip \in Ip : \E m \in Mac : Allocate(m, ip)
  <2>1. PICK ip \in Ip, m \in Mac : Allocate(m, ip)
    BY <1>2
  <2>2. \A i \in Ip \ {ip} : leases'[i] = leases[i]
    BY <2>1 DEF Allocate, StoreInv, TypeOK
  <2>3. job' \in Job /\ job'.phase = "script" /\ job'.ip = ip /\ job'.event = Action(ip)
    BY <2>1 DEF Allocate, Job, Action, Event
  <2>4. (job'.event # "add") = (leases[ip] # None)
    BY <2>3 DEF Action
  <2> QED
    BY <1>1, <2>2, <2>3, <2>4, ScriptFrame, JobIs
<1>3. CASE \E ip \in Ip : Renew(ip) \/ MarkDeclined(ip)
  <2>1. PICK ip \in Ip : Renew(ip) \/ MarkDeclined(ip)
    BY <1>3
  <2>2. leases[ip] # None /\ job' = None
    BY <1>1, <2>1 DEF Renew, MarkDeclined, Change
  <2>3. /\ [leases[ip] EXCEPT !.expires = now + LeaseTime] # None
        /\ [leases[ip] EXCEPT !.declined = TRUE] # None
    BY <2>2, ChangedIs, RecordIs
  <2>4. leases'[ip] # None /\ \A i \in Ip \ {ip} : leases'[i] = leases[i]
    BY <2>1, <2>3 DEF Renew, MarkDeclined, Change, StoreInv, TypeOK
  <2> QED
    BY <1>1, <2>2, <2>4, ScriptFrame
<1>4. CASE (\E ip \in Ip : Release(ip)) \/ Prune
  <2>1. PICK ip \in Ip : /\ leases[ip] # None
                         /\ \E rest \in SUBSET Has(leases) : ip \notin rest /\ TakeOut(ip, rest)
    BY <1>4, PruneIs DEF Release
  <2>2. /\ \A i \in Ip \ {ip} : leases'[i] = leases[i]
        /\ job' \in Job /\ job'.ip = ip /\ job'.phase = "script" /\ job'.event = "del"
    BY <2>1, TakeOutIs
  <2> QED
    BY <1>1, <2>1, <2>2, ScriptFrame, JobIs
<1>5. CASE SaveAtShutdown
  <2>1. leases' = leases /\ job'.phase = "open"
    BY <1>5 DEF SaveAtShutdown
  <2> QED
    BY <1>1, <2>1, ScriptFrame
<1> QED
  BY <1>2, <1>3, <1>4, <1>5

LEMMA StartScriptKeepsScript ==
    ASSUME StoreInv, ScriptInv, StartScript
    PROVE  ScriptInv'
<1>1. job \in Job /\ job # None /\ job.phase = "script" /\ up /\ UNCHANGED <<up, leases>>
        /\ told' = [told EXCEPT ![job.ip] = job.event] /\ untold' = untold \ {job.ip}
        /\ job'.phase = "wait"
  BY StartScriptIs, JobIs DEF StartScript, StoreInv, TypeOK
<1>2. job.event \in {"add", "old", "del"} /\ (job.event = "del" <=> leases[job.ip] = None) /\ job.ip \in Ip
  BY <1>1, JobIs DEF StoreInv, JobFollowsTable, Event
<1> SUFFICES ASSUME NEW ip \in Ip \ untold'
             PROVE  told'[ip] \in Due(ip)'
  BY DEF ScriptInv, Due
<1>3. Due(ip)' = Heard(leases[ip] # None)
  BY <1>1, NextDueIs
<1>4. CASE ip = job.ip
  <2>1. told'[ip] = job.event
    BY <1>1, <1>2, <1>4 DEF StoreInv, TypeOK
  <2>2. CASE leases[ip] = None
    BY <1>2, <1>3, <1>4, <2>1, <2>2 DEF Heard
  <2>3. CASE leases[ip] # None
    BY <1>2, <1>3, <1>4, <2>1, <2>3 DEF Heard
  <2> QED
    BY <2>2, <2>3
<1>5. CASE ip # job.ip
  <2>1. told'[ip] = told[ip] /\ ip \notin untold
    BY <1>1, <1>2, <1>5 DEF StoreInv, TypeOK
  <2>2. told[ip] \in Heard(leases[ip] # None)
    BY <1>1, <1>5, <2>1, ScriptInvIs, DueIs
  <2> QED
    BY <1>3, <2>1, <2>2
<1> QED
  BY <1>4, <1>5

LEMMA WorkKeepsScript ==
    ASSUME StoreInv, ScriptInv, ScriptFails \/ ScriptEnds \/ OpenTmp \/ WriteEntry
    PROVE  ScriptInv'
<1>1. job \in Job /\ job # None /\ up /\ up'
  <2>1. job # None /\ up' = up
    BY DEF ScriptFails, ScriptEnds, OpenTmp, WriteEntry
  <2> QED
    BY <2>1 DEF StoreInv, TypeOK
<1>2. told' = told /\ leases' = leases /\ untold \subseteq untold'
        /\ (job.phase # "script" \/ job.ip \in untold')
  BY AfterScriptIs DEF ScriptFails, ScriptEnds, OpenTmp, WriteEntry, ghosts
<1>3. job' = None \/ job'.phase # "script"
  <2>1. CASE ScriptFails \/ ScriptEnds
    <3>1. job' = None \/ job' = [job EXCEPT !.phase = "open"]
      BY <2>1, AfterScriptIs DEF ScriptFails, ScriptEnds
    <3> QED
      BY <1>1, <3>1 DEF Job
  <2>2. CASE OpenTmp \/ WriteEntry
    BY <1>1, <2>2 DEF OpenTmp, WriteEntry, Job
  <2> QED
    BY <2>1, <2>2
<1> QED
  BY <1>1, <1>2, <1>3, ScriptFrame

LEMMA SaveKeepsScript ==
    ASSUME StoreInv, ScriptInv, RenameTmp \/ SaveFails
    PROVE  ScriptInv'
<1>1. /\ up /\ up' /\ job.rest \in SUBSET Has(leases) /\ job # None /\ job.phase \in {"open", "write"}
      /\ (job.op # "release" => job.rest = {}) /\ Continue(job.rest) /\ UNCHANGED <<told, untold>>
  BY SaveIs
<1>2. \/ leases' = leases /\ (job' = None \/ job'.phase = "exit")
      \/ \E ip \in job.rest :
            /\ job' # None /\ job'.ip = ip /\ job'.phase = "script" /\ job'.event = "del"
            /\ leases[ip] # None
            /\ \A i \in Ip \ {ip} : leases'[i] = leases[i]
  BY <1>1, ContinueIs
<1> QED
  BY <1>1, <1>2, ScriptFrame

LEMMA CrashKeepsScript ==
    ASSUME StoreInv, ScriptInv, Crash
    PROVE  ScriptInv'
<1>1. up /\ ~up' /\ before' = leases /\ job' = None /\ told' = told
        /\ untold' = untold \cup (IF job = None \/ job.op = "save" THEN {} ELSE {job.ip} \cup job.rest)
  BY DEF Crash
<1> SUFFICES ASSUME NEW ip \in Ip \ untold'
             PROVE  told'[ip] \in Due(ip)'
  BY DEF ScriptInv, Due
<1>2. ~(job # None /\ job.phase = "script" /\ job.ip = ip)
  BY <1>1 DEF StoreInv, JobFollowsTable
<1>3. told[ip] \in Heard(leases[ip] # None)
  BY <1>1, <1>2, ScriptInvIs, DueIs
<1>4. Due(ip)' = Heard(leases[ip] # None)
  BY <1>1 DEF Due
<1> QED
  BY <1>1, <1>3, <1>4

LEMMA StartKeepsScript ==
    ASSUME StoreInv, ScriptInv, NEW table \in Table, StartWith(table)
    PROVE  ScriptInv'
<1>1. ~up /\ up' /\ job = None /\ job' = None /\ leases' = table /\ told' = told
        /\ untold' = {ip \in Ip : ip \in untold \/ (before[ip] = None) # (table[ip] = None)}
  BY DEF StartWith, StoreInv, TypeOK
<1> SUFFICES ASSUME NEW ip \in Ip \ untold'
             PROVE  told'[ip] \in Due(ip)'
  BY DEF ScriptInv, Due
<1>2. ip \notin untold /\ (before[ip] = None) = (table[ip] = None)
  BY <1>1
<1>3. told[ip] \in Heard(before[ip] # None)
  BY <1>1, <1>2 DEF ScriptInv
<1>4. Due(ip)' = Heard(table[ip] # None)
  BY <1>1, NextDueIs
<1> QED
  BY <1>1, <1>2, <1>3, <1>4

\* What the script was last told of an address is what the table says, or what the
\* event it is about to be started with follows.
THEOREM ScriptInvariant == Spec => []ScriptInv
<1>1. Init => ScriptInv
  BY DEF Init, ScriptInv, Heard, NoLeases
<1>2. ASSUME StoreInv, ScriptInv, Next PROVE ScriptInv'
  <2>1. CASE \/ \E ip \in Ip : \/ \E m \in Mac : Allocate(m, ip)
                               \/ Renew(ip) \/ MarkDeclined(ip) \/ Release(ip)
             \/ Prune \/ SaveAtShutdown
    BY <1>2, <2>1, OperationKeepsScript
  <2>2. CASE StartScript
    BY <1>2, <2>2, StartScriptKeepsScript
  <2>3. CASE ScriptFails \/ ScriptEnds \/ OpenTmp \/ WriteEntry
    BY <1>2, <2>3, WorkKeepsScript
  <2>4. CASE RenameTmp \/ SaveFails
    BY <1>2, <2>4, SaveKeepsScript
  <2>5. CASE Crash
    BY <1>2, <2>5, CrashKeepsScript
  <2>6. CASE StartLoading \/ StartEmpty
    BY <1>2, <2>6, StartKeepsScript, RestoredIs, NoLeasesIs DEF StartLoading, StartEmpty, StoreInv
  <2>7. CASE Tick
    BY <1>2, <2>7 DEF Tick, memory, ghosts, ScriptInv
  <2> QED
    BY <1>2, <2>1, <2>2, <2>3, <2>4, <2>5, <2>6, <2>7 DEF Next, Step, Exit
<1>3. ASSUME ScriptInv, UNCHANGED vars PROVE ScriptInv'
  BY <1>3 DEF vars, memory, ghosts, ScriptInv
<1> QED
  BY <1>1, <1>2, <1>3, StoreInvariant, PTL DEF Spec

\* The lease script (execute_lease_script) has been told of the table as it is, and
\* the events of an address alternate, for every interleaving of operations,
\* failing scripts, failing saves, crashes and restarts.
THEOREM ScriptHearsOfTheTable == Spec => []ScriptSeesTheTable
<1>1. ASSUME StoreInv, ScriptInv PROVE ScriptSeesTheTable
  <2>1. ASSUME Idle, NEW ip \in Ip \ untold
        PROVE  told[ip] \in (IF leases[ip] = None THEN {None, "del"} ELSE {"add", "old"})
    BY <1>1, <2>1 DEF ScriptInv, Heard, Idle
  <2>2. ASSUME job # None, job.phase = "script", job.ip \notin untold
        PROVE  told[job.ip] \in (IF job.event = "add" THEN {None, "del"} ELSE {"add", "old"})
    <3>1. job.ip \in Ip
      BY <1>1, <2>2, JobIs DEF StoreInv, TypeOK
    <3> QED
      BY <1>1, <2>2, <3>1 DEF ScriptInv, Heard
  <2> QED
    BY <2>1, <2>2 DEF ScriptSeesTheTable
<1> QED
  BY <1>1, StoreInvariant, ScriptInvariant, PTL

-----------------------------------------------------------------------------
(* The names in the DNS cache *)

LEMMA TakeOutKeepsNames ==
    ASSUME StoreInv, NamesInv, NEW ip \in Ip, NEW rest, leases[ip] # None, TakeOut(ip, rest),
           orphans' = orphans
    PROVE  NamesInv'
<1> SUFFICES ASSUME NEW n \in Name \ orphans, names'[n] # None
             PROVE  /\ names'[n].ip \in Ip /\ leases'[names'[n].ip] # None
                    /\ leases'[names'[n].ip].host = n
  BY DEF NamesInv
<1>1. n # leases[ip].host /\ names'[n] = names[n]
  BY DEF TakeOut, Unregister
<1>2. names[n].ip \in Ip /\ leases[names[n].ip] # None /\ leases[names[n].ip].host = n
  BY <1>1 DEF NamesInv
<1>3. leases'[names[n].ip] = leases[names[n].ip]
  BY <1>1, <1>2 DEF TakeOut, StoreInv, TypeOK
<1> QED
  BY <1>1, <1>2, <1>3

LEMMA AllocateKeepsNames ==
    ASSUME StoreInv, NamesInv, NEW m \in Mac, NEW ip \in Ip, Allocate(m, ip)
    PROVE  NamesInv'
<1> DEFINE new == [mac |-> m, host |-> HostOf[m], cid |-> CidOf[m],
                   expires |-> now + LeaseTime, declined |-> FALSE]
<1>1. new # None /\ new.host = HostOf[m]
  BY NewRecord, RecordIs DEF StoreInv, TypeOK
<1>2. leases' = [leases EXCEPT ![ip] = new]
  BY DEF Allocate
<1> HIDE DEF new
<1>3. orphans' = (orphans \cup NamesAt(ip)) \ {HostOf[m]}
        /\ names' = [n \in Name |-> IF n = HostOf[m] THEN [ip |-> ip, until |-> now + LeaseTime]
                                    ELSE names[n]]
  BY DEF Allocate, Register
<1> SUFFICES ASSUME NEW n \in Name \ orphans', names'[n] # None
             PROVE  /\ names'[n].ip \in Ip /\ leases'[names'[n].ip] # None
                    /\ leases'[names'[n].ip].host = n
  BY DEF NamesInv
<1>4. CASE n = HostOf[m]
  BY <1>1, <1>2, <1>3, <1>4 DEF StoreInv, TypeOK
<1>5. CASE n # HostOf[m]
  <2>1. names'[n] = names[n] /\ n \notin orphans /\ n \notin NamesAt(ip)
    BY <1>3, <1>5
  <2>2. names[n].ip \in Ip /\ leases[names[n].ip] # None /\ leases[names[n].ip].host = n
    BY <2>1 DEF NamesInv
  <2>3. names[n].ip # ip
    BY <2>1, <2>2 DEF NamesAt
  <2>4. leases'[names[n].ip] = leases[names[n].ip]
    BY <1>2, <2>2, <2>3 DEF StoreInv, TypeOK
  <2> QED
    BY <2>1, <2>2, <2>4
<1> QED
  BY <1>4, <1>5

\* A renewed or declined lease keeps its name.
LEMMA ChangeKeepsNames ==
    ASSUME StoreInv, NamesInv, NEW ip \in Ip, Renew(ip) \/ MarkDeclined(ip)
    PROVE  NamesInv'
<1>1. leases[ip] # None /\ leases[ip] \in Record /\ UNCHANGED <<names, orphans>>
  BY TableIs DEF Renew, MarkDeclined, Change, StoreInv
<1>2. PICK lease \in Record : leases' = [leases EXCEPT ![ip] = lease] /\ lease.host = leases[ip].host
  <2>1. CASE Renew(ip)
    <3>1. [leases[ip] EXCEPT !.expires = now + LeaseTime].host = leases[ip].host
      BY <1>1 DEF Record, Lease
    <3> QED
      BY <1>1, <2>1, <3>1, ChangedIs DEF Renew, Change
  <2>2. CASE MarkDeclined(ip)
    <3>1. [leases[ip] EXCEPT !.declined = TRUE].host = leases[ip].host
      BY <1>1 DEF Record, Lease
    <3> QED
      BY <1>1, <2>2, <3>1, ChangedIs DEF MarkDeclined, Change
  <2> QED
    BY <2>1, <2>2
<1>3. \A i \in Ip : leases[i] # None => leases'[i] # None /\ leases'[i].host = leases[i].host
  BY <1>2, RecordIs DEF StoreInv, TypeOK
<1> QED
  BY <1>1, <1>3 DEF NamesInv

LEMMA SaveKeepsNames ==
    ASSUME StoreInv, NamesInv, RenameTmp \/ SaveFails
    PROVE  NamesInv'
<1>1. /\ job.rest \in SUBSET Has(leases) /\ job # None
      /\ (job.op # "release" => job.rest = {}) /\ Continue(job.rest) /\ orphans' = orphans
  BY SaveIs
<1>2. CASE UNCHANGED <<leases, names>>
  BY <1>1, <1>2 DEF NamesInv
<1>3. CASE \E ip \in job.rest : TakeOut(ip, job.rest \ {ip})
  BY <1>1, <1>3, TakeOutKeepsNames DEF Has
<1> QED
  BY <1>1, <1>2, <1>3, ContinueIs

\* The DNS cache answers for a name (dns_integration.rs) only with the address of
\* the lease that has it, unless another client's lease replaced that one.
THEOREM NamesStayWithLeases == Spec => []NamesFollowLeases
<1>1. Init => NamesInv
  BY DEF Init, NamesInv, NoNames
<1>2. ASSUME StoreInv, NamesInv, Next PROVE NamesInv'
  <2>1. CASE \E ip \in Ip : \E m \in Mac : Allocate(m, ip)
    BY <1>2, <2>1, AllocateKeepsNames
  <2>2. CASE \E ip \in Ip : Renew(ip) \/ MarkDeclined(ip)
    BY <1>2, <2>2, ChangeKeepsNames
  <2>3. CASE \E ip \in Ip : Release(ip)
    BY <1>2, <2>3, TakeOutKeepsNames DEF Release
  <2>4. CASE Prune
    BY <1>2, <2>4, PruneIs, TakeOutKeepsNames DEF Prune
  <2>5. CASE SaveAtShutdown \/ StartScript \/ ScriptFails \/ ScriptEnds \/ OpenTmp \/ WriteEntry \/ Tick
    <3>1. UNCHANGED <<leases, names, orphans>>
      BY <1>2, <2>5, AfterScriptIs
         DEF SaveAtShutdown, StartScript, ScriptFails, ScriptEnds, OpenTmp, WriteEntry, Tick, memory, ghosts
    <3> QED
      BY <1>2, <3>1 DEF NamesInv
  <2>6. CASE RenameTmp \/ SaveFails
    BY <1>2, <2>6, SaveKeepsNames
  <2>7. CASE Crash
    BY <2>7 DEF Crash, NamesInv, NoNames
  <2>8. CASE StartLoading \/ StartEmpty
    <3>1. names' = NoNames
      BY <1>2, <2>8 DEF StartLoading, StartEmpty, StartWith, StoreInv
    <3> QED
      BY <3>1 DEF NamesInv, NoNames
  <2> QED
    BY <1>2, <2>1, <2>2, <2>3, <2>4, <2>5, <2>6, <2>7, <2>8 DEF Next, Step, Exit
<1>3. ASSUME NamesInv, UNCHANGED vars PROVE NamesInv'
  BY <1>3 DEF vars, memory, ghosts, NamesInv
<1>4. NamesInv => NamesFollowLeases
  BY DEF NamesInv, NamesFollowLeases
<1> QED
  BY <1>1, <1>2, <1>3, <1>4, StoreInvariant, PTL DEF Spec

=============================================================================
