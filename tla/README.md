# dnsmasq in Rust: a TLA+ verification project

The repository is a rewrite of dnsmasq in Rust on the tokio runtime: a caching
DNS forwarder, DHCPv4 and DHCPv6 servers, a TFTP server and a sender of router
advertisements in one process. This directory holds TLA+ modules for the parts
of it whose correctness depends on the order in which things happen, the TLC
configurations that check them on small instances, and TLAPS proofs for every
size. Paths are relative to the repository; the Rust code is under `src/src/`.

## 1. Inventory

| Component | State | Operations | Hard behaviour | Module |
|---|---|---|---|---|
| DNS cache, `dns/cache.rs` | hash table, LRU index, counters | lookup by name or address, insert, DHCP names, hosts file, evict, prune, clear | two structures that must stay equal; the table at its limit; the second in which a TTL ends | `DnsCache`, `NameStore` |
| Upstream pool, `dns/upstream.rs`, `dns/matcher.rs` | server list, round-robin turn, domain routes, cooldowns | add, remove, clear, select, mark failed or available | one turn for lists of changing length; routes to servers that were removed | `UpstreamPool`, `DomainMatcher` |
| Event-driven forwarder, `dns/forwarder.rs` | map of outstanding queries, cache, pool, one task per query | receive, forward, reply, TCP fallback, time-out, retry | cancellation at any await; ids drawn before they are kept; late and truncated answers | `Forwarder` |
| Query resolution in the daemon, `dns/mod.rs`, `dns/forwarder.rs`, `runtime/event_loop.rs` | cache, pool, one task per query | `resolve_query`, `forward_query_and_wait` | tasks move each other's turn and cooldowns between two attempts | `Resolver` |
| Authoritative DNS, `dns/auth.rs` | zones | answer a query, zone transfer | the cache is asked before the zone | `Resolver`, `DomainMatcher` |
| DNSSEC, `dns/dnssec/` | work counters, trust anchors | validate a response, add and remove anchors | limits; anchors and cache change during the walk; serial numbers that wrap | `Dnssec` |
| Names on the wire, `dns/protocol/` | compression map of a message | write, compress, read, validate names | offsets of one name used by the next; pointers that lead astray | `DnsWire` |
| DHCPv4 and lease manager, `dhcp/v4/protocol.rs`, `dhcp/lease/mod.rs` | leases by address, index by MAC, names | DISCOVER, REQUEST (three kinds), DECLINE, RELEASE, prune | two calls per message with the lock dropped in between; lost replies; expiry | `DhcpV4` |
| DHCPv6 server, `dhcp/v6/` | the same lease manager | SOLICIT, REQUEST, RENEW, REBIND, RELEASE, DECLINE, timer | late, repeated and reordered messages; a REQUEST that looks at no record | `DhcpV6` |
| Lease file, scripts and names, `dhcp/lease/database.rs`, `script_hooks.rs`, `dns_integration.rs` | the file, the script's view, DNS entries | save, load, run a script, register a name | crashes between two steps of a save; scripts that hang or fail | `LeaseStore` |
| Lock of the lease manager, `dhcp/mod.rs`, both DHCP servers, `platform/dbus.rs` | guards and waiting requests | every handler's sequence of guards | everybody waiting on everybody | `LeaseLock` |
| TFTP, `tftp/` | a transfer per accepted request | request, ACK, time-out | repeated requests and ACKs, 16-bit block numbers that run out, the last ACK | `Tftp` |
| Start-up, signals, reload, `main.rs`, `runtime/event_loop.rs`, `platform/signals.rs`, `platform/privileges.rs`, `config/reload.rs` | stage of `main`, user, capabilities, shared configuration, children | start, change of user, SIGHUP, SIGTERM, SIGCHLD, reload | signals at any moment; a file that is being edited; two tasks that reap the same children | `Daemon` |
| Background tasks, `runtime/tasks.rs` | tasks, shutdown channel | spawn, back off, shut down, wait | a message that can be read once; tasks registered after they were spawned | `Tasks` |
| Router advertisements, `radv/mod.rs` | a task per interface | advertise, pause | sends that fail against lifetimes that run out | `Radv` |
| Neighbour cache, `network/arp.rs` | records, departures to announce | lookup, refresh, announce | refreshes that fail half-way; announcements against refreshes | `ArpCache` |
| Host names and patterns, `util/patterns.rs` | none | match, validate | one place to go back to; lengths | `NamePatterns` |
| DHCP and record wire formats, EDNS0, filters, configuration parser | none between calls | parse, build | bytes and text | no |
| Sockets, interfaces, firewall, D-Bus, ubus, inotify, systemd | kernel state | system calls | their failures are inputs of the models above | no |

**How they interact.** The event loop spawns a task per DNS query. A task asks
the cache, then the zones, then the pool for a server, sends, waits under a timer,
tells the pool about failures and puts the answer into the cache; cache and pool are
behind `tokio::sync::RwLock`s that are held for one call at a time. DHCPv4 and
DHCPv6 are two further tasks that share one lease manager behind one such lock;
D-Bus calls take the same lock. The lease manager writes the lease file, runs the
lease script and registers host names in a DNS cache of its own
(`runtime/event_loop.rs:475` makes a second one). The script's process is a child
for which both the task that started it and the SIGCHLD task wait.

Several parts are written and tested but not yet called by the daemon: the event
loop logs DHCP packets and nothing starts `DhcpService`; `check_tftp_listeners`,
`ra_start_unsolicited`, `validate_response`, `ArpCache` and `TaskManager` have no
caller outside tests and their own modules. They are modelled as their interface
says they are used.

**What makes each part correct.** The cache answers nothing stale and nothing it was
not told, forgets the least recently used record, and stays within its size. The pool
returns usable servers only and takes turns. Each query that arrives ends, each client
is answered once at most and, while no two queries share an id, never with the answer
of another, no entry stays in the map for ever. Names are read as they were written. A response with a signature
over one of its records is not called secure, as no signature is verified yet. No
address has two users, and the server's record of a lease lasts at least as long as
its client believes; file, script and DNS agree with the table. A TFTP client gets the
bytes of its file, in order and all of them, and no transfer stays for ever. No
handler waits for ever for the lock. The daemon serves with a valid configuration and
without root, and takes the last edit. Tasks end at the shutdown. Hosts keep their
router while it is there.

The hazards behind these sentences are listed with their lines in
`PROJECT.json`.

## 2. Modules and how they correspond to the code

**`DnsCache`.** `entries` is the hash table, `lru` and `older` the contents and
order of the `LruCache`, `stats` the counters, `ret` what the last call
returned. Every public call that changes the cache is an action; the hosts file
is read name by name, as the code does, and may fail in the middle
(`OpenHosts`, `LoadHost`, `CloseHosts`). `NameStore` is the promise to callers:
one table with room for `Limit` records that returns a record only while it
lives. `PromiseKept` says that `DnsCache` implements it.

**`UpstreamPool`.** `servers` is the list with its cooldowns, `current_index` the
turn, `matcher` the routes. `Chain` gives the patterns that cover a name, the
longest first; the run takes it from `DomainMatcher`. `picked` records the last
selection. `left_behind` is history: the routes whose server `remove_server` took
away while the matcher kept them.

**`DomainMatcher`** is `find_longest_match`, `find_all_matches` and the choice of a
zone as operators over tables that grow pattern by pattern and zone by zone
(`patterns`, `zones`); **`NamePatterns`** the glob loop and the validation of host
names over a text that is entered character by character; **`DnsWire`** the writer
with its compression map and the three readers of names, over a message that
grows name by name and packets from the network. The loops of the readers share one
turn (`ReaderTurn`) and differ in when they follow a pointer and take a label; each
loop is a recursive function over where it is (`Reading`). Their properties compare
what the loops compute with what patterns, zones and names mean.

**`Forwarder`.** One task per client query; `pc` is where it waits. Every stretch
between two awaits that touches shared state is one action. `Timeout` may cancel
a task at each label of `Cancellable`, that is at each await inside
`wait_for_upstream_response`. The upstream socket is
bound to no server and takes any datagram, so a response may be about any name
(`UdpResponse`); it is found by the id the task sent, and nothing of it is compared
with the question. Two history variables say what befell the tasks: `collided`, an id
was drawn that a running task was still using; `fooled`, the tasks that took an answer
to another question than they sent.

**`Resolver`.** The path queries take in the running daemon. It extends
`UpstreamPool` and so composes the two: its steps take servers from the pool's list
and mark them. `HostKeys` are the
configured host records that `DnsServiceBuilder::build` puts into the cache,
`ZoneKeys` the names of a zone.

**`Dnssec`.** `check` is the validation in hand: its place in `validate_response` or
`walk_trust_chain`, the three counters, the zone the walk has come to. What a
response holds is chosen when the code looks at it. `anchors` and `ds_cached`
change between the two locks the walk takes per zone. `sig_clock` and
`nsec_owners` are the inputs of `validate_rrsig_timing` and of the NSEC spans. A point
is a hash, or a name by its place in the order of lowercase text, which is how the
code compares names; `Canonical` is where that name stands in the order of the chain.

**`DhcpV4`.** `leases`, `mac_index` and `names` are the lease manager, `job` the
second call of the message in hand, `offered` and `held` what the clients know.
Clients keep to the protocol, and `Hear` lets every reply get lost; a client may
crash, remember an address of another network, and renew too late. DISCOVER is
one action because the code holds one guard over it (that this is a defect is
the subject of `LeaseLock`).

**`DhcpV6`.** `leases` is the lease manager's table of IPv6 addresses, `net` the
messages sent: the server may get each one at any time and any number of times.
`evicted` is a history variable, the clients whose record was taken in one of the
two ways the code allows.

**`LeaseStore`.** The operations of the lease manager as sequences of the steps that
leave the process: DNS entry, script, file. `job` is what is left of the operation. A
save opens the temporary file, writes entries and renames; a crash or a full disk may
come at each step, and a restart reads the file back through the parser of its lines.
The clock counts parts of a second, `PerSecond` of them, because the file holds whole
seconds (`Second`) while the parser compares them with a clock that does not.

**`LeaseLock`.** A handler is the sequence of `read`, `write` and `drop` on one
path through it. tokio's lock is external: first come, first served.

**`Tftp`.** The server's task takes a request (`Listen`) or starts a round over the
transfers (`Poll`), in which each is visited once (`Over`, `Nothing`,
`SocketError`, `HandlePacket`); a window goes out a block at a time (`SendBlock`).
The file is a sequence of bytes and a block what `get_block` reads of it,
conversion to netascii included. The client is external: it follows the first
transfer that answers, takes blocks in order, acknowledges each, and may repeat
its request or its last ACK. The repository builds with overflow checks and aborts on
a panic (`.cargo/config.toml:235-243`), so a block number beyond the last one ends the
server for everybody (`Overflow`, `aborted`).

**`Daemon`.** `stage` is where `main` is, from the configuration over sockets,
handlers and the change of user to the event loop; `pending` the signals that wait
to be taken, each counting once; `reload` what `handle_reload` has read; `child` the
lease scripts and who waits for them.

**`Tasks`.** `pc` is where each task's loop is, `message` the receivers with an
unread shutdown, `eaten` the tasks whose own function read it. `closer`,
`counted` and `heard` are `wait_for_completion`.

**`Radv`.** `ra_task` is the task of each interface, `links` the addresses the
interface has at the moment, `advert` the last advertisement with its lifetimes and
flags, `since` how long ago it was, `misses` the failures since. Times that do not fit
into 32 bits end the task with the daemon (`Overflow`).

**`ArpCache`.** `records` and `pending_deletions` are the two vectors, `kernel` the
table behind them. `update_from_kernel` is its three phases, over every order in
which the kernel may list its entries, or the first phase only when the kernel
cannot be read. `shown`, `told` and `dropped` are history: what the kernel last
said, what the script believes, which departures could not be queued.

**`MC...`** modules give the constants of a run their values. `MCDnsCache` adds a
history variable with the order in which callers used the records, so that
`EvictsLeastRecentlyUsed` is stated without the cache's own list. `MCUpstreamPool`,
`MCResolver`, `MCDhcpV6` and `MCTasks` each hold parts that share no state, so that
every interleaving of them is a pair of behaviours of the parts; each part is
explored while the others are where they started, and its properties speak of its
own variables only.

## 3. Runs

| Run | Bounds | Distinct states | Shows |
|---|---|---|---|
| `dns_cache` | 3 names, 2 slots, 4 insertions, 2 lookups, 1 second | 136762 | tables equal, counters balance, the right record is evicted, `NameStore` with its limit is implemented |
| `upstream_pool` | 2 addresses, up to 2 servers, a route for a domain and one for a domain inside it, 1 second; tables of 3 patterns, lists of 3 zones, texts of up to 6 characters | 277117 | every selection is usable, a domain's server is used for no other name but along routes left behind, turns are taken; lookups and patterns find what they mean |
| `forwarder` | 2 queries, 2 names, 1 server, 2 ids, 1 retry | 506809 | no query is forgotten in the map; one reply at most, and the answers of two queries are never exchanged; every query ends |
| `resolver` | 2 queries, 2 keys of which 1 of a zone, 2 servers, 2 attempts, 3 seconds; 3 names to a message, packets of 5 bytes; 5 signatures, 3 anchors, 8 serial numbers | 332264 | no server is asked twice, no private answer passes, names of a zone stay home, names are read as written, validation calls no response with a covering signature secure and stays within its limits, every name has an NSEC span, every query ends |
| `dhcp_v4` | 2 clients, 3 addresses of which 2 in the range and 1 reserved, lease times 1 and 2, 3 seconds | 1198460 | one holder per address, records outlive beliefs, index sound, declined addresses not offered |
| `dhcp_v6` | 2 clients, 2 addresses, 3 messages each, 3 seconds; 2 neighbours, 2 devices, vectors of 2 | 1298247 | who was not evicted is on record, held addresses are not advertised; the neighbour cache says what the kernel said and forgets no departure |
| `lease_store` | 2 addresses, a client with a name and one with an empty one, 3 operations, 1 crash, 5 thirds of a second | 640847 | the file is a whole table, a restart gives it back but for leases in their last second, script and DNS follow the table, every operation ends |
| `lease_lock` | 3 tasks, all messages but DISCOVER | 1952 | nobody starves |
| `tftp` | 1 client, up to 3 transfers and 2 at a time, 2 repetitions, block numbers 0 to 2, windows of 1 and 2 | 81836 | in octet mode a beginning of the file and at the end all of it; ACKs accepted; the constant limit kept; the daemon aborts only when block numbers are out; every transfer ends |
| `daemon` | 3 contents of the file, 1 edit, 2 signals, 2 scripts | 189566 | valid configuration, no root, the last SIGHUP counts, children are reaped and reported |
| `tasks` | 2 periodic tasks and a background task, delays up to 3; 1 interface with 2 contexts, 3 misses | 258239 | delays follow errors, the wait covers its tasks, tasks end; the router is kept |

The bounds are the smallest at which what the properties are about happens: one
more name than slots, so that eviction has a choice; as many ids as queries,
so that a draw may or may not collide; a second client and as many addresses as
clients, so that an address changes hands; time enough for a lease to be
granted, to end, to be pruned and to be granted again; one more signature than a
limit allows; an interval at which three misses are exactly the lifetime. The
named bounds are the constants whose names begin with `Max` and that their
modules mark "bound"; limits of the code (`MaxWork`, `MaxDelay`, `MaxConn`,
`MaxAttempts`, the block and serial numbers) are constants too, smaller than in the
code. What the proofs cover holds on any instance; the runs show that it is not
empty. Deadlock checking is off where the clock or a counter stops the model;
`lease_lock` has none and checks it.

**The disagreement that TLC shows.** `lease_lock_discover` (`NoDeadlock`): DISCOVER
reads the lock again under its own guard; a writer that queues in between stops
both for ever, while `src/benches/dhcp_performance.rs:421` speaks of allocation
"without contention or deadlocks".

**Disagreements noted while modelling, without a run.** The models take the steps
described here. No property claims that the code does otherwise: one that touches such
a case excepts it, and its comment says so.

- `dns/cache.rs:526` removes an expired record without changing
  `stats.current_size`, "Number of entries currently in cache" (line 350).
- `dns/cache.rs:575` counts an expiration on each lookup by address that meets an
  expired record and removes nothing; line 356 says "Number of entries removed
  due to TTL expiration".
- `dns/cache.rs:577` ends a lookup by address at the first match; line 555
  promises "Some(entry) if found and not expired, None otherwise".
- `dns/upstream.rs:893` goes on to general-purpose servers when the servers of a
  route are down; line 823 says "If domain match found, use only matching
  servers".
- `dns/upstream.rs:1184` `remove_server` leaves the routes of the server in the matcher.
  They lead nowhere while its address is not configured, and to it when it is
  configured again for another domain: add a1 for `lan`, remove it, add a1 for `corp`,
  and `x.lan` goes to a1. `SelectionIsSound` excepts the routes in `left_behind`.
- `dns/forwarder.rs:1088` takes any datagram that reaches a socket bound to 0.0.0.0,
  and `reply_query` (lines 1140-1192) finds the query by the id alone: source, id sent
  and question are not compared, while line 1074 says "validates it matches the
  outstanding query" and line 1108 "Validates response matches outstanding query". So a
  client may be answered about a name it did not ask for, and the cache may keep that
  answer for its name; `RightAnswerOnce` says that this comes from the network only,
  and to the query that took it (`fooled`).
- `dns/forwarder.rs:1665` only logs; line 1507 says "Handle query timeout by
  marking server failed and notifying client."
- `dns/forwarder.rs:1037` inserts an id that was checked some awaits earlier; line
  617 promises a "Random 16-bit query ID that is not currently in use by an
  outstanding query." Two tasks that share an id may be given each other's answers,
  or none; `RightAnswerOnce` is about the time until then (`collided`).
- `dns/forwarder.rs:1479` answers a cache hit without its record; line 1464 says
  "Constructs a complete DNS response message using data from the cache".
- `dns/mod.rs:1126` gives host records a TTL in the cache; line 1119 says they "are
  available for authoritative zone answering".
- `dns/mod.rs:594` takes a truncated response for NODATA; line 425 says "Forward
  query with UDP (or TCP if TC bit set)".
- `dns/cache.rs:261` stores no data for types other than A and AAAA; line 184 says
  "Complete DNS resource record with type-specific data".
- `dns/mod.rs:685` serves the TTL a record came with; line 437 says "Respect TTL
  from authoritative response".
- `dhcp/lease/mod.rs:849` `load_leases` is called by nobody; line 837 says "Loads
  leases from persistent storage at daemon startup."
- `tftp/server.rs:631` removes a transfer when its last block was sent; line 567 of
  `tftp/transfer.rs` says "EOF reached, transfer complete after current block is
  acknowledged". If that block is lost nobody sends it again, whereas line 18 says
  "Block retransmission on timeout".
- `tftp/server.rs:718` and `:722` add to a `u16` block number. Release builds have
  `overflow-checks = true` and `panic = "abort"` (`.cargo/config.toml:243`, `:235`), so a
  transfer that gets beyond block 65535 ends the daemon, while line 671 says "Handle
  block number wraparound at 65536" and `tftp/mod.rs:314` "wrapping at 65536".
- `tftp/server.rs:393` compares the transfers under way with the constant
  `TFTP_MAX_CONNECTIONS`; the configured `tftp_max` (`config/types.rs:1297`, "Maximum
  concurrent TFTP transfers") is read by no code of the server. The limit that
  `TransfersAreSound` speaks of is the constant.
- `tftp/transfer.rs:397` reads on in netascii mode when a block is asked for again;
  line 406 says "This allows retransmission of earlier blocks". A window sent again so
  comes to the end of the file early, and `is_complete` may be true with an ACK in
  flight that is behind it; the transfer is over and nobody reads that ACK, which
  is why `GoodAcksAreAccepted` speaks of transfers that go on.
- `tftp/transfer.rs:533` sends a line feed that does not fit with its carriage
  return in the next block, after it; line 463 says "converts them to CR-LF".
  Line 439 ends a netascii file when a block consumed less than a block.
- `check_tftp_listeners` is called by nobody: `runtime/event_loop.rs:594` only
  creates the server.
- `dhcp/v4/protocol.rs:1253` renews a lease that has expired but was not pruned.
- `dns/forwarder.rs:1385` draws an id for the TCP fallback that is in no map, so the
  answer is dropped; line 1340 says the fallback is there "to receive the complete
  response". `dns/mod.rs:661` answers
  from the cache with id 0. `dns/forwarder.rs:1737` gives a query up when the turn
  lands on a server it has tried; line 1728 says "try up to MAX_RETRY_ATTEMPTS
  different upstream servers".
- `dns/matcher.rs:395` replaces the servers of a pattern that is added again. The
  exact pattern of a domain is preferred to its wildcard in `find_longest_match`
  while lines 427-430 say that most labels win; `find_all_matches` sorts the wildcard
  first. The root zone matches only itself.
- `dns/auth.rs` answers an address query for a name it has only a DHCP or hosts record
  of with no records, and NXDOMAIN for other types of a name that exists;
  `filter_by_subnet` is always true. `dns/filter.rs:604` finds no records to remove, so
  `apply_filter` (line 290) removes none.
- `dns/protocol/compression.rs` writes labels whose escaped form may need a length
  byte above 63, which no reader accepts (line 455 says "label length validated to
  be <= MAXLABEL (63)", which is the length before escaping): of such names
  `WireIsRight` promises nothing, of the others in the message all; `from_wire` does
  not undo the escapes; the readers' limits on the length of a name differ (1025 and
  255).
- `util/patterns.rs:263` and `:435` count neither dots nor wildcards towards the length
  of a name, while lines 87, 201 and 365 promise a total length of 1-253 characters.
  So names are accepted that are too long by these characters; `ScansAreRight` says
  that every name of the documented length is accepted, and that what else is accepted
  is too long by them only.
- `dns/dnssec/validator.rs:507` returns `Ok(false)` for every record; a response is
  secure only when its signatures cover none. One that has such signatures and no
  other (lines 404-443) is called Secure although nothing of it was verified, while
  line 337 says "Verify RRSIG signatures covering answer section". A zone of one label
  whose DNSKEY is in the message ends the walk as secure without an anchor (line 68
  says "complete trust chain to root anchor"), a zone without DS is bogus (line 73
  says insecure), the DS looked for is the parent's, the type bitmap is never read,
  and the clock stops at `u32::MAX`.
- `dns/protocol/name.rs:723` compares names as lowercase text, and
  `dns/dnssec/validator.rs:647` tests with it the spans of a chain that is in canonical
  order, label by label from the right (line 646: "Check if query name falls within
  NSEC span"). A name may be found in several spans, that of its own record or of
  another; `NamesHaveASpan` says that it is in one at least.
- `dhcp/lease/mod.rs:567` makes a new record, so a client that boots into an address it
  declined clears the DECLINED mark, which line 704 keeps "until manually cleared or
  timeout expires".
- `dhcp/lease/mod.rs:442` takes a client's live lease out of the index when an old one
  of the same client goes; `dhcp/v4/protocol.rs:162` says "Should reuse previous lease
  for same client if present". Line 568 of the same file: a RELEASE is not compared
  with the lease; line 853: a renewal may shorten a lease whose ACK is then lost; line
  912: a relayed OFFER names `giaddr` as the server and the REQUEST is compared with
  another address.
- `dhcp/v6/protocol.rs:1559` accepts only the first address of the pool; line 732
  replaces another client's record; a rapid-commit SOLICIT is refused for want of a
  server identifier; DECLINE marks a copy (line 985 says "Marks address as
  declined"); CONFIRM is not dispatched; a REQUEST for a prefix is refused; RELEASE
  and DECLINE get no reply. Leases of DHCPv4 are pruned by the DHCPv6 task's timer.
- `dhcp/lease/`: `update_all_lease_dns` is never called; flags and interface are not
  saved; `database.rs:468` saves the end of a lease in whole seconds and line 240
  drops it when that is before the present instant, so a lease that ends at 100.9 does
  not come back from a restart at 100.3 (line 241 of the same function calls it
  "expired"): `RestartKeepsSaved` is about leases with a second left; an empty host
  name shifts the fields of its line, so that the client identifier is read as the
  name; a script that times out is not killed and may run on beside the next one; a
  lease that ends while the daemon is down gets no "del"; the old name stays when
  another client's record replaces a lease; a renewal does not extend the DNS entry.
- `platform/signals.rs:56` and `:137` promise a graceful shutdown; SIGTERM ends in an
  empty `shutdown` and the loop's channel is closed at the end of `EventLoop::new`, so
  the daemon does not stop. `handle_sigchld` (line 429) may take the status of a
  script whose task waits for it; the task then reports a failure of a script that
  exited 0, for which `dhcp/lease/script_hooks.rs:264` promises `Ok`.
  `runtime/event_loop.rs:625` reloads a fixed path, and the services keep the copy
  they were built with. `platform/privileges.rs:244` clears the permitted capabilities
  before `setgid` and `setuid` need them: a daemon started as root exits, in a
  container it stays root.
- `runtime/tasks.rs`: a function that reads the shutdown through its clone, as in the
  `select!` the docs show (lines 106-119), keeps its task alive; a task registered
  late is not waited for; one spawned after the shutdown misses it.
- `radv/mod.rs:1037` ends an interface's task for ever when one of the first four
  advertisements fails, while line 1095 says "Continue despite error - don't crash the
  task" for the others. With an interval under 6 seconds the lifetime is shorter than
  the first period's pauses. `interval * 3` (lines 385, 434, 612), twice the preferred
  time (522, 539, 556), as of an infinite lease time, and `adv_interval * 1000` (672)
  abort the daemon when they do not fit into 32 bits (`.cargo/config.toml:235-243`).
  The configured lifetime only says whether there is one.
- `network/arp.rs:539` marks arrivals that were not announced yet; they come back as
  Found and the script never hears of them, although `New` "Triggers script
  notification". A departure is popped before it is queued. A strict lookup that
  finds nothing appends another Empty record each time, and none is ever removed.
  A lookup refreshes only after 90 seconds, strict or not.

## 4. Fairness

Safety properties need none. `Forwarder` assumes weak fairness of each task's
steps taken together (`Proceed`), its timers included: tokio polls every task that
is ready and fires every timer. No answer is promised, so `EveryQueryEnds` holds on
a network that loses everything. `Resolver` adds weak fairness of the clock. `Tftp`
assumes that the server's task runs and that time passes; clients need not take a
step, and they repeat themselves a bounded number of times, without which a stream
of requests would keep `process_active_transfers` from running. `LeaseLock` assumes
that a task that can go on does, and that the lock is handed to the first request
when it can be; that messages come is not assumed. `LeaseStore` assumes that the
operation under way goes on, its time limit on scripts included. `Daemon` assumes
that `main` and the signal tasks run, that a child's end is noticed, and that an
editor finishes what it began. `Tasks` assumes that every task that is ready runs
and that sleeps end; work may return errors for ever.

In the runs with several parts the fairness is that of the part with a liveness
property.

## 5. Proofs

All theorems hold for every value of the constants, under the named ASSUMEs of the
modules: constants such as `NoEntry` and `None` are different from the values they
stand beside, numbers are natural numbers, the capacity of the cache is positive and
its key set finite, names have places in a canonical order, letters and digits are not
characters with a meaning in patterns, the range is a sequence of addresses, no lease
time is longer than `MaxLease`, limits of validation are positive, intervals too, a
second has parts, a lifetime fits its width, a TFTP window is smaller than the block
numbers are many, no client identifier is the empty text, nobody configures the root
as a route or a zone, a pointer has 14 bits, a label that is written is ASCII and at
most 63 bytes long, and a packet is bytes. Every safety property that a run checks is
a theorem. Some proof modules serve several components; these stand behind their
names.

**`DnsCacheProofs`** (`DnsCache`, `NamePatterns`).
`CacheInvariant`: `CacheInv` is inductive. It is more than `TablesAgree` because
that hash table and LRU index stay equal in `insert` depends on the eviction
before it: the index would drop a key by itself if it were full
(`WithinCapacity`), and the key that `evict_lru` takes is unique because the list
is a strict total order (`TotalOn`). From it follow `TablesAlwaysAgree`,
`AlwaysWithinCapacity`, `CountersBalance` and, with one lemma per call that maps its
step to a step of `NameStore` or to a stutter, `CacheKeepsPromise`: the two-table
cache implements the store. `EvictionsAreOfTheLeastRecentlyUsed` is about the run's
own specification: the list never holds two keys in an order that the callers'
history contradicts (`AgesAgree`), so what is last in the list was used first.
`PatternsStayRight` is about texts of any length, and has three parts.
- The glob loop (`GlobMeans`). It forgets every `*` but the last, so a state of the
  loop can be hopeless for the place where it is and yet go back and succeed. What the
  loop keeps is that the value fits from where it is or from a place it can still go
  back to (`Open`), and that since the last `*` it took as many characters of the
  value as of the pattern, none of them a `*` (`Sane`). An earlier `*` is never needed
  again, because what a later one stands for may be any text (`StarAbsorbs`). That the
  loop ends is part of it: each step brings it on in a finite order of places
  (`StarAdvances`, `SameAdvances`).
- The scans (`ScanIsRight`, `NameIsRight`). They accept a text exactly if its labels
  obey the rules and it is of the length they count (`AcceptsCounted`). A host name of
  the documented total length is among these (`HostNamesAreCounted`), since it has fewer
  characters without its dots, and the others are too long by dots and wildcards only
  (`CountedAreFull`). After each character the flag, the counts
  and the open label of the scan are those of the text so far (`Scanned`), by one
  lemma for a dot, which closes a label, and one for any other character.
- The match label by label (`MatchMeans`), by the number of labels that are left. It
  needs that no label of the two texts is empty, for the loop takes a dot at the end
  of the text for the end; validation excludes that.

**`ForwarderProofs`.**
`ForwarderInvariant`: `IInv` adds to the types what a task has in its hands at each
await (`WellFormed`), and, until two running tasks share an id, that each id has
one user, that each entry of the map is its own client's and is awaited, that a
response that was accepted is about the name its client asked for unless the network
said otherwise (`OwnAnswer`, `fooled`), and that a client whose query runs has had no
reply (`Private`). `NoQueryIsForgotten` needs no
such condition: even when ids collide, an entry of `outstanding_queries` has a
task that will remove it. `ClientsGetTheirOwnAnswer` is the safety of the
forwarder: one reply at most, never that of another query, and nothing wrong in the
cache but what a deceived query of that name put there.

**`ResolverProofs`** (`UpstreamPool`, `Resolver`, `Dnssec`, `DomainMatcher`, `DnsWire`).
- The pool: each route that `remove_server` did not leave behind belongs to a server
  of the list (`RoutesInv`), whatever was added, removed and cleared, so a selection
  along it stays private. `PoolInv` says of the last selection what `select_server`
  may select, and where it left the turn: one past the place of the chosen server
  among those that were eligible (`TurnInv`; that place is the number of eligible
  servers before it). Two lists with the same eligible servers then give the next one,
  which is `SelectionsTakeTurns`, for any number of servers and any turn left behind.
- The query: that `tried` has no server twice is kept by the step that appends, but
  that it stays within `MAX_RETRY_ATTEMPTS` depends on a counter that is one behind
  while a server is asked (`TaskIs`); between the two any other task may move the
  turn or mark the server failed, which the invariant allows (`PoolPart`).
  `RebindIsStopped` and `ZoneNamesStayHome` need the same facts of responses in hand
  and of the records of the cache (`RecordIsRight`).
- The validation: one that goes on has met no signature over a record and has
  reached no limit (`GoesOn`), so whatever ends it, a covered response is not secure.
  Spans: a hash is in that of the last owner up to it, or of the last of all, and in no
  other (`HashesAlwaysHaveOneSpan`). For names the chain has another order than the test,
  so that this owner's successor may be any owner; but one that is up to the name too
  is not above this owner, so that the span wraps and takes the name in
  (`NamesAlwaysHaveASpan`). The same holds of the last of all, when no owner is up to
  the name. More than one span may have it, so the lemma for hashes does not carry over.
- The matcher, for names of any number of labels: `find_longest_match` returns a
  covering pattern with most labels, `find_all_matches` exactly the covering
  patterns, once and longest first, although a name has twice as many candidates as
  labels, and two of them may be the same pattern (`SortKey`); `find_zone` compares
  lengths of text where labels are meant, and is right because of two tails of
  one name the shorter text is the one with fewer labels.
- Names on the wire, reading. `ReadersEnd`: what a reader has left, all bytes of the
  packet for each hop that is left and those up to the end, gets less with each turn
  (`LoopEnds`), so every packet is read to a result or an error. The two readers then
  go through the same states as long as the labels are plain, and `decompress_name`
  keeps up with the validator, whose labels it carries along: they are never longer than
  four characters for each byte read (`Level`), which a limit on the length can stop.
- Names on the wire, writing. `WireInv`: a name stands in the message (`Stands`) as its
  labels one after the other, or as some of them and one pointer, behind which the
  rest stands as labels without a pointer. That one pointer is enough is what needs an
  argument: a pointer is written only to an offset that the map has for the
  uncompressed bytes of the tail, and the map is sound (`MapSound`): the bytes of each
  key are in the message at its offset. `add_name` also enters tails that end in a
  pointer, but a lookup asks for bytes without one.
  Both facts stay as the message grows, because nothing that was written changes
  (`HoldsStays`, `StandsStays`), and they need not assume that names fit. A name that
  stands and fits is then read label by label by `decompress_name` (`QuestionStands`),
  whose escapes undo those of the writer (`EscapesUndone`), and by the validator, since
  every pointer leads back (`ValidStands`). `WireStaysRight` puts them together.

**`DhcpV4Proofs`** (`DhcpV4`, `LeaseLock`).
`LeasesInvariant`: that no address has two holders is not inductive. The record
must name the holder and last long enough (`HeldIsRecorded`), which a second grant
to the same client keeps only because no client believes in more than its lease
time from now (`BeliefIsBounded`), and which the second call of a handler keeps
only because what its first call found, that the record is the client's own or
that there is none, cannot turn into another client's record in between: pruning
only removes (`JobStillValid`). From it follow `HoldersAreRecorded`,
`NoTwoHolders`, `IndexIsSound` and, as an action property, `DeclinedStaysOut`.
`OnlyDiscoverDeadlocks` complements the run that finds the deadlock: without DISCOVER
a task has one guard at most and none while it waits (`LockInv`), so who has a
guard can always go on.

**`DhcpV6Proofs`** (`DhcpV6`, `ArpCache`). The same argument needs one fact more here:
only the first address of the pool is ever leased (`OnlyFirst`), because the test of
a REQUEST accepts no other. From the invariant follow `HoldersAreRecorded` and, as an
action property, `OffersAreUnheld`. `NeighboursStayRight`: a refresh is followed
through its three phases, for any table and any order of it. After it the records
say what the kernel said and the first record of an address is the one that
knows it (`Mirrors`), and a departed neighbour has a record, waits in the queue,
or could not be queued.

**`LeaseStoreProofs`.** All four properties rest on one fact: while an operation
is under way the table stands still, but for the leases it takes out itself
(`JobFollowsTable`). On it stand `FileInv` (the file has the lines of the table, or
after a crash of the table there was, for each address not changed since the save;
entries are written to the temporary file one by one, but only the rename counts),
`ScriptInv` (what the script was last told of an address is what the table says, or
what the event that waits will make of it) and `NamesInv`. `SavedLeasesReturn` is
the action property of the restart: what `load_leases` reads back through its
parser is what was saved, with its end cut to a whole second (`SecondIs`), so that only
a lease in its last second may be missing.

**`TftpProofs`.** A socket serves one transfer and a client makes one request, so
what a packet says is fixed by its socket and its number though its transfer may be
over (`Owned`). `Octet` says which bytes of the file each DATA packet in flight and
each client holds, `Reach` that no packet and no acknowledgement is beyond the last
block of the window under way, `Numbers` that a transfer that goes on has sent a full
block of each number so far, so that an overflow means that the file has more blocks
than numbers. From them follow
`TransfersStaySound` and `FilesArrive`, for any files, sizes, windows and losses.

**`DaemonProofs`** (`Daemon`, `Tasks`, `Radv`). That a daemon that serves is not root is
decided one step before it serves, so `IInv` says it from there on (`Unprivileged`);
`DaemonStaysSound` follows. `wait_for_completion` counts messages, not tasks: it
has heard at most as many as tasks are done; when it returns, and no other task
was running, the tasks it counted are all of them (`WaitIsComplete`, by the
cardinality of finite sets). `LoopsStaySound`: the counter of a back-off follows
the errors and is one behind while it waits (`Retries`). `RouterStaysKept`: that a
lifetime outlasts the pauses is not inductive; the invariant bounds the time since
the last advertisement by the failures since, for each period (`EarlySince`,
`LateSince`), and says that what was advertised is what the configuration says
(`Promised`). A task that overflowed is over, as is the daemon.

*Recursion.* The loops over data in these modules are local recursive functions
(`netascii_convert`, the phases of `update_from_kernel`, the lengths of names, the scan of
a host name, what is written of each tail of a name). A loop that may go back, as the
glob loop and the readers of names, is a recursive function over its
states; it exists because the states from which the loop arrives are the least set
closed under its steps (`LoopExists`, `ReadExists`). The
library's induction theorems take an operator and cannot be used, so their facts
are proved by least counterexample: the numbers at which a fact fails are a set of
naturals, which has a least element unless it is empty (`HasLeast`, from
`WFMin` and `NatLessThanWellFounded`).

*Only model-checked.* Liveness (`EveryQueryEnds`, `EveryHandlerEnds`,
`EveryTransferEnds`, `EveryOperationEnds`, `TasksEnd`, `LastReloadWins`,
`ChildrenAreCleared`), because fairness is out of the prover's reach.

## 6. Not modelled, and why

- Layout: DHCP messages and options, DNS records other than names, EDNS0, filters of
  responses, the packets of router advertisements. They keep no state between two
  calls; the models take parsed messages.
- Text: the command line, the configuration parser and its validation. The models
  take configured values as constants, and a file as valid or not.
- System calls and bindings: sockets, interfaces, firewall sets, connection marks,
  D-Bus, ubus, inotify, systemd, the BSD back ends. Their failures are choices in
  the models of their users.
- Cryptography: digests and signatures of DNSSEC.
- Parts nothing depends on: log queue, metrics, packet dumps, the helper process
  that is never started, the echo probes of SLAAC, whose answers confirm nothing.
- Inside modelled parts: in `Resolver` DNSSEC is off, as `resolve_query` skips it when
  it is not configured; the cache of `Resolver` is a table of records without
  eviction. In `DhcpV4` there is one range (`select_context` always takes the first),
  no relay, no D-Bus, a table that is never full, and each client asks for the same
  lease time every time. In `DhcpV6` nobody edits leases over D-Bus.

About half of the implementation's lines are doc comments, examples and unit tests,
and most of the rest is the layout, text and bindings above, so the share of lines
that a definition translates stays small (about a tenth) although nearly every
component with state that another one relies on has a model. Widening it would mean
spelling out parsers and tables of constants, about which a model checker has nothing
to say that a unit test does not.

## 7. Plan

1. Done: a module for every component of the inventory whose state another part
   relies on; proofs of every safety property the runs check, of `NameStore` as what
   the cache implements, and of the lock without DISCOVER.
2. Further compositions: `Resolver` over `DnsCache` itself in place of its table of
   records; `DhcpV4` and `DhcpV6` over `LeaseStore`, once the daemon starts them.
