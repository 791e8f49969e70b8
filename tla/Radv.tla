-------------------------------- MODULE Radv --------------------------------
(***************************************************************************)
(* Router advertisements of src/src/radv/mod.rs.  ra_start_unsolicited     *)
(* spawns a task per interface: four advertisements 16 seconds apart, then *)
(* one per interval for ever.  An advertisement is built from the          *)
(* interface as it is at that moment, and the interface, its addresses and *)
(* the socket may be missing then.                                         *)
(*                                                                         *)
(* Numbers are u32.  The release build checks for overflow and aborts on a *)
(* panic (.cargo/config.toml:235-243), so a time that cannot be held ends  *)
(* the daemon.  The bytes of the packet are left out; of its contents, the *)
(* times and flags are here.                                               *)
(***************************************************************************)
EXTENDS Naturals, Sequences

CONSTANTS
    Iface,         \* the interfaces with a configuration for advertisements
    Interval,      \* RaInterface::interval, and whether lifetime > 0
    IsRouter,
    Contexts,      \* config.dhcp.dhcp_contexts, those of IPv6, in order
    NoAdvert,
    ShortPause,    \* 16 seconds
    ShortCount,    \* 4
    Millis,        \* 1000, of the option that tells the interval
    Modulus,       \* 2^32
    MaxLifetime,   \* u16::MAX
    MaxMisses      \* bound on the misses that are counted

Kinds == {"link_local", "link_global", "ula"}

\* new refuses an interval of zero.
ASSUME RadvAssumption ==
    /\ Interval \in [Iface -> Nat \ {0}] /\ IsRouter \in [Iface -> BOOLEAN]
    /\ {ShortPause, ShortCount, Millis, Modulus, MaxLifetime, MaxMisses} \subseteq Nat
    /\ MaxLifetime < Modulus

VARIABLES
    links,    \* the kinds of IPv6 addresses of each interface; none: it is away
    ra_task,  \* the task of each interface: where it is, what it has sent
    advert,   \* the last advertisement to all nodes
    since,    \* seconds since then, when the task last woke
    misses    \* history: advertisements that failed since then

radv == <<links, ra_task, advert, since, misses>>

NoTask == [at |-> "none", sent |-> 0, due |-> FALSE]

RadvInit ==
    /\ links = [i \in Iface |-> {"link_local"}]
    /\ ra_task = [i \in Iface |-> NoTask]
    /\ advert = [i \in Iface |-> NoAdvert]
    /\ since = [i \in Iface |-> 0]
    /\ misses = [i \in Iface |-> 0]

-----------------------------------------------------------------------------
(* The advertisement: build_ra_param and the options *)

\* The contexts of an interface: if_index 0 is any.
OnLink(i) == SelectSeq(Contexts, LAMBDA c : i \in c.ifaces)

\* Three quarters of the lease time of the last context the address is in; zero
\* when it is in none, and always for the link-local address.
PreferredTime(i, kind) ==
    LET cs == OnLink(i)
        own == {k \in DOMAIN cs : kind \in cs[k].covers}
    IN  IF cs = <<>> THEN Interval[i] * 3
        ELSE IF own = {} THEN 0
        ELSE (cs[CHOOSE k \in own : \A j \in own : j <= k].lease_time * 3) \div 4

RouterLifetime_OneInterval(i) ==
    IF ~IsRouter[i] THEN 0
    ELSE IF Interval[i] < MaxLifetime THEN Interval[i] ELSE MaxLifetime

\* add_ra_header: the configured lifetime says only whether there is one.
RouterLifetime(i) ==
    IF ~IsRouter[i] THEN 0
    ELSE IF Interval[i] * 3 < MaxLifetime THEN Interval[i] * 3 ELSE MaxLifetime

\* construct_ra_packet: header and prefix options; the DNS servers are the global
\* address, else the link-local one, and the ULA.
Advert(i) ==
    [lifetime |-> RouterLifetime(i),
     managed |-> \E k \in DOMAIN OnLink(i) : OnLink(i)[k].names,
     other |-> OnLink(i) # <<>>,
     prefixes |-> [kind \in links[i] |->
                      [preferred |-> PreferredTime(i, kind),
                       valid |-> PreferredTime(i, kind) * 2]],
     servers |-> links[i] \ (IF "link_global" \in links[i] THEN {"link_local"} ELSE {})]

\* send_ra succeeds when the interface is there and the socket takes the packet.
CanSend(i) == links[i] # {}

\* What construct_ra_packet computes: the lifetimes, the interval, the valid times.
Fits(i) ==
    \A n \in {Interval[i] * 3, Interval[i] * Millis} \cup {PreferredTime(i, kind) * 2 : kind \in links[i]} :
        n < Modulus

Sent(i) ==
    /\ CanSend(i) /\ Fits(i)
    /\ advert' = [advert EXCEPT ![i] = Advert(i)]
    /\ since' = [since EXCEPT ![i] = 0]
    /\ misses' = [misses EXCEPT ![i] = 0]

Missed(i) ==
    /\ misses[i] < MaxMisses
    /\ misses' = [misses EXCEPT ![i] = @ + 1]
    /\ UNCHANGED <<advert, since>>

-----------------------------------------------------------------------------
(* The tasks *)

\* ra_start_unsolicited, for the interfaces that have an IPv6 address now: the
\* others never get a task.
ra_start_unsolicited ==
    /\ \A i \in Iface : ra_task[i] = NoTask
    /\ ra_task' = [i \in Iface |-> IF links[i] = {} THEN [NoTask EXCEPT !.at = "off"]
                                   ELSE [NoTask EXCEPT !.at = "short", !.due = TRUE]]
    /\ UNCHANGED <<links, advert, since, misses>>

\* run_short_ra_period: an advertisement that fails ends the task, by `?'.
ShortAdvert(i) ==
    /\ ra_task[i].at = "short" /\ ra_task[i].due
    /\ \/ /\ Sent(i)
          /\ ra_task' = [ra_task EXCEPT ![i] =
                            [at |-> IF @.sent + 1 = ShortCount THEN "normal" ELSE "short",
                             sent |-> @.sent + 1, due |-> FALSE]]
       \/ /\ Missed(i)
          /\ ra_task' = [ra_task EXCEPT ![i] = [NoTask EXCEPT !.at = "off"]]
    /\ UNCHANGED links

\* run_normal_ra_period: an advertisement that fails is logged.
NormalAdvert(i) ==
    /\ ra_task[i].at = "normal" /\ ra_task[i].due
    /\ Sent(i) \/ Missed(i)
    /\ ra_task' = [ra_task EXCEPT ![i].due = FALSE]
    /\ UNCHANGED links

\* A time that a u32 cannot hold aborts the daemon and with it every task.
Overflow(i) ==
    /\ ra_task[i].at \in {"short", "normal"} /\ ra_task[i].due
    /\ CanSend(i) /\ ~Fits(i)
    /\ ra_task' = [j \in Iface |-> [NoTask EXCEPT !.at = "off"]]
    /\ UNCHANGED <<links, advert, since, misses>>

\* A pause of the first period, or the interval timer, whose first tick is at once
\* and is not used.
Pause(i) == IF ra_task[i].at = "short" THEN ShortPause ELSE Interval[i]

Wake(i) ==
    /\ ra_task[i].at \in {"short", "normal"} /\ ~ra_task[i].due
    /\ ra_task' = [ra_task EXCEPT ![i].due = TRUE]
    /\ since' = [since EXCEPT ![i] = @ + Pause(i)]
    /\ UNCHANGED <<links, advert, misses>>

\* The addresses of an interface change, and it may go away and come back.
LinkChanges(i) ==
    /\ \E kinds \in SUBSET Kinds : links' = [links EXCEPT ![i] = kinds]
    /\ UNCHANGED <<ra_task, advert, since, misses>>

RadvNext ==
    \/ ra_start_unsolicited
    \/ \E i \in Iface : ShortAdvert(i) \/ NormalAdvert(i) \/ Overflow(i) \/ Wake(i) \/ LinkChanges(i)

RadvSpec == RadvInit /\ [][RadvNext]_radv

-----------------------------------------------------------------------------
(* Properties *)

\* While its task runs, a router is kept by the hosts of its link until three
\* advertisements in a row have failed: what an advertisement promised lasts until
\* the task (run_ra_task) has woken for the next one.  The task is over after one
\* failure in the first period, and after an overflow of any interface's.  The
\* interval must be one the promise can express, and not so short that the first
\* period is slower than it.
RouterIsKept ==
    \A i \in Iface :
       /\ advert[i] # NoAdvert /\ IsRouter[i] /\ ra_task[i].at # "off" /\ misses[i] <= 2
       /\ 3 * Interval[i] <= MaxLifetime /\ ShortPause <= 3 * Interval[i]
       => since[i] <= advert[i].lifetime

=============================================================================
