------------------------------- MODULE Dnssec -------------------------------
(***************************************************************************)
(* DNSSEC validation of src/src/dns/dnssec/validator.rs with the trust     *)
(* anchors of trust_anchors.rs: the loop over the signatures of a          *)
(* response, the walk from the name that was asked for to an anchor, the   *)
(* limits on the work, and the tests of times and of NSEC spans.           *)
(*                                                                         *)
(* Signatures are not verified yet: validate_rrset ends in Ok(false) for   *)
(* every record it is given.  The walk waits for the lock of the anchors   *)
(* and for that of the cache in every zone, and both change while it does. *)
(* What a response holds is chosen when it is looked at: each signature    *)
(* and each zone's records are looked at once.                             *)
(***************************************************************************)
EXTENDS Naturals, Sequences

CONSTANTS
    QueryName,     \* the name asked for: a sequence of labels
    Anchors,       \* trust anchors: <<domain, key tag>>
    MaxWork,       \* DNSSEC_LIMIT_WORK
    MaxCrypto,     \* DNSSEC_LIMIT_CRYPTO
    MaxSigFail,    \* 20
    MaxDepth,      \* 10
    MaxSignatures, \* bound: signatures in a response
    Serial,        \* how many serial numbers there are: 2^32
    MaxPoint,      \* bound: 0..MaxPoint are names in the order of their lower-case text,
                   \* or hashes in the order of their bytes
    Canonical      \* where a name stands in the canonical order, label by label from the right

ASSUME DnssecAssumption ==
    /\ {MaxWork, MaxCrypto, MaxSigFail, MaxDepth, MaxSignatures, Serial, MaxPoint} \subseteq Nat
    /\ 0 < MaxWork /\ 0 < MaxCrypto /\ QueryName # <<>>
    /\ Canonical \in [0..MaxPoint -> Nat]

\* The domain and those above it, the root included.
Parents(d) == {SubSeq(d, i, Len(d)) : i \in 1..(Len(d) + 1)}

\* A signature that cannot be read, covers no record of the answer, or covers
\* some at a time at which it is valid or not.
Signature == {"unreadable", "uncovering", "timely", "untimely"}

VARIABLES
    anchors,     \* TrustAnchorStore::anchors
    ds_cached,   \* zones the cache has a live DS record for
    check,       \* the validation in hand
    sig_clock,   \* seconds since the epoch
    nsec_owners  \* the owners of the NSEC or NSEC3 records of a zone

walk == <<anchors, ds_cached, check>>
dnssec == <<walk, sig_clock, nsec_owners>>

\* A validation: where it is, the signatures it has looked at and whether one was
\* over a record, the counters, the zone the walk is at and how far it has come.
NoCheck == [at |-> "done", sigs |-> 0, covered |-> FALSE, work |-> 0, crypto |-> 0,
            sig_fail |-> 0, zone |-> QueryName, depth |-> 0, status |-> "none"]

Fresh == anchors = {} /\ ds_cached = {} /\ check = NoCheck

DnssecInit == Fresh /\ sig_clock = 0 /\ nsec_owners = {}

-----------------------------------------------------------------------------
(* validate_response *)

Ends(c, status) == [c EXCEPT !.at = "done", !.status = status]

\* A counter is raised first and compared then: the unit that reaches the limit
\* is an error.
Spent(count, limit) == count + 1 >= limit

\* What is not a response is not judged, and a response without a signature is
\* called insecure.
Begin ==
    /\ check.at = "done"
    /\ check' \in {Ends(NoCheck, "Indeterminate"), Ends(NoCheck, "Insecure"),
                   [NoCheck EXCEPT !.at = "signatures"]}
    /\ UNCHANGED <<anchors, ds_cached>>

\* validate_rrset never says yes: a limit that is reached is an error, anything
\* else a failed signature.
validate_rrset(c) ==
    LET d == [c EXCEPT !.crypto = @ + 1, !.covered = TRUE]
        e == [d EXCEPT !.sig_fail = @ + 1]
    IN  IF Spent(c.crypto, MaxCrypto) THEN Ends(d, "Indeterminate")
        ELSE IF Spent(d.sig_fail, MaxSigFail) THEN Ends(e, "Indeterminate")
        ELSE Ends(e, "Bogus")

Judged_SkipsUntimely(c, sig) ==
    CASE sig = "unreadable" -> [c EXCEPT !.sig_fail = @ + 1]
      [] sig = "uncovering" -> c
      [] sig = "untimely" -> [c EXCEPT !.sig_fail = @ + 1, !.covered = TRUE]
      [] sig = "timely" -> validate_rrset(c)

\* One signature: the limit on failures is not looked at for an unreadable one.
Judged(c, sig) ==
    CASE sig = "unreadable" -> [c EXCEPT !.sig_fail = @ + 1]
      [] sig = "uncovering" -> c
      [] OTHER -> validate_rrset(c)

CheckSignature(sig) ==
    /\ check.at = "signatures" /\ check.sigs < MaxSignatures
    /\ LET c == [check EXCEPT !.work = @ + 1, !.sigs = @ + 1]
       IN  check' = IF Spent(check.work, MaxWork) THEN Ends(c, "Indeterminate")
                    ELSE Judged(c, sig)
    /\ UNCHANGED <<anchors, ds_cached>>

StartWalk ==
    /\ check.at = "signatures" /\ check.sigs > 0
    /\ check' = [check EXCEPT !.at = "anchor"]
    /\ UNCHANGED <<anchors, ds_cached>>

-----------------------------------------------------------------------------
(* walk_trust_chain *)

\* find_anchor: the zone's own, else that of a parent, else the root's.
find_anchor(zone) == {a \in anchors : a[1] \in Parents(zone)}

\* The top of the loop, with the guard of the anchors.  A zone of one label whose
\* DNSKEY is in the message ends the walk too, anchor or none.
AtAnchor(has_key) ==
    /\ check.at = "anchor"
    /\ LET c == [check EXCEPT !.depth = @ + 1]
           d == [c EXCEPT !.work = @ + 1]
       IN  check' = IF c.depth > MaxDepth THEN Ends(c, "Bogus")
                    ELSE IF Spent(check.work, MaxWork) THEN Ends(d, "Bogus")
                    ELSE IF find_anchor(check.zone) # {} THEN Ends(d, "Secure")
                    ELSE IF ~has_key THEN Ends(d, "Bogus")
                    ELSE IF Len(check.zone) <= 1 THEN Ends(d, "Secure")
                    ELSE [d EXCEPT !.at = "ds", !.zone = Tail(@)]
    /\ UNCHANGED <<anchors, ds_cached>>

\* The DS records of the zone above, from the cache or the message; those of the
\* message are compared with the key, which may fail or meet an unknown digest.
AtDs ==
    /\ check.at = "ds"
    /\ \/ /\ check.zone \in ds_cached
          /\ check' = [check EXCEPT !.at = "anchor"]
       \/ /\ check.zone \notin ds_cached
          /\ check' = Ends(check, "Bogus")
       \/ /\ check.zone \notin ds_cached
          /\ LET c == [check EXCEPT !.crypto = @ + 1]
             IN  \/ check' = Ends(c, "Bogus")
                 \/ ~Spent(check.crypto, MaxCrypto) /\ check' = [c EXCEPT !.at = "anchor"]
    /\ UNCHANGED <<anchors, ds_cached>>

-----------------------------------------------------------------------------
(* Anchors are added and removed, and records come and go in the cache. *)

\* load_from_file adds an anchor per line and keeps those before a line it cannot
\* read.
add_anchor(a) ==
    /\ anchors' = anchors \cup {a}
    /\ UNCHANGED <<ds_cached, check>>

remove_anchor(a) ==
    /\ a \in anchors
    /\ anchors' = anchors \ {a}
    /\ UNCHANGED <<ds_cached, check>>

clear_anchors ==
    /\ anchors' = {}
    /\ UNCHANGED <<ds_cached, check>>

DsComesOrGoes(zone) ==
    /\ ds_cached' = IF zone \in ds_cached THEN ds_cached \ {zone} ELSE ds_cached \cup {zone}
    /\ UNCHANGED <<anchors, check>>

Walk ==
    \/ Begin \/ StartWalk \/ AtDs \/ clear_anchors
    \/ \E sig \in Signature : CheckSignature(sig)
    \/ \E has_key \in BOOLEAN : AtAnchor(has_key)
    \/ \E a \in Anchors : add_anchor(a) \/ remove_anchor(a)
    \/ \E zone \in Parents(QueryName) : DsComesOrGoes(zone)

-----------------------------------------------------------------------------
(* Times and spans *)

\* serial_compare(s1, s2) >= 0.
NotBefore(s1, s2) == (s1 + Serial - s2) % Serial < Serial \div 2

\* The clock stops at the last serial number: unwrap_or(u32::MAX).
validate_rrsig_timing(inception, expiration) ==
    LET t == IF sig_clock < Serial THEN sig_clock ELSE Serial - 1
    IN  NotBefore(t, inception) /\ ~NotBefore(t, expiration)

\* prove_non_existence_nsec and _nsec3: the span from an owner to the next, which
\* wraps if the next is not greater.  Names are compared as lower-case text, hashes
\* as bytes; the type bitmap is never consulted.
InSpan(owner, next, name) ==
    IF owner < next THEN owner <= name /\ name < next
    ELSE owner <= name \/ name < next

SecondPasses ==
    /\ sig_clock < 2 * Serial
    /\ sig_clock' = sig_clock + 1

ZoneGrows(name) ==
    /\ name \notin nsec_owners
    /\ nsec_owners' = nsec_owners \cup {name}

DnssecNext ==
    \/ Walk /\ UNCHANGED <<sig_clock, nsec_owners>>
    \/ SecondPasses /\ UNCHANGED <<walk, nsec_owners>>
    \/ (\E name \in 0..MaxPoint : ZoneGrows(name)) /\ UNCHANGED <<walk, sig_clock>>

DnssecSpec == DnssecInit /\ [][DnssecNext]_dnssec

-----------------------------------------------------------------------------
(* Properties *)

\* No response with a signature over one of its records is called secure, whatever
\* the order and number of the other signatures and whichever limit is reached:
\* verification is not implemented, and these it refuses.  One whose signatures
\* cover none of its records may be called secure.
CoveredIsNotSecure == check.status = "Secure" => ~check.covered

\* The work on a response stays within its limits; a response that goes beyond
\* one is not called secure.
WorkIsBounded ==
    /\ check.work <= MaxWork /\ check.crypto <= MaxCrypto /\ check.depth <= MaxDepth + 1
    /\ check.status = "Secure" => check.work < MaxWork /\ check.depth <= MaxDepth

\* A signature over less than half of the serial numbers is timely from its
\* inception until before its expiration, also when its end has wrapped, as long
\* as the clock has not.
TimesAreRight ==
    \A start \in 0..(Serial - 1), len \in 1..(Serial \div 2 - 1) :
       /\ sig_clock < Serial
       /\ start <= sig_clock + Serial \div 2 /\ sig_clock < start + Serial \div 2
       => (validate_rrsig_timing(start, (start + len) % Serial)
              <=> start <= sig_clock /\ sig_clock < start + len)

\* The owner after this one in the chain of a zone that is in this order, the first
\* after the last.
Successor(owner, order) ==
    LET later == {o \in nsec_owners : order[o] > order[owner]}
        from == IF later = {} THEN nsec_owners ELSE later
    IN  CHOOSE o \in from : \A other \in from : order[o] <= order[other]

HashOrder == [hash \in 0..MaxPoint |-> hash]

\* Every hash is in the span of exactly one NSEC3 record of a zone, however many it
\* has: the chain is in the order the spans are tested in.
HashesHaveOneSpan ==
    nsec_owners # {} => \A hash \in 0..MaxPoint : \E owner \in nsec_owners :
       \A o \in nsec_owners : InSpan(o, Successor(o, HashOrder), hash) <=> o = owner

\* Every name is in the span of an NSEC record of a zone: its chain is in canonical
\* order and the spans are tested in another, so that it may be in several, but no
\* name is ever found uncovered by a chain that is whole.
NamesHaveASpan ==
    nsec_owners # {} => \A name \in 0..MaxPoint :
       \E owner \in nsec_owners : InSpan(owner, Successor(owner, Canonical), name)

\* The validation of a response stays within its limits and does not call secure
\* what it should have verified, and the tests of times and spans are right.
ValidationIsSound ==
    CoveredIsNotSecure /\ WorkIsBounded /\ TimesAreRight /\ HashesHaveOneSpan /\ NamesHaveASpan

=============================================================================
