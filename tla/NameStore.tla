----------------------------- MODULE NameStore ------------------------------
(***************************************************************************)
(* What the DNS cache promises its callers, without the LRU index, the     *)
(* counters or the hash order: one map from keys to records.  A lookup by  *)
(* name answers exactly from the map, a lookup by address only with a live *)
(* record of that address, a full store gives up at most one other record  *)
(* per insertion, and nothing else leaves the store but what expired, what *)
(* DHCP withdrew, or what an explicit eviction or clear removed.           *)
(***************************************************************************)
EXTENDS Naturals, FiniteSets

CONSTANTS Key, Addr, NoAddr, NoEntry, Limit

VARIABLES clock, store, reply

absVars == <<clock, store, reply>>

Stored == {k \in Key : store[k] # NoEntry}

Live(k) == store[k] # NoEntry /\ clock < store[k].expiry

Minus(gone) == [k \in Key |-> IF k \in gone THEN NoEntry ELSE store[k]]

StoreInit ==
    /\ clock = 0
    /\ store = [k \in Key |-> NoEntry]
    /\ reply = [key |-> NoEntry, entry |-> NoEntry]

\* A live record is returned; a miss may forget the record if it expired.
LookupName(k) ==
    \/ /\ Live(k)
       /\ reply' = [key |-> k, entry |-> store[k]]
       /\ UNCHANGED <<clock, store>>
    \/ /\ ~Live(k)
       /\ reply' = [key |-> k, entry |-> NoEntry]
       /\ store' = Minus({k})
       /\ UNCHANGED clock

LookupAddr(a) ==
    /\ \/ \E k \in Key : Live(k) /\ store[k].addr = a /\ reply' = [key |-> k, entry |-> store[k]]
       \/ reply' = [key |-> NoEntry, entry |-> NoEntry]
    /\ UNCHANGED <<clock, store>>

Put(k, e) ==
    /\ clock <= e.expiry
    /\ \E lost \in {{}} \cup {{x} : x \in Stored \ {k}} :
          /\ lost # {} => store[k] = NoEntry /\ Cardinality(Stored) >= Limit
          /\ store' = [Minus(lost) EXCEPT ![k] = e]
    /\ reply' = [key |-> k, entry |-> NoEntry]
    /\ UNCHANGED clock

Withdraw(k) ==
    /\ store[k] # NoEntry /\ store[k].source = "dhcp"
    /\ store' = Minus({k})
    /\ reply' = [key |-> k, entry |-> NoEntry]
    /\ UNCHANGED clock

\* An explicit eviction of one record, or of records that are not live.
Drop(gone) ==
    /\ Cardinality(gone) <= 1 \/ \A k \in gone : ~Live(k)
    /\ store' = Minus(gone)
    /\ reply' = [key |-> NoEntry, entry |-> NoEntry]
    /\ UNCHANGED clock

Wipe ==
    /\ store' = [k \in Key |-> NoEntry]
    /\ reply' = [key |-> NoEntry, entry |-> NoEntry]
    /\ UNCHANGED clock

Advance ==
    /\ clock' = clock + 1
    /\ UNCHANGED <<store, reply>>

StoreNext ==
    \/ \E k \in Key : LookupName(k) \/ Withdraw(k)
    \/ \E a \in Addr : LookupAddr(a)
    \/ \E k \in Key : store'[k] # NoEntry /\ Put(k, store'[k])
    \/ \E gone \in SUBSET Stored : Drop(gone)
    \/ Wipe
    \/ Advance

StoreSpec == StoreInit /\ [][StoreNext]_absVars

=============================================================================
