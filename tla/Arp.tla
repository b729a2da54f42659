-------------------------------- MODULE Arp --------------------------------
(***************************************************************************)
(* Address resolution between hosts on one Ethernet segment: the ArpPeer   *)
(* (arp/peer.rs) and its cache with a time to live (arp/cache/mod.rs,      *)
(* collections/hashttlcache/mod.rs) on every host, the futures that wait   *)
(* for an address, and a network that loses, repeats and reorders.         *)
(*                                                                         *)
(* A host names its IP address and, in the link fields, its MAC address.   *)
(* A record holds the ticks it has left; the record that has none left is  *)
(* expired.  The graveyard of the cache is never read and is left out.     *)
(***************************************************************************)
EXTENDS Integers

CONSTANTS
    Hosts,
    Queries,        \* futures returned by ArpPeer::query
    None,           \* no address, no waiter
    Closed,         \* a waiter whose future was dropped
    Dummy,          \* DUMMY_MAC_ADDRESS
    Disabled,       \* hosts with disable_arp set
    Lookups,        \* <<host, address>>: what the tasks of a host look up
    InitialValues,  \* <<host, address>>: in the host's cache from the start
    CacheTtl,       \* cache_ttl, in ticks of the background task
    RetryCount      \* retry_count

ASSUME ArpAssumption ==
    /\ {None, Closed, Dummy} \cap (Hosts \cup Queries) = {}
    /\ None # Closed /\ None # Dummy
    /\ Disabled \subseteq Hosts
    /\ Lookups \cup InitialValues \subseteq Hosts \X Hosts
    /\ CacheTtl \in Nat \ {0}
    /\ RetryCount \in Nat

VARIABLES
    cache,    \* host -> address -> Record
    waiters,  \* host -> address -> the future to answer
    query,    \* the futures
    wire,     \* ARP messages that may still arrive
    failed    \* hosts that stopped at the assertion "Duplicate waiter"

vars == <<cache, waiters, query, wire, failed>>

Records == [link : Hosts \cup {None}, left : 0..CacheTtl]
NoRecord == [link |-> None, left |-> 0]
FreshRecord(link) == [link |-> link, left |-> CacheTtl]

\* attempt: requests sent so far.  chan: the one-shot channel to the future.
QueryStates == [pc : {"idle", "waiting", "ok", "timeout"},
                host : Hosts \cup {None}, addr : Hosts \cup {None},
                attempt : 0..(RetryCount + 1), chan : Hosts \cup {None, Dummy}]
NoQuery == [pc |-> "idle", host |-> None, addr |-> None, attempt |-> 0, chan |-> None]

Messages == [op : {"Request", "Reply"}, sha : Hosts, spa : Hosts,
             tha : Hosts \cup {None}, tpa : Hosts]
Request(h, a) == [op |-> "Request", sha |-> h, spa |-> h, tha |-> None, tpa |-> a]
\* Mutant: the protocol address of the sender is taken over from the request.
Reply_unswapped(h, m) == [op |-> "Reply", sha |-> h, spa |-> m.spa, tha |-> m.sha, tpa |-> m.spa]
Reply(h, m) == [op |-> "Reply", sha |-> h, spa |-> h, tha |-> m.sha, tpa |-> m.spa]

Init ==
    /\ cache = [h \in Hosts |-> [a \in Hosts |->
                  IF <<h, a>> \in InitialValues THEN FreshRecord(a) ELSE NoRecord]]
    /\ waiters = [h \in Hosts |-> [a \in Hosts |-> None]]
    /\ query = [q \in Queries |-> NoQuery]
    /\ wire = {}
    /\ failed = {}
-----------------------------------------------------------------------------
(* The cache.                                                              *)

\* ArpCache::get: an expired record is returned as long as it is there.
get(h, a) == IF h \in Disabled THEN Dummy ELSE cache[h][a].link

cleanup(records) == [a \in Hosts |-> IF records[a].left = 0 THEN NoRecord ELSE records[a]]

\* insert_with_ttl removes whatever has expired, then stores the record.
insert(records, a, link) == [cleanup(records) EXCEPT ![a] = FreshRecord(link)]

advance_clock(records) ==
    [a \in Hosts |-> [records[a] EXCEPT !.left = IF @ = 0 THEN 0 ELSE @ - 1]]

\* Mutant: the waiter is answered and kept.
do_insert_keeps_waiter(h, a, link) ==
    /\ query' = [q \in Queries |->
                   IF q = waiters[h][a] THEN [query[q] EXCEPT !.chan = link] ELSE query[q]]
    /\ cache' = [cache EXCEPT ![h] = insert(@, a, link)]
    /\ UNCHANGED waiters

\* ArpPeer::do_insert: a future that waits is answered and forgotten.
do_insert(h, a, link) ==
    /\ waiters' = [waiters EXCEPT ![h][a] = None]
    /\ query' = [q \in Queries |->
                   IF q = waiters[h][a] THEN [query[q] EXCEPT !.chan = link] ELSE query[q]]
    /\ cache' = [cache EXCEPT ![h] = insert(@, a, link)]
-----------------------------------------------------------------------------
(* Queries.                                                                *)

Live(q) == query[q].pc = "waiting" /\ query[q].host \notin failed

\* The first poll of the future: answered from the cache, or a waiter is
\* registered and the first request sent.
StartQuery(q, h, a) ==
    /\ query[q].pc # "waiting" /\ h \notin failed
    /\ \/ /\ get(h, a) # None
          /\ query' = [query EXCEPT ![q] = [pc |-> "ok", host |-> h, addr |-> a,
                                            attempt |-> 0, chan |-> get(h, a)]]
          /\ UNCHANGED <<waiters, wire, failed>>
       \/ /\ get(h, a) = None /\ waiters[h][a] # None
          /\ failed' = failed \cup {h}
          /\ UNCHANGED <<waiters, query, wire>>
       \/ /\ get(h, a) = None /\ waiters[h][a] = None
          /\ waiters' = [waiters EXCEPT ![h][a] = q]
          /\ query' = [query EXCEPT ![q] = [pc |-> "waiting", host |-> h, addr |-> a,
                                            attempt |-> 1, chan |-> None]]
          /\ wire' = wire \cup {Request(h, a)}
          /\ UNCHANGED failed
    /\ UNCHANGED cache

\* The future is polled with its answer there.
TakeAnswer(q) ==
    /\ Live(q) /\ query[q].chan # None
    /\ query' = [query EXCEPT ![q].pc = "ok"]
    /\ UNCHANGED <<cache, waiters, wire, failed>>

\* Mutant: the attempts are not counted.
RequestTimeout_uncounted(q) ==
    /\ Live(q)
    /\ wire' = wire \cup {Request(query[q].host, query[q].addr)}
    /\ UNCHANGED <<cache, waiters, query, failed>>

\* The future is polled with its timer expired: send again, or give up and
\* drop the waiter (do_drop).  An answer that is there as well may lose.
RequestTimeout(q) ==
    LET h == query[q].host
        a == query[q].addr
    IN  /\ Live(q)
        /\ \/ /\ query[q].attempt =< RetryCount
              /\ query' = [query EXCEPT ![q].attempt = @ + 1]
              /\ wire' = wire \cup {Request(h, a)}
              /\ UNCHANGED waiters
           \/ /\ query[q].attempt > RetryCount
              /\ query' = [query EXCEPT ![q].pc = "timeout"]
              /\ waiters' = [waiters EXCEPT ![h][a] = None]
              /\ UNCHANGED wire
        /\ UNCHANGED <<cache, failed>>

\* The task that owns the future is dropped: nobody removes the waiter.
DropQuery(q) ==
    LET h == query[q].host
        a == query[q].addr
    IN  /\ Live(q)
        /\ query' = [query EXCEPT ![q] = NoQuery]
        /\ waiters' = [waiters EXCEPT ![h][a] = IF @ = q THEN Closed ELSE @]
        /\ UNCHANGED <<cache, wire, failed>>
-----------------------------------------------------------------------------
(* The network and the background task.                                    *)

\* Mutant: an unknown sender goes into the cache without do_insert.
receive_unannounced(h, m) ==
    LET merge_flag == get(h, m.spa) # None
    IN  /\ merge_flag \/ m.tpa = h
        /\ IF merge_flag THEN do_insert(h, m.spa, m.sha)
           ELSE cache' = [cache EXCEPT ![h] = insert(@, m.spa, m.sha)] /\ UNCHANGED <<waiters, query>>
        /\ wire' = IF m.tpa = h /\ m.op = "Request" THEN wire \cup {Reply(h, m)} ELSE wire

\* ArpPeer::receive.  A message that is not for this host refreshes what is
\* known of its sender; otherwise it is refused (EBADMSG) and changes nothing.
receive(h, m) ==
    LET merge_flag == get(h, m.spa) # None
    IN  /\ merge_flag \/ m.tpa = h
        /\ do_insert(h, m.spa, m.sha)
        /\ wire' = IF m.tpa = h /\ m.op = "Request" THEN wire \cup {Reply(h, m)} ELSE wire

\* A request is broadcast, a reply goes to one link address; a message that
\* was delivered may be delivered again.
Deliver(h, m) ==
    /\ h \notin failed
    /\ m \in wire /\ m.sha # h
    /\ m.tha \in {None, h}
    /\ receive(h, m)
    /\ UNCHANGED failed

Lose(m) ==
    /\ m \in wire
    /\ wire' = wire \ {m}
    /\ UNCHANGED <<cache, waiters, query, failed>>

\* One turn of ArpPeer::background.  The scheduler polls an answered future
\* in the same pass.
Background(h) ==
    /\ h \notin failed
    /\ \A q \in Queries : Live(q) /\ query[q].host = h => query[q].chan = None
    /\ cache' = [cache EXCEPT ![h] = advance_clock(@)]
    /\ UNCHANGED <<waiters, query, wire, failed>>

Next ==
    \/ \E q \in Queries, l \in Lookups : StartQuery(q, l[1], l[2])
    \/ \E q \in Queries : TakeAnswer(q) \/ RequestTimeout(q) \/ DropQuery(q)
    \/ \E h \in Hosts, m \in wire : Deliver(h, m)
    \/ \E m \in wire : Lose(m)
    \/ \E h \in Hosts : Background(h)

Spec == Init /\ [][Next]_vars
FairSpec ==
    /\ Spec
    /\ \A q \in Queries : WF_vars(TakeAnswer(q)) /\ WF_vars(RequestTimeout(q))
-----------------------------------------------------------------------------
(* Properties.                                                             *)

\* The variables have the shapes of the structures they stand for.
TypeOK ==
    /\ cache \in [Hosts -> [Hosts -> Records]]
    /\ waiters \in [Hosts -> [Hosts -> Queries \cup {None, Closed}]]
    /\ query \in [Queries -> QueryStates]
    /\ wire \subseteq Messages
    /\ failed \subseteq Hosts

\* A future is registered as the waiter for an address exactly while it waits
\* for that address without an answer, so that an answer reaches it and its
\* sender is never dropped under it (the expect of arp/peer.rs:126).
WaiterMatches ==
    \A h, a \in Hosts, q \in Queries :
        (waiters[h][a] = q) <=> /\ query[q].pc = "waiting" /\ query[q].chan = None
                                /\ query[q].host = h /\ query[q].addr = a

\* No future waits for an address that the cache of its host knows: whatever
\* puts an address into the cache also answers its waiter
\* (arp/peer.rs:108-113).
WaitersAreMisses ==
    \A h, a \in Hosts : waiters[h][a] # None => get(h, a) = None

\* Between hosts that all run this code, an address resolves to the link
\* address of the host that has it, through requests, replies, broadcasts
\* meant for others, repeated and late messages, and evictions.
AnswersAreTrue ==
    /\ \A h, a \in Hosts : cache[h][a].link \in {None, a}
    /\ \A q \in Queries : query[q].pc = "ok" /\ query[q].host \notin Disabled
                            => query[q].chan = query[q].addr

\* A query that is not dropped completes, with an address or with ETIMEDOUT
\* (arp/peer.rs:250-269), whatever the network does.
QueryCompletes ==
    \A q \in Queries :
        (query[q].pc = "waiting") ~> (query[q].pc # "waiting" \/ query[q].host \in failed)
=============================================================================
