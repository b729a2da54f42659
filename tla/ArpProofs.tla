----------------------------- MODULE ArpProofs -----------------------------
(***************************************************************************)
(* Arp keeps its cache and its waiters consistent, and hosts that run it   *)
(* resolve addresses correctly, for any number of hosts and queries.       *)
(*                                                                         *)
(* The invariants of the model are not inductive alone.  IInv adds where a *)
(* waiting future is, that the messages on the wire are honest, and that a *)
(* future whose answer has not been taken yet finds its address in the     *)
(* cache with time left: this is why giving up (do_drop) never removes the *)
(* waiter of another future.                                               *)
(***************************************************************************)
EXTENDS Arp, TLAPS

WaitingPlaced ==
    \A q \in Queries : query[q].pc = "waiting" => query[q].host \in Hosts /\ query[q].addr \in Hosts

WireHonest == \A m \in wire : m.sha = m.spa

AnsweredFresh ==
    \A q \in Queries :
        (query[q].pc = "waiting" /\ query[q].chan # None) =>
            /\ query[q].host \notin Disabled
            /\ query[q].chan = query[q].addr
            /\ cache[query[q].host][query[q].addr].link # None
            /\ cache[query[q].host][query[q].addr].left > 0

IInv == /\ TypeOK /\ WaiterMatches /\ WaitersAreMisses /\ AnswersAreTrue
        /\ WaitingPlaced /\ WireHonest /\ AnsweredFresh

\* A new host: empty cache or true initial values, nobody waits.
LEMMA InitIInv == Init => IInv
<1> SUFFICES ASSUME Init PROVE IInv
    BY Zenon
<1> USE ArpAssumption DEF Init, NoRecord, FreshRecord, NoQuery
<1>1. TypeOK
    BY DEF TypeOK, Records, QueryStates, Messages
<1>2. WaiterMatches /\ WaitersAreMisses
    BY Zenon DEF WaiterMatches, WaitersAreMisses
<1>3. AnswersAreTrue
    BY Zenon DEF AnswersAreTrue
<1>4. WaitingPlaced /\ WireHonest /\ AnsweredFresh
    BY Zenon DEF WaitingPlaced, WireHonest, AnsweredFresh
<1>5. QED BY <1>1, <1>2, <1>3, <1>4, Zenon DEF IInv

\* What insert does to the records of one host: the inserted one is fresh,
\* the others stay or were expired and go.
LEMMA InsertRecords ==
    ASSUME NEW records \in [Hosts -> Records], NEW a \in Hosts, NEW link \in Hosts
    PROVE  /\ insert(records, a, link) \in [Hosts -> Records]
           /\ insert(records, a, link)[a] = FreshRecord(link)
           /\ \A b \in Hosts \ {a} :
                 insert(records, a, link)[b] = IF records[b].left = 0 THEN NoRecord ELSE records[b]
<1>1. FreshRecord(link) \in Records /\ NoRecord \in Records
    BY ArpAssumption DEF Records, FreshRecord, NoRecord
<1>2. /\ cleanup(records) \in [Hosts -> Records]
      /\ \A b \in Hosts : cleanup(records)[b] = IF records[b].left = 0 THEN NoRecord ELSE records[b]
    BY <1>1, Zenon DEF cleanup
<1>3. QED BY <1>1, <1>2, Zenon DEF insert

\* Updates of one field of a future.
LEMMA QueryFields ==
    ASSUME NEW r \in QueryStates
    PROVE  /\ \A pc \in {"ok", "timeout"} : [r EXCEPT !.pc = pc] \in QueryStates
           /\ \A n \in 0..(RetryCount + 1) : [r EXCEPT !.attempt = n] \in QueryStates
           /\ \A a \in Hosts : [r EXCEPT !.chan = a] \in QueryStates
    BY Zenon DEF QueryStates

\* advance_clock leaves the addresses as they are.
LEMMA ClockRecords ==
    ASSUME NEW records \in [Hosts -> Records]
    PROVE  /\ advance_clock(records) \in [Hosts -> Records]
           /\ \A a \in Hosts : advance_clock(records)[a].link = records[a].link
    BY ArpAssumption DEF advance_clock, Records

\* Starting a query.
LEMMA StartStep ==
    ASSUME IInv, NEW q \in Queries, NEW h \in Hosts, NEW a \in Hosts, StartQuery(q, h, a)
    PROVE  IInv'
<1> USE ArpAssumption DEF IInv
<1>1. CASE get(h, a) # None /\ query' = [query EXCEPT ![q] = [pc |-> "ok", host |-> h, addr |-> a,
                                            attempt |-> 0, chan |-> get(h, a)]]
           /\ UNCHANGED <<cache, waiters, wire, failed>>
    <2>1. get(h, a) \in Hosts \cup {Dummy}
        BY <1>1 DEF get, TypeOK, Records
    <2>2. TypeOK'
        BY <1>1, <2>1 DEF TypeOK, QueryStates
    <2>3. WaiterMatches' /\ WaitersAreMisses'
        BY <1>1, <2>1 DEF WaiterMatches, WaitersAreMisses, get, TypeOK, StartQuery
    <2>4. AnswersAreTrue'
        BY <1>1, <2>1, Zenon DEF AnswersAreTrue, get, TypeOK
    <2>5. WaitingPlaced' /\ WireHonest' /\ AnsweredFresh'
        BY <1>1, Zenon DEF WaitingPlaced, WireHonest, AnsweredFresh, TypeOK
    <2>6. QED BY <2>2, <2>3, <2>4, <2>5, Zenon
<1>2. CASE failed' = failed \cup {h} /\ UNCHANGED <<cache, waiters, query, wire>>
    BY <1>2 DEF TypeOK, WaiterMatches, WaitersAreMisses, get, AnswersAreTrue, WaitingPlaced,
                WireHonest, AnsweredFresh
<1>3. CASE /\ get(h, a) = None /\ waiters[h][a] = None
           /\ waiters' = [waiters EXCEPT ![h][a] = q]
           /\ query' = [query EXCEPT ![q] = [pc |-> "waiting", host |-> h, addr |-> a,
                                            attempt |-> 1, chan |-> None]]
           /\ wire' = wire \cup {Request(h, a)}
           /\ UNCHANGED <<cache, failed>>
    <2>1. TypeOK'
        BY <1>3 DEF TypeOK, QueryStates, Request, Messages
    <2>2. WaiterMatches'
        BY <1>3 DEF WaiterMatches, TypeOK, StartQuery
    <2>3. WaitersAreMisses' /\ AnswersAreTrue'
        BY <1>3 DEF WaitersAreMisses, AnswersAreTrue, get, TypeOK
    <2>4. WaitingPlaced' /\ WireHonest' /\ AnsweredFresh'
        BY <1>3 DEF WaitingPlaced, WireHonest, AnsweredFresh, TypeOK, Request
    <2>5. QED BY <2>1, <2>2, <2>3, <2>4, Zenon
<1>4. QED BY <1>1, <1>2, <1>3, Zenon DEF StartQuery

\* Taking the answer.
LEMMA TakeStep == ASSUME IInv, NEW q \in Queries, TakeAnswer(q) PROVE IInv'
<1> USE ArpAssumption DEF IInv, TakeAnswer, Live
<1>1. TypeOK'
    BY QueryFields, Zenon DEF TypeOK
<1>2. WaiterMatches' /\ WaitersAreMisses'
    BY DEF WaiterMatches, WaitersAreMisses, get, TypeOK
<1>3. AnswersAreTrue'
    BY DEF AnswersAreTrue, AnsweredFresh, TypeOK
<1>4. WaitingPlaced' /\ WireHonest'
    BY DEF WaitingPlaced, WireHonest, TypeOK
<1>5. AnsweredFresh'
    BY SMTT(30) DEF AnsweredFresh, TypeOK
<1>6. QED BY <1>1, <1>2, <1>3, <1>4, <1>5, Zenon

\* A timeout: another request, or the end of the query.
LEMMA TimeoutStep == ASSUME IInv, NEW q \in Queries, RequestTimeout(q) PROVE IInv'
<1> DEFINE h == query[q].host
           a == query[q].addr
<1> USE ArpAssumption DEF IInv
<1>0. h \in Hosts /\ a \in Hosts /\ query[q].pc = "waiting"
    BY Zenon DEF RequestTimeout, Live, WaitingPlaced
<1>1. CASE /\ query[q].attempt =< RetryCount
           /\ query' = [query EXCEPT ![q].attempt = @ + 1]
           /\ wire' = wire \cup {Request(h, a)}
           /\ UNCHANGED <<cache, waiters, failed>>
    <2>1. TypeOK'
        <3>1. query' \in [Queries -> QueryStates]
            <4>1. query[q].attempt + 1 \in 0..(RetryCount + 1)
                BY <1>1 DEF TypeOK, QueryStates
            <4>2. QED BY <1>1, <4>1, QueryFields, Zenon DEF TypeOK
        <3>2. wire' \subseteq Messages
            BY <1>0, <1>1 DEF TypeOK, Request, Messages
        <3>3. QED BY <1>1, <3>1, <3>2, Zenon DEF TypeOK
    <2>2. WaiterMatches' /\ WaitersAreMisses'
        BY <1>1 DEF WaiterMatches, WaitersAreMisses, get, TypeOK
    <2>3. AnswersAreTrue'
        BY <1>1 DEF AnswersAreTrue, TypeOK
    <2>4. WaitingPlaced' /\ WireHonest'
        BY <1>1 DEF WaitingPlaced, WireHonest, TypeOK, Request
    <2>5. AnsweredFresh'
        BY SMTT(30), <1>1 DEF AnsweredFresh, TypeOK
    <2>6. QED BY <2>1, <2>2, <2>3, <2>4, <2>5, Zenon
<1>2. CASE /\ query[q].attempt > RetryCount
           /\ query' = [query EXCEPT ![q].pc = "timeout"]
           /\ waiters' = [waiters EXCEPT ![h][a] = None]
           /\ UNCHANGED <<cache, wire, failed>>
    <2>1. TypeOK'
        BY <1>0, <1>2, QueryFields, Zenon DEF TypeOK
    <2>2. waiters[h][a] \in {q, None}
        BY <1>0 DEF WaiterMatches, WaitersAreMisses, AnsweredFresh, get
    <2>3. WaiterMatches'
        BY <1>0, <1>2, <2>2 DEF WaiterMatches, TypeOK
    <2>4. WaitersAreMisses' /\ AnswersAreTrue'
        BY <1>0, <1>2 DEF WaitersAreMisses, AnswersAreTrue, get, TypeOK
    <2>5. WaitingPlaced' /\ WireHonest'
        BY <1>2 DEF WaitingPlaced, WireHonest, TypeOK
    <2>6. AnsweredFresh'
        BY SMTT(30), <1>2 DEF AnsweredFresh, TypeOK
    <2>7. QED BY <2>1, <2>3, <2>4, <2>5, <2>6, Zenon
<1>3. QED BY <1>1, <1>2, Zenon DEF RequestTimeout

\* A future is dropped while it waits.
LEMMA DropStep == ASSUME IInv, NEW q \in Queries, DropQuery(q) PROVE IInv'
<1> DEFINE h == query[q].host
           a == query[q].addr
<1> USE ArpAssumption DEF IInv
<1>1. h \in Hosts /\ a \in Hosts
    BY Zenon DEF DropQuery, Live, WaitingPlaced
<1>2. /\ query' = [query EXCEPT ![q] = NoQuery]
      /\ waiters' = [waiters EXCEPT ![h][a] = IF waiters[h][a] = q THEN Closed ELSE waiters[h][a]]
      /\ UNCHANGED <<cache, wire, failed>>
    BY Zenon DEF DropQuery
<1>3. TypeOK'
    BY <1>1, <1>2 DEF TypeOK, QueryStates, NoQuery
<1>4. WaiterMatches'
    BY <1>1, <1>2 DEF WaiterMatches, TypeOK, NoQuery
<1>5. WaitersAreMisses' /\ AnswersAreTrue'
    BY <1>1, <1>2 DEF WaitersAreMisses, AnswersAreTrue, get, TypeOK, NoQuery
<1>6. WaitingPlaced' /\ WireHonest' /\ AnsweredFresh'
    BY <1>2, ZenonT(30) DEF WaitingPlaced, WireHonest, AnsweredFresh, TypeOK, NoQuery
<1>7. QED BY <1>3, <1>4, <1>5, <1>6, Zenon

\* A message arrives.
LEMMA DeliverStep == ASSUME IInv, NEW h \in Hosts, NEW m \in wire, Deliver(h, m) PROVE IInv'
<1> DEFINE a == m.spa
           answered == waiters[h][a]
<1> USE ArpAssumption DEF IInv
<1>1. m \in Messages /\ a \in Hosts /\ m.sha = a
    BY Zenon DEF TypeOK, WireHonest, Messages
<1>2. /\ waiters' = [waiters EXCEPT ![h][a] = None]
      /\ query' = [q \in Queries |->
                    IF q = answered THEN [query[q] EXCEPT !.chan = a] ELSE query[q]]
      /\ cache' = [cache EXCEPT ![h] = insert(cache[h], a, a)]
      /\ UNCHANGED failed
    BY <1>1, Zenon DEF Deliver, receive, do_insert
<1>3. /\ cache' \in [Hosts -> [Hosts -> Records]]
      /\ cache'[h][a] = FreshRecord(a)
      /\ \A b \in Hosts \ {a} :
            cache'[h][b] = IF cache[h][b].left = 0 THEN NoRecord ELSE cache[h][b]
      /\ \A g \in Hosts \ {h} : cache'[g] = cache[g]
    <2> DEFINE new == insert(cache[h], a, a)
    <2>1. /\ new \in [Hosts -> Records]
          /\ new[a] = FreshRecord(a)
          /\ \A b \in Hosts \ {a} : new[b] = IF cache[h][b].left = 0 THEN NoRecord ELSE cache[h][b]
        <3>1. cache[h] \in [Hosts -> Records]
            BY Zenon DEF TypeOK
        <3>2. QED BY <1>1, <3>1, InsertRecords
    <2> HIDE DEF new
    <2>2. cache' = [cache EXCEPT ![h] = new]
        BY <1>2, Zenon DEF new
    <2>3. QED BY <2>1, <2>2, Zenon DEF TypeOK
<1>4. wire' \subseteq Messages /\ WireHonest'
    BY <1>1 DEF Deliver, receive, TypeOK, WireHonest, Reply, Messages
<1>5. TypeOK'
    <2>1. query' \in [Queries -> QueryStates]
        BY <1>1, <1>2, QueryFields, Zenon DEF TypeOK
    <2>2. QED BY <1>1, <1>2, <1>3, <1>4, <2>1, Zenon DEF TypeOK
<1>6. \A q \in Queries : /\ query'[q].pc = query[q].pc
                         /\ query'[q].host = query[q].host
                         /\ query'[q].addr = query[q].addr
                         /\ query'[q].chan = IF q = answered THEN a ELSE query[q].chan
    BY <1>2 DEF TypeOK, QueryStates
<1>7. \A q \in Queries : q = answered => /\ query[q].pc = "waiting"
                                         /\ query[q].host = h /\ query[q].addr = a
    BY <1>1 DEF WaiterMatches
<1>8. WaiterMatches'
    BY <1>1, <1>2, <1>6 DEF WaiterMatches, TypeOK
<1>9. WaitersAreMisses'
    <2> SUFFICES ASSUME NEW g \in Hosts, NEW b \in Hosts, waiters'[g][b] # None
                 PROVE  get(g, b)' = None
        BY Zenon DEF WaitersAreMisses
    <2>1. ~ (g = h /\ b = a) /\ waiters[g][b] # None
        BY <1>1, <1>2, Zenon DEF TypeOK
    <2>2. g \notin Disabled /\ cache[g][b].link = None
        BY <2>1, Zenon DEF WaitersAreMisses, get
    <2>3. cache'[g][b].link = None
        BY <2>1, <2>2, <1>3 DEF NoRecord
    <2>4. QED BY <2>2, <2>3, Zenon DEF get
<1>10. AnswersAreTrue'
    <2>1. \A g, b \in Hosts : cache'[g][b].link \in {None, b}
        BY <1>3, SMTT(30) DEF AnswersAreTrue, NoRecord, FreshRecord
    <2>2. \A q \in Queries : query'[q].pc = "ok" /\ query'[q].host \notin Disabled
                             => query'[q].chan = query'[q].addr
        BY <1>6, <1>7 DEF AnswersAreTrue
    <2>3. QED BY <2>1, <2>2, Zenon DEF AnswersAreTrue
<1>11. WaitingPlaced'
    BY <1>6, Zenon DEF WaitingPlaced
<1>12. AnsweredFresh'
    <2> SUFFICES ASSUME NEW q \in Queries, query[q].pc = "waiting", query'[q].chan # None
                 PROVE  /\ query[q].host \notin Disabled
                        /\ query'[q].chan = query[q].addr
                        /\ cache'[query[q].host][query[q].addr].link # None
                        /\ cache'[query[q].host][query[q].addr].left > 0
        BY <1>6 DEF AnsweredFresh
    <2>1. CASE q = answered
        <3>1. query[q].host = h /\ query[q].addr = a /\ query'[q].chan = a
            BY <2>1, <1>6, <1>7, Zenon
        <3>2. h \notin Disabled
            BY <2>1, <1>1, Zenon DEF WaitersAreMisses, get
        <3>3. cache'[h][a].link = a /\ cache'[h][a].left = CacheTtl
            BY <1>3 DEF FreshRecord
        <3>4. QED BY <3>1, <3>2, <3>3, <1>1
    <2>2. CASE q # answered
        <3> DEFINE g == query[q].host
                   b == query[q].addr
        <3>1. /\ g \in Hosts /\ b \in Hosts /\ g \notin Disabled
              /\ query'[q].chan = b
              /\ cache[g][b].link # None /\ cache[g][b].left > 0
            BY <2>2, <1>6, Zenon DEF AnsweredFresh, WaitingPlaced
        <3>2. cache'[g][b] = cache[g][b] \/ cache'[g][b] = FreshRecord(a)
            BY <3>1, <1>3
        <3>3. cache'[g][b].link # None /\ cache'[g][b].left > 0
            BY SMTT(30), <3>1, <3>2, <1>1 DEF FreshRecord
        <3>4. QED BY <3>1, <3>3, Zenon
    <2>3. QED BY <2>1, <2>2, Zenon
<1>13. QED BY <1>4, <1>5, <1>8, <1>9, <1>10, <1>11, <1>12, Zenon

\* A message is lost.
LEMMA LoseStep == ASSUME IInv, NEW m \in wire, Lose(m) PROVE IInv'
<1> USE DEF IInv
<1>1. wire' \subseteq wire /\ UNCHANGED <<cache, waiters, query, failed>>
    BY Zenon DEF Lose
<1>2. TypeOK' /\ WireHonest'
    BY <1>1, Zenon DEF TypeOK, WireHonest
<1>3. WaiterMatches' /\ WaitersAreMisses' /\ AnswersAreTrue'
    BY <1>1 DEF WaiterMatches, WaitersAreMisses, AnswersAreTrue, get
<1>4. WaitingPlaced' /\ AnsweredFresh'
    BY <1>1, Zenon DEF WaitingPlaced, AnsweredFresh
<1>5. QED BY <1>2, <1>3, <1>4, Zenon

\* A turn of the background task.
LEMMA BackgroundStep == ASSUME IInv, NEW h \in Hosts, Background(h) PROVE IInv'
<1> USE ArpAssumption DEF IInv
<1>1. /\ cache' = [cache EXCEPT ![h] = advance_clock(cache[h])]
      /\ UNCHANGED <<waiters, query, wire, failed>>
    BY Zenon DEF Background
<1>2. /\ cache' \in [Hosts -> [Hosts -> Records]]
      /\ \A g, a \in Hosts : cache'[g][a].link = cache[g][a].link
      /\ \A g \in Hosts \ {h} : cache'[g] = cache[g]
    BY <1>1, ClockRecords DEF TypeOK
<1>3. TypeOK'
    BY <1>1, <1>2, Zenon DEF TypeOK
<1>4. WaiterMatches' /\ WaitersAreMisses' /\ AnswersAreTrue'
    BY <1>1, <1>2 DEF WaiterMatches, WaitersAreMisses, AnswersAreTrue, get
<1>5. WaitingPlaced' /\ WireHonest'
    BY <1>1, Zenon DEF WaitingPlaced, WireHonest
<1>6. AnsweredFresh'
    <2>1. \A q \in Queries : (query[q].pc = "waiting" /\ query[q].chan # None) =>
             query[q].host \in Hosts \ {h}
        BY Zenon DEF WaitingPlaced, Background, Live
    <2>2. QED BY <1>1, <1>2, <2>1, ZenonT(30) DEF AnsweredFresh
<1>7. QED BY <1>3, <1>4, <1>5, <1>6, Zenon

\* IInv is inductive.
LEMMA NextIInv == IInv /\ [Next]_vars => IInv'
<1> SUFFICES ASSUME IInv, [Next]_vars PROVE IInv'
    BY Zenon
<1>1. CASE UNCHANGED vars
    <2> USE DEF IInv, vars
    <2>1. TypeOK' /\ WireHonest'
        BY <1>1, Zenon DEF TypeOK, WireHonest
    <2>2. WaiterMatches' /\ WaitersAreMisses' /\ AnswersAreTrue'
        BY <1>1 DEF WaiterMatches, WaitersAreMisses, AnswersAreTrue, get
    <2>3. WaitingPlaced' /\ AnsweredFresh'
        BY <1>1, Zenon DEF WaitingPlaced, AnsweredFresh
    <2>4. QED BY <2>1, <2>2, <2>3, Zenon
<1>2. ASSUME NEW q \in Queries, NEW l \in Lookups, StartQuery(q, l[1], l[2]) PROVE IInv'
    <2>1. l[1] \in Hosts /\ l[2] \in Hosts
        BY ArpAssumption, Zenon
    <2>2. QED BY <1>2, <2>1, StartStep, Zenon
<1>3. QED BY <1>1, <1>2, TakeStep, TimeoutStep, DropStep, DeliverStep, LoseStep, BackgroundStep, Zenon
          DEF Next

\* Every reachable state satisfies the inductive invariant.
THEOREM Invariance == Spec => []IInv
    BY InitIInv, NextIInv, PTL DEF Spec

\* The cache, the waiters and the futures keep their shapes, and no future asks
\* more often than the retry count allows.
THEOREM TypeCorrect == Spec => []TypeOK
<1>1. IInv => TypeOK
    BY Zenon DEF IInv
<1>2. QED BY <1>1, Invariance, PTL

\* A future waits for an address exactly as long as it is registered for it:
\* no answer passes it by, and the expect of arp/peer.rs:126 is never reached.
THEOREM WaitersRegistered == Spec => []WaiterMatches
<1>1. IInv => WaiterMatches
    BY Zenon DEF IInv
<1>2. QED BY <1>1, Invariance, PTL

\* Nobody waits for an address that the cache of the host knows.
THEOREM NobodyWaitsForKnown == Spec => []WaitersAreMisses
<1>1. IInv => WaitersAreMisses
    BY Zenon DEF IInv
<1>2. QED BY <1>1, Invariance, PTL

\* Hosts that run ArpPeer never cache or return a wrong link address, however
\* the network loses, repeats and delays their messages.
THEOREM ResolutionCorrect == Spec => []AnswersAreTrue
<1>1. IInv => AnswersAreTrue
    BY Zenon DEF IInv
<1>2. QED BY <1>1, Invariance, PTL
=============================================================================
