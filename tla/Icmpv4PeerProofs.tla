-------------------------- MODULE Icmpv4PeerProofs --------------------------
(***************************************************************************)
(* The table of requests of Icmpv4Peer agrees with its pings, and a ping   *)
(* finds its entry free until the sequence numbers wrap, whatever messages *)
(* arrive, for any number of pings, identifiers and sequence numbers.      *)
(*                                                                         *)
(* The peers are on their own here: IcmpSpec lets every message arrive at  *)
(* any time, and leaves the link to itself.  Every step of InetStack is    *)
(* such a step or leaves the variables of the peers as they are.           *)
(***************************************************************************)
EXTENDS Icmpv4Peer, TLAPS

Headers == [type : Icmpv4Types, code : 0 .. 255, id : Words, seq_num : Words]

IcmpSpec ==
    IcmpInit /\ [][IcmpNext \/ \E h \in Hosts, hdr \in Headers : IcmpReceive(h, hdr)]_icmp

\* As long as a host has not used its sequence numbers up, a ping that is about
\* to be sent has no entry in the table yet: the assertion of
\* icmpv4/peer.rs:247 holds.
EntryFree ==
    \A h \in Hosts : \A n \in DOMAIN pings[h] :
        (Len(pings[h]) <= SeqNums /\ pings[h][n].state = "query")
        => Req(pings[h][n]) \notin DOMAIN requests[h]

\* The inductive invariant, host by host: ps and reqs are the pings and the
\* table of a host whose next sequence number is seq.
Pings == [id : Ids, seq_num : 0 .. (SeqNums - 1),
          state : {"query", "wait", "done", "failed"}, told : BOOLEAN]

TableOK(ps, reqs) ==
    /\ reqs \in [DOMAIN reqs -> 1 .. Len(ps)]
    /\ \A n \in 1 .. Len(ps) : (ps[n].state = "wait" /\ ~ ps[n].told)
                               => (Req(ps[n]) \in DOMAIN reqs /\ reqs[Req(ps[n])] = n)
    /\ \A req \in DOMAIN reqs : /\ Req(ps[reqs[req]]) = req
                                /\ ~ ps[reqs[req]].told
                                /\ ps[reqs[req]].state \in {"wait", "failed"}

Numbered(seq, ps) ==
    /\ Len(ps) < SeqNums => seq = Len(ps)
    /\ \A n \in 1 .. Len(ps) : n <= SeqNums => ps[n].seq_num = n - 1

HostOK(seq, ps, reqs) ==
    /\ seq \in 0 .. (SeqNums - 1)
    /\ ps \in Seq(Pings)
    /\ \A n \in 1 .. Len(ps) : ps[n].state = "query" => ~ ps[n].told
    /\ TableOK(ps, reqs)
    /\ Numbered(seq, ps)

IInv ==
    /\ DOMAIN icmp_seq = Hosts /\ DOMAIN pings = Hosts /\ DOMAIN requests = Hosts
    /\ icmp_seq = [h \in Hosts |-> icmp_seq[h]]
    /\ pings = [h \in Hosts |-> pings[h]]
    /\ requests = [h \in Hosts |-> requests[h]]
    /\ \A h \in Hosts : HostOK(icmp_seq[h], pings[h], requests[h])

\* A step changes one host.
LEMMA OneHost ==
    ASSUME IInv, NEW h \in Hosts, NEW seq, NEW ps, NEW reqs, HostOK(seq, ps, reqs),
           icmp_seq' = [icmp_seq EXCEPT ![h] = seq],
           pings' = [pings EXCEPT ![h] = ps],
           requests' = [requests EXCEPT ![h] = reqs]
    PROVE  IInv'
<1>1. /\ icmp_seq'[h] = seq /\ pings'[h] = ps /\ requests'[h] = reqs
      /\ \A g \in Hosts \ {h} : /\ icmp_seq'[g] = icmp_seq[g] /\ pings'[g] = pings[g]
                                /\ requests'[g] = requests[g]
    BY Zenon DEF IInv
<1>2. /\ DOMAIN icmp_seq' = Hosts /\ DOMAIN pings' = Hosts /\ DOMAIN requests' = Hosts
      /\ icmp_seq' = [g \in Hosts |-> icmp_seq'[g]]
      /\ pings' = [g \in Hosts |-> pings'[g]]
      /\ requests' = [g \in Hosts |-> requests'[g]]
    BY Zenon DEF IInv
<1>3. \A g \in Hosts : HostOK(icmp_seq'[g], pings'[g], requests'[g])
    BY <1>1, Zenon DEF IInv
<1>4. QED BY <1>2, <1>3, Zenon DEF IInv

\* There are sequence numbers.
LEMMA SeqNumsPositive == SeqNums \in Nat \ {0}
    BY Icmpv4Assumption

\* What ping starts with.
LEMMA NewPing ==
    ASSUME NEW id \in Ids, NEW seq \in 0 .. (SeqNums - 1)
    PROVE  [id |-> id, seq_num |-> seq, state |-> "query", told |-> FALSE] \in Pings
    BY Zenon DEF Pings

\* Nothing is sent yet.
LEMMA InitIInv == IcmpInit => IInv
<1> SUFFICES ASSUME IcmpInit PROVE IInv
    BY Zenon
<1>1. << >> \in Seq(Pings) /\ Len(<< >>) = 0
    OBVIOUS
<1>2. DOMAIN << >> = {} /\ << >> \in [DOMAIN << >> -> 1 .. Len(<< >>)]
    OBVIOUS
<1>3. HostOK(0, << >>, << >>)
    <2>1. \A n \in 1 .. Len(<< >>) : FALSE
        BY <1>1
    <2>2. TableOK(<< >>, << >>)
        BY <1>2, <2>1, Zenon DEF TableOK
    <2>3. Numbered(0, << >>)
        BY <1>1, <2>1, Zenon DEF Numbered
    <2>4. 0 \in 0 .. (SeqNums - 1)
        BY SeqNumsPositive
    <2>5. QED BY <1>1, <2>1, <2>2, <2>3, <2>4, Zenon DEF HostOK
<1>4. QED BY <1>3, Zenon DEF IInv, IcmpInit

\* The next sequence number is one more until it wraps.
LEMMA NextNumber ==
    ASSUME NEW N \in Nat \ {0}, NEW x \in 0 .. (N - 1)
    PROVE  /\ (x + 1) % N \in 0 .. (N - 1)
           /\ x + 1 < N => (x + 1) % N = x + 1
    OBVIOUS

\* ping: one more ping, with the next number.
LEMMA PingStep == ASSUME IInv, NEW h \in Hosts, NEW id \in Ids, Ping(h, id) PROVE IInv'
<1> DEFINE ps == pings[h]
           seq == icmp_seq[h]
           new == [id |-> id, seq_num |-> seq, state |-> "query", told |-> FALSE]
           qs == Append(ps, new)
           next == (seq + 1) % SeqNums
<1>1. HostOK(seq, ps, requests[h])
    BY Zenon DEF IInv
<1>2. /\ pings' = [pings EXCEPT ![h] = qs]
      /\ icmp_seq' = [icmp_seq EXCEPT ![h] = next]
      /\ requests' = [requests EXCEPT ![h] = requests[h]]
    BY Zenon DEF Ping, IInv
<1>3. SeqNums \in Nat \ {0} /\ seq \in 0 .. (SeqNums - 1) /\ ps \in Seq(Pings) /\ new \in Pings
    <2>1. SeqNums \in Nat \ {0}
        BY SeqNumsPositive, Zenon
    <2>2. seq \in 0 .. (SeqNums - 1) /\ ps \in Seq(Pings)
        BY <1>1, Zenon DEF HostOK
    <2>3. new \in Pings
        BY <2>2, NewPing, Zenon
    <2>4. QED BY <2>1, <2>2, <2>3, Zenon
<1>4. /\ next \in 0 .. (SeqNums - 1)
      /\ seq + 1 < SeqNums => next = seq + 1
    BY <1>3, NextNumber, Zenon
<1>5. /\ qs \in Seq(Pings) /\ Len(qs) = Len(ps) + 1 /\ Len(ps) \in Nat
      /\ \A n \in 1 .. Len(ps) : qs[n] = ps[n]
      /\ qs[Len(ps) + 1] = new
    BY <1>3
<1>6. new.state = "query" /\ ~ new.told /\ new.seq_num = seq
    BY Zenon
<1> HIDE DEF new, ps, qs, seq, next
<1>7. \A n \in 1 .. Len(qs) : qs[n].state = "query" => ~ qs[n].told
    <2>1. \A n \in 1 .. Len(ps) : ps[n].state = "query" => ~ ps[n].told
        BY <1>1, Zenon DEF HostOK
    <2>2. \A n \in 1 .. Len(qs) : n \in 1 .. Len(ps) \/ n = Len(ps) + 1
        BY <1>5
    <2>3. QED BY <1>5, <1>6, <2>1, <2>2, Zenon
<1>8. TableOK(qs, requests[h])
    <2>1. TableOK(ps, requests[h])
        BY <1>1, Zenon DEF HostOK
    <2>2. \A n \in 1 .. Len(ps) : n \in 1 .. Len(qs)
        BY <1>5
    <2>3. \A n \in 1 .. Len(qs) : n \in 1 .. Len(ps) \/ n = Len(ps) + 1
        BY <1>5
    <2>4. requests[h] \in [DOMAIN requests[h] -> 1 .. Len(qs)]
        BY <2>1, <2>2, Zenon DEF TableOK
    <2>5. \A req \in DOMAIN requests[h] : qs[requests[h][req]] = ps[requests[h][req]]
        BY <1>5, <2>1, Zenon DEF TableOK
    <2>6. \A n \in 1 .. Len(qs) : (qs[n].state = "wait" /\ ~ qs[n].told)
                 => (Req(qs[n]) \in DOMAIN requests[h] /\ requests[h][Req(qs[n])] = n)
        BY <1>5, <1>6, <2>1, <2>3, Zenon DEF TableOK
    <2>7. QED BY <2>1, <2>4, <2>5, <2>6, Zenon DEF TableOK
<1>9. Numbered(next, qs)
    <2>1. /\ Len(ps) < SeqNums => seq = Len(ps)
          /\ \A n \in 1 .. Len(ps) : n <= SeqNums => ps[n].seq_num = n - 1
        BY <1>1, Zenon DEF HostOK, Numbered
    <2>2. Len(qs) < SeqNums => next = Len(qs)
        BY <1>3, <1>4, <1>5, <2>1
    <2>3. ASSUME NEW n \in 1 .. Len(qs), n <= SeqNums PROVE qs[n].seq_num = n - 1
        <3>1. CASE n \in 1 .. Len(ps)
            BY <1>5, <2>1, <2>3, <3>1, Zenon
        <3>2. CASE n = Len(ps) + 1
            BY <1>3, <1>5, <1>6, <2>1, <2>3, <3>2
        <3>3. QED BY <1>5, <3>1, <3>2
    <2>4. QED BY <2>2, <2>3, Zenon DEF Numbered
<1>10. HostOK(next, qs, requests[h])
    BY <1>4, <1>5, <1>7, <1>8, <1>9, Zenon DEF HostOK
<1>11. QED BY <1>2, <1>10, OneHost, Zenon

\* One ping moves on and the table stays.
LEMMA StateStep ==
    ASSUME IInv, NEW h \in Hosts, NEW n \in DOMAIN pings[h], NEW s \in {"done", "failed"},
           s = "done" => pings[h][n].told,
           pings[h][n].state = "wait" \/ (pings[h][n].state = "query" /\ s = "failed"),
           pings' = [pings EXCEPT ![h][n].state = s],
           UNCHANGED << icmp_seq, requests >>
    PROVE  IInv'
<1> DEFINE ps == pings[h]
           new == [ps[n] EXCEPT !.state = s]
           qs == [ps EXCEPT ![n] = new]
           reqs == requests[h]
<1>1. HostOK(icmp_seq[h], ps, reqs)
    BY Zenon DEF IInv
<1>2. ps \in Seq(Pings) /\ n \in 1 .. Len(ps)
    BY <1>1 DEF HostOK
<1>3. ps[n] \in Pings
    BY <1>2
<1>4. /\ new \in Pings /\ new.state = s /\ new.told = ps[n].told /\ Req(new) = Req(ps[n])
      /\ new.seq_num = ps[n].seq_num
    BY <1>3, Zenon DEF Pings, Req
<1>5. /\ pings' = [pings EXCEPT ![h] = qs]
      /\ icmp_seq' = [icmp_seq EXCEPT ![h] = icmp_seq[h]]
      /\ requests' = [requests EXCEPT ![h] = requests[h]]
    BY Zenon DEF IInv
<1> HIDE DEF new
<1>6. /\ qs \in Seq(Pings) /\ Len(qs) = Len(ps) /\ qs[n] = new
      /\ \A m \in 1 .. Len(ps) : m # n => qs[m] = ps[m]
    BY <1>2, <1>4
<1> HIDE DEF qs
<1>7. \A m \in 1 .. Len(qs) : qs[m].state = "query" => ~ qs[m].told
    BY <1>1, <1>4, <1>6, Zenon DEF HostOK
<1>8. TableOK(qs, reqs)
    <2>1. TableOK(ps, reqs)
        BY <1>1, Zenon DEF HostOK
    <2>2. reqs \in [DOMAIN reqs -> 1 .. Len(qs)]
        BY <2>1, <1>6, Zenon DEF TableOK
    <2>3. \A m \in 1 .. Len(qs) : (qs[m].state = "wait" /\ ~ qs[m].told)
                => (Req(qs[m]) \in DOMAIN reqs /\ reqs[Req(qs[m])] = m)
        BY <1>4, <1>6, <2>1 DEF TableOK
    <2>4. ASSUME NEW req \in DOMAIN reqs
          PROVE  /\ Req(qs[reqs[req]]) = req /\ ~ qs[reqs[req]].told
                 /\ qs[reqs[req]].state \in {"wait", "failed"}
        <3>1. /\ reqs[req] \in 1 .. Len(ps)
              /\ Req(ps[reqs[req]]) = req /\ ~ ps[reqs[req]].told
              /\ ps[reqs[req]].state \in {"wait", "failed"}
            BY <2>1, Zenon DEF TableOK
        <3>2. CASE reqs[req] = n
            BY <1>4, <1>6, <3>1, <3>2, Zenon
        <3>3. CASE reqs[req] # n
            BY <1>6, <3>1, <3>3, Zenon
        <3>4. QED BY <3>2, <3>3, Zenon
    <2>5. QED BY <2>2, <2>3, <2>4, Zenon DEF TableOK
<1>9. Numbered(icmp_seq[h], qs)
    BY <1>1, <1>4, <1>6, SMTT(30) DEF HostOK, Numbered
<1>10. HostOK(icmp_seq[h], qs, reqs)
    BY <1>1, <1>6, <1>7, <1>8, <1>9, Zenon DEF HostOK
<1>11. /\ DOMAIN pings' = Hosts /\ pings' = [g \in Hosts |-> pings'[g]]
       /\ pings'[h] = qs /\ \A g \in Hosts \ {h} : pings'[g] = pings[g]
    BY <1>5, Zenon DEF IInv
<1>12. \A g \in Hosts : HostOK(icmp_seq[g], pings'[g], requests[g])
    BY <1>10, <1>11, Zenon DEF IInv
<1>13. QED BY <1>11, <1>12, Zenon DEF IInv

\* The request is sent and entered.
LEMMA SendStep ==
    ASSUME IInv, NEW h \in Hosts, NEW n \in DOMAIN pings[h], PingSends(h, n)
    PROVE  IInv'
<1> DEFINE ps == pings[h]
           new == [ps[n] EXCEPT !.state = "wait"]
           qs == [ps EXCEPT ![n] = new]
           old == requests[h]
           key == Req(ps[n])
           reqs == Entered(old, key, n)
<1>1. HostOK(icmp_seq[h], ps, old)
    BY Zenon DEF IInv
<1>2. ps \in Seq(Pings) /\ n \in 1 .. Len(ps) /\ ps[n].state = "query" /\ ~ ps[n].told
    BY <1>1 DEF HostOK, PingSends
<1>3. ps[n] \in Pings
    BY <1>2
<1>4. /\ new \in Pings /\ new.state = "wait" /\ ~ new.told /\ Req(new) = key
      /\ new.seq_num = ps[n].seq_num
    BY <1>2, <1>3, SMTT(30) DEF Pings, Req
<1>5. CASE UNCHANGED << pings, requests >>
    BY <1>5, Zenon DEF PingSends, IInv
<1>6. CASE /\ key \notin DOMAIN old
           /\ requests' = [requests EXCEPT ![h] = reqs]
           /\ pings' = [pings EXCEPT ![h][n].state = "wait"]
    <2>1. /\ pings' = [pings EXCEPT ![h] = qs]
          /\ icmp_seq' = [icmp_seq EXCEPT ![h] = icmp_seq[h]]
        BY <1>6, Zenon DEF IInv, PingSends
    <2> HIDE DEF new
    <2>2. /\ qs \in Seq(Pings) /\ Len(qs) = Len(ps) /\ qs[n] = new
          /\ \A m \in 1 .. Len(ps) : m # n => qs[m] = ps[m]
        BY <1>2, <1>4
    <2>3. TableOK(ps, old)
        BY <1>1, Zenon DEF HostOK
    <2> HIDE DEF key
    <2>4. /\ DOMAIN reqs = DOMAIN old \cup {key}
          /\ reqs[key] = n
          /\ \A req \in DOMAIN old : reqs[req] = old[req] /\ req # key
          /\ reqs \in [DOMAIN reqs -> 1 .. Len(qs)]
        BY <1>2, <1>6, <2>2, <2>3, Zenon DEF TableOK, Entered
    <2> HIDE DEF qs, reqs
    <2>5. \A m \in 1 .. Len(qs) : qs[m].state = "query" => ~ qs[m].told
        BY <1>1, <1>4, <2>2, Zenon DEF HostOK
    <2>6. TableOK(qs, reqs)
        <3>1. ASSUME NEW m \in 1 .. Len(qs), qs[m].state = "wait", ~ qs[m].told
              PROVE  Req(qs[m]) \in DOMAIN reqs /\ reqs[Req(qs[m])] = m
            <4>1. CASE m = n
                BY <1>4, <2>2, <2>4, <4>1, Zenon
            <4>2. CASE m # n
                <5>1. qs[m] = ps[m] /\ m \in 1 .. Len(ps)
                    BY <2>2, <4>2, Zenon
                <5>2. Req(ps[m]) \in DOMAIN old /\ old[Req(ps[m])] = m
                    BY <2>3, <3>1, <5>1, Zenon DEF TableOK
                <5>3. QED BY <2>4, <5>1, <5>2, Zenon
            <4>3. QED BY <4>1, <4>2, Zenon
        <3>2. ASSUME NEW req \in DOMAIN reqs
              PROVE  /\ Req(qs[reqs[req]]) = req /\ ~ qs[reqs[req]].told
                     /\ qs[reqs[req]].state \in {"wait", "failed"}
            <4>1. CASE req = key
                BY <1>4, <2>2, <2>4, <4>1, Zenon
            <4>2. CASE req \in DOMAIN old
                <5>1. /\ old[req] \in 1 .. Len(ps)
                      /\ Req(ps[old[req]]) = req /\ ~ ps[old[req]].told
                      /\ ps[old[req]].state \in {"wait", "failed"}
                    BY <2>3, <4>2, Zenon DEF TableOK
                <5>2. old[req] # n
                    BY <1>2, <5>1, Zenon
                <5>3. reqs[req] = old[req] /\ qs[old[req]] = ps[old[req]]
                    BY <2>2, <2>4, <4>2, <5>1, <5>2, Zenon
                <5>4. QED BY <5>1, <5>3, Zenon
            <4>3. QED BY <2>4, <4>1, <4>2, Zenon
        <3>3. QED BY <2>4, <3>1, <3>2, Zenon DEF TableOK
    <2>7. Numbered(icmp_seq[h], qs)
        BY <1>1, <1>4, <2>2, Zenon DEF HostOK, Numbered
    <2>8. HostOK(icmp_seq[h], qs, reqs)
        BY <1>1, <2>2, <2>5, <2>6, <2>7, Zenon DEF HostOK
    <2>9. QED BY <1>6, <2>1, <2>8, OneHost, Zenon
<1>7. QED BY <1>5, <1>6, Zenon DEF PingSends

\* A message arrives: the entry of a reply goes and its ping is told.
LEMMA ReceiveStep ==
    ASSUME IInv, NEW h \in Hosts, NEW hdr, IcmpReceive(h, hdr)
    PROVE  IInv'
<1> DEFINE ps == pings[h]
           old == requests[h]
           matches == {req \in DOMAIN old : hdr.type = EchoReply /\ req = << hdr.id, hdr.seq_num >>}
           told == {old[req] : req \in matches}
           qs == Tell(ps, told)
           reqs == Removed(old, matches)
<1>1. HostOK(icmp_seq[h], ps, old)
    BY Zenon DEF IInv
<1>2. /\ requests' = [requests EXCEPT ![h] = reqs]
      /\ pings' = [pings EXCEPT ![h] = qs]
      /\ icmp_seq' = [icmp_seq EXCEPT ![h] = icmp_seq[h]]
    BY Zenon DEF IcmpReceive, IInv
<1>3. matches \subseteq DOMAIN old
    BY Zenon
<1>4. \A n : n \in told <=> \E req \in matches : n = old[req]
    BY Zenon
<1> HIDE DEF matches, told
<1>5. ps \in Seq(Pings) /\ TableOK(ps, old) /\ Numbered(icmp_seq[h], ps)
      /\ \A n \in 1 .. Len(ps) : ps[n].state = "query" => ~ ps[n].told
    BY <1>1, Zenon DEF HostOK
<1>6. \A n \in 1 .. Len(ps) : ps[n] \in Pings
    BY <1>5
<1>7. ASSUME NEW p \in Pings
      PROVE  LET q == [p EXCEPT !.told = TRUE]
             IN  /\ q \in Pings /\ q.state = p.state /\ q.seq_num = p.seq_num
                 /\ Req(q) = Req(p) /\ q.told
    BY Zenon DEF Pings, Req
<1>8. /\ qs = [n \in 1 .. Len(ps) |-> qs[n]] /\ Len(ps) \in Nat
      /\ \A n \in 1 .. Len(ps) : /\ n \in told => qs[n] = [ps[n] EXCEPT !.told = TRUE]
                                 /\ n \notin told => qs[n] = ps[n]
    BY <1>5 DEF Tell
<1>9. \A n \in 1 .. Len(ps) :
        /\ qs[n] \in Pings /\ qs[n].state = ps[n].state /\ qs[n].seq_num = ps[n].seq_num
        /\ Req(qs[n]) = Req(ps[n]) /\ (qs[n].told <=> (ps[n].told \/ n \in told))
    <2> SUFFICES ASSUME NEW n \in 1 .. Len(ps)
                 PROVE  /\ qs[n] \in Pings /\ qs[n].state = ps[n].state
                        /\ qs[n].seq_num = ps[n].seq_num /\ Req(qs[n]) = Req(ps[n])
                        /\ qs[n].told <=> (ps[n].told \/ n \in told)
        BY Zenon
    <2> HIDE DEF qs
    <2> DEFINE p == ps[n]
               q == [p EXCEPT !.told = TRUE]
    <2>0. p \in Pings
        BY <1>6, Zenon
    <2>1. CASE n \in told
        <3>1. qs[n] = q
            BY <1>8, <2>1, SMTT(30)
        <3>2. /\ q \in Pings /\ q.state = p.state /\ q.seq_num = p.seq_num
              /\ Req(q) = Req(p) /\ q.told
            BY <1>7, <2>0, Zenon
        <3> HIDE DEF q
        <3>3. QED BY <2>1, <3>1, <3>2, Zenon
    <2>2. CASE n \notin told
        <3>1. qs[n] = p
            BY <1>8, <2>2, Zenon
        <3>2. QED BY <2>0, <2>2, <3>1, Zenon DEF Pings
    <2>3. QED BY <2>1, <2>2, Zenon
<1>10. qs \in Seq(Pings) /\ Len(qs) = Len(ps)
    <2> HIDE DEF qs
    <2>1. qs \in [1 .. Len(ps) -> Pings]
        BY <1>8, <1>9, Zenon
    <2>2. QED BY <1>8, <2>1
<1> HIDE DEF qs
<1>11. /\ DOMAIN reqs = DOMAIN old \ matches
       /\ \A req \in DOMAIN reqs : reqs[req] = old[req]
       /\ reqs \in [DOMAIN reqs -> 1 .. Len(qs)]
    BY <1>5, <1>10, Zenon DEF Removed, TableOK
<1> HIDE DEF reqs
<1>12. \A req \in DOMAIN old : old[req] \in told => req \in matches
    <2>1. \A r1, r2 \in DOMAIN old : old[r1] = old[r2] => r1 = r2
        BY <1>5, Zenon DEF TableOK
    <2>2. QED BY <1>3, <1>4, <2>1
<1>13. \A n \in 1 .. Len(qs) : qs[n].state = "query" => ~ qs[n].told
    <2>1. ASSUME NEW n \in 1 .. Len(ps), n \in told PROVE ps[n].state # "query"
        BY <1>3, <1>4, <1>5, <2>1 DEF TableOK
    <2>2. QED BY <1>5, <1>9, <1>10, <2>1, Zenon
<1>14. TableOK(qs, reqs)
    <2>1. ASSUME NEW n \in 1 .. Len(qs), qs[n].state = "wait", ~ qs[n].told
          PROVE  Req(qs[n]) \in DOMAIN reqs /\ reqs[Req(qs[n])] = n
        <3>1. /\ n \in 1 .. Len(ps) /\ Req(qs[n]) = Req(ps[n]) /\ n \notin told
              /\ ps[n].state = "wait" /\ ~ ps[n].told
            BY <1>9, <1>10, <2>1, Zenon
        <3>2. Req(ps[n]) \in DOMAIN old /\ old[Req(ps[n])] = n
            BY <1>5, <3>1, Zenon DEF TableOK
        <3>3. Req(ps[n]) \notin matches
            BY <1>4, <3>1, <3>2, Zenon
        <3>4. QED BY <1>11, <3>1, <3>2, <3>3, Zenon
    <2>2. ASSUME NEW req \in DOMAIN reqs
          PROVE  /\ Req(qs[reqs[req]]) = req /\ ~ qs[reqs[req]].told
                 /\ qs[reqs[req]].state \in {"wait", "failed"}
        <3>1. /\ req \in DOMAIN old /\ req \notin matches /\ reqs[req] = old[req]
            BY <1>11, Zenon
        <3>2. /\ old[req] \in 1 .. Len(ps) /\ old[req] \notin told
              /\ Req(ps[old[req]]) = req /\ ~ ps[old[req]].told
              /\ ps[old[req]].state \in {"wait", "failed"}
            BY <1>5, <1>12, <3>1, Zenon DEF TableOK
        <3>3. QED BY <1>9, <3>1, <3>2, Zenon
    <2>3. QED BY <1>11, <2>1, <2>2, Zenon DEF TableOK
<1>15. Numbered(icmp_seq[h], qs)
    BY <1>5, <1>9, <1>10, Zenon DEF Numbered
<1>16. HostOK(icmp_seq[h], qs, reqs)
    BY <1>1, <1>10, <1>13, <1>14, <1>15, Zenon DEF HostOK
<1>17. QED BY <1>2, <1>16, OneHost, Zenon

\* IInv is inductive.
LEMMA NextIInv ==
    ASSUME IInv, [IcmpNext \/ \E h \in Hosts, hdr \in Headers : IcmpReceive(h, hdr)]_icmp
    PROVE  IInv'
<1>1. CASE UNCHANGED icmp
    BY <1>1, Zenon DEF icmp, IInv
<1>2. ASSUME NEW h \in Hosts, NEW n \in DOMAIN pings[h],
             PingQueryFails(h, n) \/ PingEnds(h, n) \/ PingTimeout(h, n)
      PROVE  IInv'
    BY <1>2, StateStep, Zenon DEF PingQueryFails, PingEnds, PingTimeout
<1>3. ASSUME NEW h \in Hosts, EchoAnswers(h) \/ EchoQueryFails(h) PROVE IInv'
    BY <1>3, Zenon DEF EchoAnswers, EchoQueryFails, IInv
<1>4. QED BY <1>1, <1>2, <1>3, PingStep, SendStep, ReceiveStep, Zenon DEF IcmpNext

\* Every reachable state satisfies the inductive invariant.
THEOREM Invariance == IcmpSpec => []IInv
    BY InitIInv, NextIInv, PTL DEF IcmpSpec

\* Whatever arrives, a ping that waits is in the table under its own request,
\* and every entry belongs to a ping that waits or has given up.
THEOREM TableAgrees == IcmpSpec => []RequestsMatchPings
<1>1. ASSUME IInv PROVE RequestsMatchPings
    <2>1. \A h \in Hosts : DOMAIN pings[h] = 1 .. Len(pings[h]) /\ TableOK(pings[h], requests[h])
        BY <1>1 DEF IInv, HostOK
    <2>2. QED BY <2>1, Zenon DEF RequestsMatchPings, TableOK
<1>2. QED BY <1>1, Invariance, PTL

\* The assertion of icmpv4/peer.rs:247 holds for the first SeqNums pings of a
\* host, whatever their identifiers and whether they were answered.
THEOREM AssertionHolds == IcmpSpec => []EntryFree
<1>1. ASSUME IInv PROVE EntryFree
    <2> SUFFICES ASSUME NEW h \in Hosts, NEW n \in DOMAIN pings[h], Len(pings[h]) <= SeqNums,
                        pings[h][n].state = "query", Req(pings[h][n]) \in DOMAIN requests[h]
                 PROVE  FALSE
        BY Zenon DEF EntryFree
    <2> DEFINE ps == pings[h]
               m == requests[h][Req(ps[n])]
    <2>1. ps \in Seq(Pings) /\ TableOK(ps, requests[h]) /\ Numbered(icmp_seq[h], ps)
        BY <1>1, Zenon DEF IInv, HostOK
    <2>2. n \in 1 .. Len(ps)
        BY <2>1
    <2>3. m \in 1 .. Len(ps) /\ Req(ps[m]) = Req(ps[n]) /\ ps[m].state # "query"
        BY <2>1, Zenon DEF TableOK
    <2> HIDE DEF m
    <2>4. ps[m].seq_num = ps[n].seq_num
        BY <2>3, Zenon DEF Req
    <2>5. ps[m].seq_num = m - 1 /\ ps[n].seq_num = n - 1
        <3>1. \A i \in 1 .. Len(ps) : i <= SeqNums
            BY <2>1, SeqNumsPositive
        <3>2. QED BY <2>1, <2>2, <2>3, <3>1, Zenon DEF Numbered
    <2>6. m = n
        <3>1. m \in Int /\ n \in Int
            BY <2>2, <2>3
        <3>2. m - 1 = n - 1
            BY <2>4, <2>5, Zenon
        <3>3. QED BY <3>1, <3>2
    <2>7. QED BY <2>3, <2>6, Zenon
<1>2. QED BY <1>1, Invariance, PTL

-----------------------------------------------------------------------------
(* What the stack writes it reads, and what was damaged in one word of a   *)
(* header it does not read, for every value of the fields.                 *)
(*                                                                         *)
(* The checksums are sums of words modulo 0xffff, so that 0 and 0xffff are *)
(* the same to them: a word that turns from one into the other is beyond   *)
(* them (Differs).  What Sum computes of a sequence needs an induction     *)
(* that is left to the runs of InetStack; here a sum of data is any number.*)

\* A word has become another one, and not the other zero.
Differs(x, y) == x # y /\ ~ (x = 0 /\ y = 65535) /\ ~ (x = 65535 /\ y = 0)

\* w became v by a change of word i.
OneWord(w, v, i) ==
    /\ Len(v) = Len(w) /\ Differs(w[i], v[i])
    /\ \A j \in 1 .. Len(w) : j # i => v[j] = w[j]

\* The result of a checksum is a word, but never 0xffff, which Ipv4Header::parse
\* refuses.
THEOREM ChecksumRange ==
    ASSUME NEW sum \in Nat
    PROVE  Complement(sum) \in Nat /\ Complement(sum) <= 65534
    BY DEF Complement

\* A change of one summand changes the checksum.
THEOREM ChecksumDetects ==
    ASSUME NEW rest \in Nat, NEW x \in Words, NEW y \in Words, Differs(x, y)
    PROVE  Complement(rest + x) # Complement(rest + y)
<1>1. /\ x \in Nat /\ y \in Nat /\ x <= 65535 /\ y <= 65535
    <2>1. x \in Nat /\ y \in Nat /\ x <= MAX_U16 /\ y <= MAX_U16
        BY DEF Words
    <2>2. QED BY <2>1 DEF MAX_U16
<1>2. x - y # 0 /\ x - y < 65535 /\ y - x < 65535
    BY <1>1 DEF Differs
<1>3. (rest + x + 65534) % 65535 # (rest + y + 65534) % 65535
    BY <1>1, <1>2
<1>4. QED BY <1>1, <1>3 DEF Complement

\* A change of one summand, as it meets the checksums below: the sums of both
\* buffers are the same rest and the word.
LEMMA SumsDiffer ==
    ASSUME NEW s \in Nat, NEW t \in Int, NEW x \in Words, NEW y \in Words, Differs(x, y),
           x <= s, t = s - x + y
    PROVE  Complement(s) # Complement(t)
<1>1. x \in Nat /\ y \in Nat
    BY DEF Words
<1>2. /\ s - x \in Nat /\ s = (s - x) + x /\ t = (s - x) + y
    BY <1>1
<1>3. Complement((s - x) + x) # Complement((s - x) + y)
    BY <1>2, ChecksumDetects, Zenon
<1>4. QED BY <1>2, <1>3, Zenon

\* The words of a buffer are numbers.
LEMMA WordsAreNat ==
    ASSUME NEW w \in Seq(Words), NEW n \in Nat, n <= Len(w)
    PROVE  \A j \in 1 .. n : w[j] \in Words /\ w[j] \in Nat /\ j \in 1 .. Len(w)
<1>1. \A j \in 1 .. n : j \in 1 .. Len(w)
    OBVIOUS
<1>2. \A j \in 1 .. n : w[j] \in Words
    BY <1>1
<1>3. \A x \in Words : x \in Nat
    BY DEF Words
<1>4. QED BY <1>1, <1>2, <1>3, Zenon

-----------------------------------------------------------------------------
(* IPv4. *)

\* The words that Ipv4Header::compute_checksum adds, and their sum.
Ipv4Summed == {1, 2, 3, 4, 5, 7, 8, 9, 10}
Ipv4Sum(u) == u[1] + u[2] + u[3] + u[4] + u[5] + u[7] + u[8] + u[9] + u[10]

\* Changing one word that Ipv4Header::compute_checksum adds changes the sum by
\* the difference.
LEMMA Ipv4SumChanges ==
    ASSUME NEW w, NEW v, NEW i, i \in Ipv4Summed,
           \A j \in Ipv4Summed : w[j] \in Nat /\ v[j] \in Nat,
           \A j \in Ipv4Summed : j # i => v[j] = w[j]
    PROVE  /\ Ipv4Sum(w) \in Nat /\ Ipv4Sum(v) \in Int
           /\ w[i] <= Ipv4Sum(w) /\ Ipv4Sum(v) = Ipv4Sum(w) - w[i] + v[i]
<1>1. /\ w[1] \in Nat /\ w[2] \in Nat /\ w[3] \in Nat /\ w[4] \in Nat /\ w[5] \in Nat
      /\ w[7] \in Nat /\ w[8] \in Nat /\ w[9] \in Nat /\ w[10] \in Nat /\ v[i] \in Nat
    BY Zenon DEF Ipv4Summed
<1>2. CASE i = 1
    <2>1. /\ v[2] = w[2] /\ v[3] = w[3] /\ v[4] = w[4] /\ v[5] = w[5]
          /\ v[7] = w[7] /\ v[8] = w[8] /\ v[9] = w[9] /\ v[10] = w[10]
        BY <1>2 DEF Ipv4Summed
    <2>2. QED BY <1>1, <1>2, <2>1 DEF Ipv4Sum
<1>3. CASE i = 2
    <2>1. /\ v[1] = w[1] /\ v[3] = w[3] /\ v[4] = w[4] /\ v[5] = w[5]
          /\ v[7] = w[7] /\ v[8] = w[8] /\ v[9] = w[9] /\ v[10] = w[10]
        BY <1>3 DEF Ipv4Summed
    <2>2. QED BY <1>1, <1>3, <2>1 DEF Ipv4Sum
<1>4. CASE i = 3
    <2>1. /\ v[1] = w[1] /\ v[2] = w[2] /\ v[4] = w[4] /\ v[5] = w[5]
          /\ v[7] = w[7] /\ v[8] = w[8] /\ v[9] = w[9] /\ v[10] = w[10]
        BY <1>4 DEF Ipv4Summed
    <2>2. QED BY <1>1, <1>4, <2>1 DEF Ipv4Sum
<1>5. CASE i = 4
    <2>1. /\ v[1] = w[1] /\ v[2] = w[2] /\ v[3] = w[3] /\ v[5] = w[5]
          /\ v[7] = w[7] /\ v[8] = w[8] /\ v[9] = w[9] /\ v[10] = w[10]
        BY <1>5 DEF Ipv4Summed
    <2>2. QED BY <1>1, <1>5, <2>1 DEF Ipv4Sum
<1>6. CASE i = 5
    <2>1. /\ v[1] = w[1] /\ v[2] = w[2] /\ v[3] = w[3] /\ v[4] = w[4]
          /\ v[7] = w[7] /\ v[8] = w[8] /\ v[9] = w[9] /\ v[10] = w[10]
        BY <1>6 DEF Ipv4Summed
    <2>2. QED BY <1>1, <1>6, <2>1 DEF Ipv4Sum
<1>7. CASE i = 7
    <2>1. /\ v[1] = w[1] /\ v[2] = w[2] /\ v[3] = w[3] /\ v[4] = w[4]
          /\ v[5] = w[5] /\ v[8] = w[8] /\ v[9] = w[9] /\ v[10] = w[10]
        BY <1>7 DEF Ipv4Summed
    <2>2. QED BY <1>1, <1>7, <2>1 DEF Ipv4Sum
<1>8. CASE i = 8
    <2>1. /\ v[1] = w[1] /\ v[2] = w[2] /\ v[3] = w[3] /\ v[4] = w[4]
          /\ v[5] = w[5] /\ v[7] = w[7] /\ v[9] = w[9] /\ v[10] = w[10]
        BY <1>8 DEF Ipv4Summed
    <2>2. QED BY <1>1, <1>8, <2>1 DEF Ipv4Sum
<1>9. CASE i = 9
    <2>1. /\ v[1] = w[1] /\ v[2] = w[2] /\ v[3] = w[3] /\ v[4] = w[4]
          /\ v[5] = w[5] /\ v[7] = w[7] /\ v[8] = w[8] /\ v[10] = w[10]
        BY <1>9 DEF Ipv4Summed
    <2>2. QED BY <1>1, <1>9, <2>1 DEF Ipv4Sum
<1>10. CASE i = 10
    <2>1. /\ v[1] = w[1] /\ v[2] = w[2] /\ v[3] = w[3] /\ v[4] = w[4]
          /\ v[5] = w[5] /\ v[7] = w[7] /\ v[8] = w[8] /\ v[9] = w[9]
        BY <1>10 DEF Ipv4Summed
    <2>2. QED BY <1>1, <1>10, <2>1 DEF Ipv4Sum
<1>11. QED BY <1>2, <1>3, <1>4, <1>5, <1>6, <1>7, <1>8, <1>9, <1>10, Zenon DEF Ipv4Summed

\* Ipv4Header::parse refuses a header with one changed word, whichever it is,
\* though it does not read all of them (datagram.rs:222).
THEOREM Ipv4DamageRejected ==
    ASSUME NEW buf, NEW bad, buf.w \in Seq(Words), bad.w \in Seq(Words), 10 <= Len(buf.w),
           NEW i \in 1 .. 10, OneWord(buf.w, bad.w, i), ~ Ipv4_rejects(buf)
    PROVE  Ipv4_rejects(bad)
<1> DEFINE w == buf.w
           v == bad.w
<1>1. w[6] = Ipv4_checksum(w)
    BY DEF Ipv4_rejects
<1>2. \A u : Ipv4_checksum(u) = Complement(Ipv4Sum(u))
    BY Zenon DEF Ipv4_checksum, Ipv4Sum
<1>3. /\ \A j \in 1 .. 10 : w[j] \in Words /\ w[j] \in Nat /\ j \in 1 .. Len(w)
      /\ \A j \in 1 .. 10 : v[j] \in Words /\ v[j] \in Nat
      /\ \A j \in 1 .. 10 : j # i => v[j] = w[j]
      /\ Differs(w[i], v[i])
    <2>1. Len(v) = Len(w)
        BY Zenon DEF OneWord
    <2>2. \A j \in 1 .. 10 : w[j] \in Words /\ w[j] \in Nat /\ j \in 1 .. Len(w)
        BY WordsAreNat, SMTT(30)
    <2>3. \A j \in 1 .. 10 : v[j] \in Words /\ v[j] \in Nat
        BY <2>1, WordsAreNat, Zenon
    <2>4. QED BY <2>2, <2>3, Zenon DEF OneWord
<1>4. v[6] # Ipv4_checksum(v)
    <2>1. CASE i = 6
        <3>1. Ipv4Sum(v) = Ipv4Sum(w)
            BY <1>3, <2>1 DEF Ipv4Sum
        <3>2. v[6] # w[6]
            BY <1>3, <2>1 DEF Differs
        <3>3. QED BY <1>1, <1>2, <3>1, <3>2, Zenon
    <2>2. CASE i # 6
        <3>1. v[6] = w[6]
            BY <1>3, <2>2
        <3>2. /\ Ipv4Sum(w) \in Nat /\ Ipv4Sum(v) \in Int
              /\ w[i] <= Ipv4Sum(w) /\ Ipv4Sum(v) = Ipv4Sum(w) - w[i] + v[i]
            <4>1. i \in Ipv4Summed
                BY <2>2 DEF Ipv4Summed
            <4>2. \A j \in Ipv4Summed : j \in 1 .. 10
                BY DEF Ipv4Summed
            <4>3. \A j \in Ipv4Summed : w[j] \in Nat /\ v[j] \in Nat
                BY <1>3, <4>2, Zenon
            <4>4. \A j \in Ipv4Summed : j # i => v[j] = w[j]
                BY <1>3, <4>2, Zenon
            <4> HIDE DEF w, v
            <4>5. QED BY <4>1, <4>3, <4>4, Ipv4SumChanges, Zenon
        <3>3. w[i] \in Words /\ v[i] \in Words /\ Differs(w[i], v[i])
            BY <1>3, Zenon
        <3>4. Complement(Ipv4Sum(w)) # Complement(Ipv4Sum(v))
            BY <3>2, <3>3, SumsDiffer, Zenon
        <3>5. QED BY <1>1, <1>2, <3>1, <3>4, Zenon
    <2>3. QED BY <2>1, <2>2, Zenon
<1>5. QED BY <1>4 DEF Ipv4_rejects

\* A number in its byte is read back from it.
LEMMA LowByte ==
    ASSUME NEW p \in Nat, p < 256
    PROVE  (255 * 256 + p) \div 256 = 255 /\ (255 * 256 + p) % 256 = p
    OBVIOUS

\* What serialize writes for a datagram that fits its length field, parse reads
\* back with the length of the payload, whatever follows the header: no header
\* of the stack meets a rule of parse, not the one against a checksum of 0xffff
\* (datagram.rs:219) either.
THEOREM Ipv4WrittenIsRead ==
    ASSUME NEW hdr, NEW n \in Nat, 20 + n <= MAX_U16, NEW buf, buf.len \in Nat, 20 + n <= buf.len,
           hdr = Ipv4Header(<< hdr.src_addr[1], hdr.src_addr[2] >>,
                            << hdr.dst_addr[1], hdr.dst_addr[2] >>, hdr.protocol),
           hdr.protocol \in {IpProtocol.ICMPv4, IpProtocol.TCP, IpProtocol.UDP},
           hdr.src_addr[1] \in Nat, hdr.src_addr[2] \in Nat,
           hdr.dst_addr[1] \in Nat, hdr.dst_addr[2] \in Nat,
           \A j \in 1 .. 10 : buf.w[j] = Ipv4_serialize(hdr, n)[j]
    PROVE  Ipv4_parse(buf) = {[hdr |-> hdr, payload |-> Slice(buf, 10, n)]}
<1> DEFINE w == buf.w
           u == << 4 * 4096 + 5 * 256, (20 + n) % 65536, 0, 2 * 8192,
                   255 * 256 + hdr.protocol, 0, hdr.src_addr[1], hdr.src_addr[2],
                   hdr.dst_addr[1], hdr.dst_addr[2] >>
<1>1. hdr.protocol \in Nat /\ hdr.protocol < 256
    BY DEF IpProtocol
<1>2. Ipv4_serialize(hdr, n) = [u EXCEPT ![6] = Ipv4_checksum(u)]
    BY DEF Ipv4_serialize
<1>3. /\ w[1] = 17664 /\ w[2] = 20 + n /\ w[3] = 0 /\ w[4] = 16384
      /\ w[5] = 65280 + hdr.protocol
      /\ w[6] = Ipv4_checksum(u)
      /\ w[7] = hdr.src_addr[1] /\ w[8] = hdr.src_addr[2]
      /\ w[9] = hdr.dst_addr[1] /\ w[10] = hdr.dst_addr[2]
    <2>1. (20 + n) % 65536 = 20 + n
        BY DEF MAX_U16
    <2>2. QED BY <1>2, <2>1
<1>4. Ipv4_checksum(u) = Ipv4_checksum(w)
    <2>1. /\ u[1] = 17664 /\ u[2] = 20 + n /\ u[3] = 0 /\ u[4] = 16384
          /\ u[5] = 65280 + hdr.protocol
          /\ u[7] = hdr.src_addr[1] /\ u[8] = hdr.src_addr[2]
          /\ u[9] = hdr.dst_addr[1] /\ u[10] = hdr.dst_addr[2]
        BY DEF MAX_U16
    <2> HIDE DEF u, w
    <2>2. QED BY <1>3, <2>1 DEF Ipv4_checksum
<1>5. w[6] = Ipv4_checksum(w) /\ w[6] # 65535
    <2>1. Ipv4Sum(w) \in Nat
        BY <1>1, <1>3 DEF Ipv4Sum
    <2>2. Ipv4_checksum(w) = Complement(Ipv4Sum(w))
        BY Zenon DEF Ipv4_checksum, Ipv4Sum
    <2>3. QED BY <1>3, <1>4, <2>1, <2>2, ChecksumRange
<1>6. w[5] \div 256 = 255 /\ w[5] % 256 = hdr.protocol
    BY <1>1, <1>3, LowByte
<1>7. ~ Ipv4_rejects(buf)
    BY <1>3, <1>5, <1>6 DEF Ipv4_rejects
<1>8. QED BY <1>3, <1>6, <1>7 DEF Ipv4_parse

=============================================================================
