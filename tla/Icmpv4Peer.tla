----------------------------- MODULE Icmpv4Peer -----------------------------
(***************************************************************************)
(* The ICMPv4 peer of each host (icmpv4/peer.rs): pings with their request *)
(* table and timeouts, and the background task that answers echo requests. *)
(*                                                                         *)
(* A ping is a future.  It waits for ARP ("query"), then for its reply or  *)
(* the timer ("wait"), and is then "done" or has "failed".  The sequence   *)
(* numbers wrap at SeqNums (2^16 in the code).                             *)
(***************************************************************************)
EXTENDS Link

CONSTANTS
    Ids,        \* identifiers make_id may return: they depend on a random number
    SeqNums     \* how many sequence numbers there are

ASSUME Icmpv4Assumption ==
    /\ Ids \subseteq Words
    /\ SeqNums \in Nat \ {0} /\ SeqNums <= 65536

VARIABLES
    icmp_seq,    \* the next sequence number of each host
    pings,       \* the pings of each host, in the order of the calls
    requests,    \* of each host: (id, seq_num) |-> the ping that is told of the reply
    echoes,      \* the requests waiting for the background task of each host
    echoed       \* history: the requests each host has answered

icmp == << icmp_seq, pings, requests, echoes, echoed >>

IcmpInit ==
    /\ icmp_seq = [h \in Hosts |-> 0]
    /\ pings = [h \in Hosts |-> << >>]
    /\ requests = [h \in Hosts |-> << >>]
    /\ echoes = [h \in Hosts |-> << >>]
    /\ echoed = [h \in Hosts |-> {}]

Req(ping) == << ping.id, ping.seq_num >>

\* The table with one more entry, and without some.
Entered(table, req, n) == [r \in DOMAIN table \cup {req} |-> IF r = req THEN n ELSE table[r]]
Removed(table, reqs) == [r \in DOMAIN table \ reqs |-> table[r]]

\* The channels of some pings are sent the reply.
Tell(ps, told) ==
    [n \in DOMAIN ps |-> IF n \in told THEN [ps[n] EXCEPT !.told = TRUE] ELSE ps[n]]

----------------------------------------------------------------------------
(* Icmpv4Peer::ping. *)


\* The identifier and the sequence number are taken when ping is called.
Ping(h, id) ==
    /\ Running(h)
    /\ Spend("pings")
    /\ pings' = [pings EXCEPT ![h] = Append(@,
            [id |-> id, seq_num |-> icmp_seq[h], state |-> "query", told |-> FALSE])]
    /\ icmp_seq' = [icmp_seq EXCEPT ![h] = (@ + 1) % SeqNums]
    /\ UNCHANGED << wire, cached, failed, requests, echoes, echoed >>

\* ARP has answered.  The request leaves before it is entered in the table; an
\* entry that is there already ends the process.
PingSends(h, n) ==
    LET ping == pings[h][n]
    IN  /\ Running(h)
        /\ ping.state = "query"
        /\ Resolved(h)
        /\ wire' = wire \cup {Frame(h, Icmpv4Message(EchoRequest, ping.id, ping.seq_num))}
        /\ \/ /\ Req(ping) \in DOMAIN requests[h]
              /\ failed' = failed \cup {h}
              /\ UNCHANGED << pings, requests >>
           \/ /\ Req(ping) \notin DOMAIN requests[h]
              /\ requests' = [requests EXCEPT ![h] = Entered(@, Req(ping), n)]
              /\ pings' = [pings EXCEPT ![h][n].state = "wait"]
              /\ UNCHANGED failed
        /\ UNCHANGED << budget, icmp_seq, echoes, echoed >>

PingQueryFails(h, n) ==
    /\ Running(h)
    /\ pings[h][n].state = "query"
    /\ Unresolved(h)
    /\ pings' = [pings EXCEPT ![h][n].state = "failed"]
    /\ UNCHANGED << wire, cached, failed, icmp_seq, requests, echoes, echoed >>

PingEnds(h, n) ==
    /\ Running(h)
    /\ pings[h][n].state = "wait" /\ pings[h][n].told
    /\ pings' = [pings EXCEPT ![h][n].state = "done"]
    /\ UNCHANGED << link, icmp_seq, requests, echoes, echoed >>

\* The entry stays in the table.  A reply that has come is taken before the
\* clock moves (lib.rs:563).
PingTimeout(h, n) ==
    /\ Running(h)
    /\ pings[h][n].state = "wait" /\ ~ pings[h][n].told
    /\ Spend("timeouts")
    /\ pings' = [pings EXCEPT ![h][n].state = "failed"]
    /\ UNCHANGED << wire, cached, failed, icmp_seq, requests, echoes, echoed >>

----------------------------------------------------------------------------
(* Icmpv4Peer::receive and the background task. *)


\* Mutant: the entry of a reply stays in the table.
IcmpReceive_keeps(h, hdr) ==
    LET matches == {req \in DOMAIN requests[h] :
                        hdr.type = EchoReply /\ req = << hdr.id, hdr.seq_num >>}
        told == {requests[h][req] : req \in matches}
    IN  /\ pings' = [pings EXCEPT ![h] = Tell(@, told)]
        /\ echoes' = [echoes EXCEPT ![h] =
                        IF hdr.type = EchoRequest THEN Append(@, << hdr.id, hdr.seq_num >>) ELSE @]
        /\ UNCHANGED << icmp_seq, requests, echoed >>

\* Telling a ping that has given up does nothing.
IcmpReceive(h, hdr) ==
    LET matches == {req \in DOMAIN requests[h] :
                        hdr.type = EchoReply /\ req = << hdr.id, hdr.seq_num >>}
        told == {requests[h][req] : req \in matches}
    IN  /\ requests' = [requests EXCEPT ![h] = Removed(@, matches)]
        /\ pings' = [pings EXCEPT ![h] = Tell(@, told)]
        /\ echoes' = [echoes EXCEPT ![h] =
                        IF hdr.type = EchoRequest THEN Append(@, << hdr.id, hdr.seq_num >>) ELSE @]
        /\ UNCHANGED << icmp_seq, echoed >>

\* The reply goes to the host the request came from.
EchoAnswers(h) ==
    /\ Running(h)
    /\ echoes[h] # << >>
    /\ Resolved(h)
    /\ wire' = wire \cup {Frame(h, Icmpv4Message(EchoReply, Head(echoes[h])[1], Head(echoes[h])[2]))}
    /\ echoes' = [echoes EXCEPT ![h] = Tail(@)]
    /\ echoed' = [echoed EXCEPT ![h] = @ \cup {Head(echoes[h])}]
    /\ UNCHANGED << budget, failed, icmp_seq, pings, requests >>

\* ARP does not answer: the request is forgotten.
EchoQueryFails(h) ==
    /\ Running(h)
    /\ echoes[h] # << >>
    /\ Unresolved(h)
    /\ echoes' = [echoes EXCEPT ![h] = Tail(@)]
    /\ UNCHANGED << wire, cached, failed, icmp_seq, pings, requests, echoed >>

IcmpNext == \E h \in Hosts :
    \/ \E id \in Ids : Ping(h, id)
    \/ \E n \in DOMAIN pings[h] :
          PingSends(h, n) \/ PingQueryFails(h, n) \/ PingEnds(h, n) \/ PingTimeout(h, n)
    \/ EchoAnswers(h)
    \/ EchoQueryFails(h)

----------------------------------------------------------------------------
(* Properties. *)


\* The table of requests agrees with the pings: a ping that waits is entered
\* under its own request until it is told, and an entry of no waiting ping is
\* one that gave up and whose reply did not come (icmpv4/peer.rs:250).
RequestsMatchPings ==
    \A h \in Hosts :
        /\ \A n \in DOMAIN pings[h] :
              (pings[h][n].state = "wait" /\ ~ pings[h][n].told)
              => (Req(pings[h][n]) \in DOMAIN requests[h] /\ requests[h][Req(pings[h][n])] = n)
        /\ \A req \in DOMAIN requests[h] :
              LET ping == pings[h][requests[h][req]]
              IN  Req(ping) = req /\ ~ ping.told /\ ping.state \in {"wait", "failed"}

=============================================================================
