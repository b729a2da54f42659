------------------------------ MODULE InetStack ------------------------------
(***************************************************************************)
(* Two hosts that run the stack: pings (Icmpv4Peer), connections (TcpOpen) *)
(* and datagrams over one network (Link), every message as the bytes that  *)
(* are written and parsed (Framing, TcpSegment).                           *)
(*                                                                         *)
(* UdpPeer has the sockets and queues of UDP; here each host has one       *)
(* socket, and a datagram is followed from push to the queue of the other. *)
(***************************************************************************)
EXTENDS Icmpv4Peer, TcpOpen

CONSTANT Datagrams    \* the data the applications send

VARIABLES
    sent,      \* host |-> datagrams pushed
    arrived    \* host |-> datagrams in its receive queue

udp == << sent, arrived >>
vars == << link, icmp, tcp, udp >>

UDP_PORT == 53

UdpInit == sent = [h \in Hosts |-> {}] /\ arrived = [h \in Hosts |-> {}]

\* pushto: at once, or by the background task after its ARP query.
UdpPush(h, data) ==
    /\ Running(h)
    /\ Spend("datagrams")
    /\ Resolved(h)
    /\ wire' = wire \cup {Frame(h, UdpDatagram(UDP_PORT, UDP_PORT, data))}
    /\ sent' = [sent EXCEPT ![h] = @ \cup {data}]
    /\ UNCHANGED << failed, icmp, tcp, arrived >>

\* UdpPeer::do_receive for the bound port.
UdpReceive(h, message) ==
    /\ message.hdr.dest_port = UDP_PORT
    /\ arrived' = [arrived EXCEPT ![h] = @ \cup {message.data}]
    /\ UNCHANGED sent

\* Ipv4Peer::receive.
Dispatch(h, message, rest) ==
    \/ /\ message.protocol = IpProtocol.ICMPv4
       /\ IcmpReceive(h, message.hdr)
       /\ wire' = rest
       /\ UNCHANGED << failed, tcp, udp >>
    \/ /\ message.protocol = IpProtocol.TCP
       /\ TcpReceive(h, message, rest)
       /\ UNCHANGED << icmp, udp >>
    \/ /\ message.protocol = IpProtocol.UDP
       /\ UdpReceive(h, message)
       /\ wire' = rest
       /\ UNCHANGED << failed, icmp, tcp >>

\* poll_bg_work takes a frame from the network; one that cannot be read is
\* dropped with a warning.
Deliver(frame) ==
    LET h == frame.to
        messages == Read(h, frame)
    IN  /\ Running(h)
        /\ \E rest \in {wire \ {frame}, wire} :
              /\ Takes(frame, rest)
              /\ \/ messages = {} /\ wire' = rest /\ UNCHANGED << failed, icmp, tcp, udp >>
                 \/ \E message \in messages : Dispatch(h, message, rest)
        /\ UNCHANGED cached

Faulty(frame) ==
    /\ \/ Lose(frame)
       \/ \E i \in 8 .. (frame.len \div 2), error \in Errors : Damage(frame, i, error)
    /\ UNCHANGED << icmp, tcp, udp >>

Init == LinkInit /\ IcmpInit /\ TcpInit /\ UdpInit

Steps ==
    \/ IcmpNext /\ UNCHANGED << tcp, udp >>
    \/ TcpNext /\ UNCHANGED << icmp, udp >>
    \/ \E h \in Hosts, data \in Datagrams : UdpPush(h, data)
    \/ \E frame \in wire : Deliver(frame) \/ Faulty(frame)
    \/ \E h \in Hosts : Evict(h) /\ UNCHANGED << icmp, tcp, udp >>

\* Something is left to do, in the scenes that promise an end.
Busy ==
    /\ budget.calm \/ budget.prompt
    /\ failed = {}
    /\ \/ wire # {}
       \/ budget.connects + budget.accepts + budget.pings + budget.datagrams > 0
       \/ \E h \in Hosts :
             \/ echoes[h] # << >>
             \/ \E n \in DOMAIN pings[h] :
                   pings[h][n].state = "query" \/ (pings[h][n].state = "wait" /\ pings[h][n].told)
             \/ \E port \in DOMAIN conns[h] :
                   conns[h][port].cb.ack_deadline \/ (CanPush(h, port) /\ budget.pushes > 0)
       \/ \E task \in Range(opens) \cup Range(inflight) :
             task.state = "query" \/ (task.state = "wait" /\ Expires(task.left) /\ budget.timeouts > 0)

Next == Steps \/ (~ Busy /\ UNCHANGED vars)

\* The application keeps calling wait, so that the stack goes on as long as
\* there is something to do: WF_vars(Steps), with Busy for its ENABLED.  That
\* Busy covers it is checked: a state that is Busy and has no step would be a
\* deadlock.
Progress == []<>(~ Busy) \/ []<><<Steps>>_vars

Spec == Init /\ [][Next]_vars /\ Progress

----------------------------------------------------------------------------
(* Properties. *)

\* A reader skips the no-operations of a list of options.
Meaning(message) ==
    IF message.protocol # IpProtocol.TCP THEN message
    ELSE [message EXCEPT !.hdr.options = SelectSeq(@, LAMBDA o : o # NoOperation)]

\* What one host writes the other host reads: the checksums, lengths, offsets
\* and options of the writers are the ones the parsers look for, for every
\* message the stack sends, with odd and even data and whatever the checksum
\* comes to (segment.rs:354, datagram.rs:257, header.rs:114).
WrittenIsRead ==
    \A frame \in wire : frame.intact => Read(frame.to, frame) = {Meaning(frame.meant)}

\* A frame with a word that was changed on its way is dropped, or still means
\* what its sender meant: no field lies outside the checksums (segment.rs:447,
\* datagram.rs:313, header.rs:143).
DamageIsDetected ==
    \A frame \in wire : ~ frame.intact => Read(frame.to, frame) \subseteq {Meaning(frame.meant)}

\* A host fails only when its sequence numbers for pings have wrapped around
\* an entry that timed out (icmpv4/peer.rs:247), or when its ARP entry is gone
\* as the SYN+ACK arrives (active_open.rs:146).
FailsOnlyAsKnown ==
    \A h \in failed : Len(pings[h]) > SeqNums \/ (h = "a" /\ h \notin cached)

\* The bytes of the peer's stream in the receive queue.
Got(h, port) == FoldLeft(LAMBDA n, buf : n + buf.len, 0, conns[h][port].cb.recv_queue)

\* Nothing is left of what the applications asked for.
AllDone ==
    /\ \A h \in Hosts : \A n \in DOMAIN pings[h] : pings[h][n].state = "done"
    /\ \A h \in Hosts : sent[h] = arrived[Peer(h)]
    /\ \A n \in DOMAIN opens : opens[n].state = "established" /\ ClientPort(n) \in DOMAIN conns["b"]
    /\ accepts = 0
    /\ \A h \in Hosts : \A port \in DOMAIN conns[h] :
          conns[h][port].early \/ Got(Peer(h), port) = conns[h][port].pushed


\* One lost segment of the handshake does not keep a connect from completing
\* on both sides when frames arrive before the timers: the SYN and the SYN+ACK
\* are sent again, and a client that is established already answers the second
\* SYN+ACK, though nothing retransmits its ACK (passive_open.rs:287).
HandshakeRecovers ==
    budget.prompt =>
        <>[](\A n \in DOMAIN opens : ClientPort(n) \in DOMAIN conns["a"] \cap DOMAIN conns["b"])

=============================================================================
