-------------------------------- MODULE Link --------------------------------
(***************************************************************************)
(* Two hosts and the frames on their way between them.  A host hands a     *)
(* frame to the network as bytes (NetworkRuntime::transmit) and takes one  *)
(* from it as bytes (do_receive of lib.rs, Peer::receive of                *)
(* protocols/peer.rs).                                                     *)
(*                                                                         *)
(* The network may lose, repeat, reorder and damage frames, as far as its  *)
(* budget goes.  Frames that are on their way do not have an order.  Two   *)
(* equal ones are one; that both arrive is a repetition.                   *)
(*                                                                         *)
(* budget also bounds what the applications ask for, the ARP queries that  *)
(* fail and the timers that expire.  A behaviour starts with one of the    *)
(* Scenes, so that the state space is the sum of theirs.                   *)
(***************************************************************************)
EXTENDS TcpSegment

CONSTANTS
    Scenes,     \* the budgets a behaviour may start with
    Errors      \* what damage adds to a word of a frame

\* A word that is changed by 0xffff is the other zero of the one's complement
\* sum: 0 and 0xffff look alike to every checksum.
ASSUME LinkAssumption == Errors \subseteq 2 .. 65534

Hosts == {"a", "b"}
Peer(h) == IF h = "a" THEN "b" ELSE "a"

local_link_addr(h) == IF h = "a" THEN << 4660, 22136, 1 >> ELSE << 4660, 22136, 2 >>
local_ipv4_addr(h) == IF h = "a" THEN << 49320, 257 >> ELSE << 49320, 258 >>

VARIABLES
    wire,     \* frames on their way
    budget,   \* what may still happen
    cached,   \* hosts whose ARP cache knows the other host
    failed    \* hosts whose process has panicked

link == << wire, budget, cached, failed >>

LinkInit == wire = {} /\ budget \in Scenes /\ cached = {} /\ failed = {}

Running(h) == h \notin failed

Spend(kind) == budget[kind] > 0 /\ budget' = [budget EXCEPT ![kind] = @ - 1]

NoData == [len |-> 0, w |-> << >>]

\* ArpPeer::query, when it finds the entry or is answered: the host that
\* answers learns of the one that asks.  Arp shows that the answer is true.
Resolved(h) == \/ h \in cached /\ UNCHANGED cached
               \/ h \notin cached /\ Running(Peer(h)) /\ cached' = Hosts

\* A query that is not answered.
Unresolved(h) == h \notin cached /\ Spend("failures")

\* An entry that has expired is dropped when another one is inserted.
Evict(h) ==
    /\ h \in cached
    /\ Spend("evictions")
    /\ cached' = cached \ {h}
    /\ UNCHANGED << wire, failed >>

----------------------------------------------------------------------------
(* Sending.  A frame remembers its receiver, what its sender meant and     *)
(* whether it is still as it was sent; nothing in the receiver reads that. *)

\* The checksums are computed here: no offloading.
Payload(ipv4_hdr, message) ==
    CASE ipv4_hdr.protocol = IpProtocol.ICMPv4 -> Buffer(Icmpv4_serialize(message.hdr))
      [] ipv4_hdr.protocol = IpProtocol.UDP ->
            [len |-> 8 + message.data.len,
             w |-> Udp_serialize(message.hdr, ipv4_hdr, message.data, FALSE) \o message.data.w]
      [] ipv4_hdr.protocol = IpProtocol.TCP ->
            [len |-> Tcp_size(message.hdr) + message.data.len,
             w |-> Tcp_serialize(message.hdr, ipv4_hdr, message.data, FALSE) \o message.data.w]

\* write_header of Icmpv4Message, UdpDatagram and TcpSegment.
Frame(h, message) ==
    LET ipv4_hdr == Ipv4Header(local_ipv4_addr(h), local_ipv4_addr(Peer(h)), message.protocol)
        payload == Payload(ipv4_hdr, message)
    IN  [to |-> Peer(h), intact |-> TRUE, meant |-> message,
         len |-> 34 + payload.len,
         w |-> Ethernet2_serialize(local_link_addr(Peer(h)), local_link_addr(h), EtherTypes.Ipv4)
               \o Ipv4_serialize(ipv4_hdr, payload.len) \o payload.w]

Icmpv4Message(type, id, seq_num) ==
    [protocol |-> IpProtocol.ICMPv4, data |-> NoData,
     hdr |-> [type |-> type, code |-> 0, id |-> id, seq_num |-> seq_num]]

UdpDatagram(src_port, dest_port, data) ==
    [protocol |-> IpProtocol.UDP, data |-> data,
     hdr |-> [src_port |-> src_port, dest_port |-> dest_port]]

Segment(tcp_hdr, data) == [protocol |-> IpProtocol.TCP, data |-> data, hdr |-> tcp_hdr]

----------------------------------------------------------------------------
(* Receiving. *)

\* The header parser of a protocol.
Parse(ipv4_hdr, payload) ==
    CASE ipv4_hdr.protocol = IpProtocol.ICMPv4 ->
            {[hdr |-> hdr, data |-> NoData] : hdr \in Icmpv4_parse(payload)}
      [] ipv4_hdr.protocol = IpProtocol.UDP -> Udp_parse(ipv4_hdr, payload, FALSE)
      [] ipv4_hdr.protocol = IpProtocol.TCP -> Tcp_parse(ipv4_hdr, payload, FALSE)

\* Peer::receive: only what is addressed to this host, or broadcast.
Accepts(h, ipv4_hdr) == ipv4_hdr.dst_addr \in {local_ipv4_addr(h), << 65535, 65535 >>}

Messages(h, p) ==
    IF ~ Accepts(h, p.hdr) THEN {}
    ELSE {[protocol |-> p.hdr.protocol, data |-> m.data, hdr |-> m.hdr] : m \in Parse(p.hdr, p.payload)}

\* What do_receive gives to a protocol of host h: one message, or none.  The
\* link address is not compared.  ARP is left to Arp, and IPv6 is ignored.
Read(h, frame) ==
    UNION {UNION {Messages(h, p) : p \in Ipv4_parse(e.payload)} :
           e \in {e \in Ethernet2_parse(frame) : e.ether_type = EtherTypes.Ipv4}}

----------------------------------------------------------------------------
(* Faults of the network. *)

Lose(frame) ==
    /\ Spend("faults")
    /\ wire' = wire \ {frame}
    /\ UNCHANGED << cached, failed >>

\* Damage behind the Ethernet header, whose checksum protects only one link.
Damage(frame, i, error) ==
    /\ frame.intact
    /\ Spend("damages")
    /\ wire' = (wire \ {frame}) \cup
               {[frame EXCEPT !.w[i] = (@ + error) % 65536, !.intact = FALSE]}
    /\ UNCHANGED << cached, failed >>

\* A frame arrives and stays on its way when the network repeats it.
Takes(frame, rest) ==
    \/ rest = wire \ {frame} /\ UNCHANGED budget
    \/ rest = wire /\ Spend("faults")

=============================================================================
