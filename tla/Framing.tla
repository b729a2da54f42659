------------------------------- MODULE Framing -------------------------------
(***************************************************************************)
(* The conversions between headers and bytes below TCP: Ethernet           *)
(* (ethernet2/frame.rs), IPv4 (ipv4/datagram.rs), ICMPv4                   *)
(* (icmpv4/datagram) and UDP (udp/datagram/header.rs).                     *)
(*                                                                         *)
(* A buffer is its length in bytes and its contents in 16-bit words, as    *)
(* NetworkEndian reads and writes them; the word of a last odd byte has a  *)
(* zero in its low half.  Word i of the specification is bytes 2i-2..2i of *)
(* the code.  A link address is three words and an IPv4 address two.       *)
(*                                                                         *)
(* A parser returns the set of its results: one, or none for an error.     *)
(***************************************************************************)
EXTENDS Integers, Sequences

MAX_U16 == 65535
Words == 0 .. MAX_U16

Buffers == [len : Nat, w : Seq(Words)]

Buffer(words) == [len |-> 2 * Len(words), w |-> words]

\* The len bytes that follow the first skip words: adjust and trim.
Slice(buf, skip, len) ==
    LET half == len \div 2
    IN  [len |-> len,
         w |-> IF len % 2 = 0 THEN SubSeq(buf.w, skip + 1, skip + half)
               ELSE SubSeq(buf.w, skip + 1, skip + half)
                    \o << (buf.w[skip + half + 1] \div 256) * 256 >>]

Sum(words) ==
    LET sum[i \in 0 .. Len(words)] == IF i = 0 THEN 0 ELSE sum[i - 1] + words[i]
    IN  sum[Len(words)]

\* The end of every checksum of the stack: state starts at 0xffff, the loop
\* takes 0xffff off until 16 bits are left, and the result is the complement.
Complement(sum) == 65534 - ((sum + 65534) % 65535)

\* What the checksums of UDP and TCP take from the IPv4 header.
Pseudo(hdr, protocol, length) ==
    hdr.src_addr[1] + hdr.src_addr[2] + hdr.dst_addr[1] + hdr.dst_addr[2] + protocol + length

\* The words behind the first n.
After(w, n) == SubSeq(w, n + 1, Len(w))

----------------------------------------------------------------------------
(* Ethernet2Header. *)

EtherTypes == [Arp |-> 2054, Ipv4 |-> 2048, Ipv6 |-> 34525]

Ethernet2_serialize(dst_addr, src_addr, ether_type) == dst_addr \o src_addr \o << ether_type >>

Ethernet2_parse(buf) ==
    IF buf.len < 14 \/ buf.w[7] \notin {EtherTypes.Arp, EtherTypes.Ipv4, EtherTypes.Ipv6} THEN {}
    ELSE {[dst_addr |-> SubSeq(buf.w, 1, 3), src_addr |-> SubSeq(buf.w, 4, 6),
           ether_type |-> buf.w[7], payload |-> Slice(buf, 7, buf.len - 14)]}

----------------------------------------------------------------------------
(* Ipv4Header.  The fields that new sets and no reader uses (dscp, ecn,    *)
(* identification) are zero; flags is DF.                                  *)

IpProtocol == [ICMPv4 |-> 1, TCP |-> 6, UDP |-> 17]

Ipv4Header(src_addr, dst_addr, protocol) ==
    [src_addr |-> src_addr, dst_addr |-> dst_addr, protocol |-> protocol]

\* compute_checksum: all words of the header but its own.
Ipv4_checksum(w) == Complement(w[1] + w[2] + w[3] + w[4] + w[5] + w[7] + w[8] + w[9] + w[10])

\* The checksum is written last, over its own field.
Ipv4_serialize(hdr, payload_len) ==
    LET w == << 4 * 4096 + 5 * 256, (20 + payload_len) % 65536, 0, 2 * 8192,
                255 * 256 + hdr.protocol, 0,
                hdr.src_addr[1], hdr.src_addr[2], hdr.dst_addr[1], hdr.dst_addr[2] >>
    IN  [w EXCEPT ![6] = Ipv4_checksum(w)]

Ipv4_rejects(buf) ==
    LET version == buf.w[1] \div 4096
        ihl == (buf.w[1] \div 256) % 16
        total_length == buf.w[2]
        flags == buf.w[4] \div 8192
        fragment_offset == buf.w[4] % 8192
        time_to_live == buf.w[5] \div 256
        header_checksum == buf.w[6]
    IN  \/ buf.len < 20
        \/ version # 4
        \/ ihl # 5
        \/ total_length < 20 \/ total_length > buf.len
        \/ flags \in {1, 3, 4, 5, 6, 7}              \* MF or the evil bit
        \/ fragment_offset # 0
        \/ time_to_live = 0
        \/ buf.w[5] % 256 \notin {IpProtocol.ICMPv4, IpProtocol.TCP, IpProtocol.UDP}
        \/ header_checksum = 65535
        \/ header_checksum # Ipv4_checksum(buf.w)

\* Padding behind the total length is cut off.
Ipv4_parse(buf) ==
    IF Ipv4_rejects(buf) THEN {}
    ELSE {[hdr |-> Ipv4Header(<< buf.w[7], buf.w[8] >>, << buf.w[9], buf.w[10] >>, buf.w[5] % 256),
           payload |-> Slice(buf, 10, buf.w[2] - 20)]}

----------------------------------------------------------------------------
(* Icmpv4Header.  Types other than the echo messages carry no fields.      *)

EchoReply == 0
EchoRequest == 8
Icmpv4Types == {EchoReply, 3, 4, 5, EchoRequest, 9, 10, 11, 12, 13, 14}

Icmpv4_checksum(w) == Complement(w[1] + w[3] + w[4] + Sum(After(w, 4)))

Icmpv4_serialize(hdr) ==
    LET w == << hdr.type * 256 + hdr.code, 0, hdr.id, hdr.seq_num >>
    IN  [w EXCEPT ![2] = Icmpv4_checksum(w)]

Icmpv4_parse(buf) ==
    LET type == buf.w[1] \div 256
        echo == type \in {EchoReply, EchoRequest}
    IN  IF buf.len < 8 \/ buf.w[2] # Icmpv4_checksum(buf.w) \/ type \notin Icmpv4Types THEN {}
        ELSE {[type |-> type, code |-> buf.w[1] % 256,
               id |-> IF echo THEN buf.w[3] ELSE 0, seq_num |-> IF echo THEN buf.w[4] ELSE 0]}

----------------------------------------------------------------------------
(* UdpHeader.  With checksum_offload the field is left to the hardware.    *)

Udp_checksum(ipv4_hdr, w, length) ==
    Complement(Pseudo(ipv4_hdr, IpProtocol.UDP, length) + w[1] + w[2] + w[3] + Sum(After(w, 4)))

\* The header of a datagram with the bytes of data.
Udp_serialize(hdr, ipv4_hdr, data, checksum_offload) ==
    LET w == << hdr.src_port, hdr.dest_port, (8 + data.len) % 65536, 0 >> \o data.w
    IN  [SubSeq(w, 1, 4) EXCEPT ![4] =
            IF checksum_offload THEN 0 ELSE Udp_checksum(ipv4_hdr, w, 8 + data.len)]

Udp_parse(ipv4_hdr, buf, checksum_offload) ==
    IF \/ buf.len < 8
       \/ buf.w[3] # buf.len
       \/ ~ checksum_offload /\ buf.w[4] # Udp_checksum(ipv4_hdr, buf.w, buf.len)
    THEN {}
    ELSE {[hdr |-> [src_port |-> buf.w[1], dest_port |-> buf.w[2]],
           data |-> Slice(buf, 4, buf.len - 8)]}

=============================================================================
