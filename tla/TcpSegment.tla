------------------------------ MODULE TcpSegment ------------------------------
(***************************************************************************)
(* TCP headers and their options as bytes (tcp/segment.rs).                *)
(*                                                                         *)
(* A header is a record of its fields.  The flags nobody reads (ns, cwr,   *)
(* ece, urg, psh) are never set and the urgent pointer is zero.  An option *)
(* is its kind and its value: a number for the segment size and the window *)
(* scale, the words that follow kind and length for the others.            *)
(***************************************************************************)
EXTENDS Framing

MIN_TCP_HEADER_SIZE == 20
MAX_TCP_OPTIONS == 5

NoOperation == [kind |-> 1, value |-> << >>]
MaximumSegmentSize(mss) == [kind |-> 2, value |-> mss]
WindowScale(scale) == [kind |-> 3, value |-> scale]
SackPermitted == [kind |-> 4, value |-> << >>]
Timestamp(words) == [kind |-> 8, value |-> words]

\* A segment without flags, options and data (TcpHeader::new).
TcpHeader(src_port, dst_port) ==
    [src_port |-> src_port, dst_port |-> dst_port, seq_num |-> 0, ack_num |-> 0,
     ack |-> FALSE, rst |-> FALSE, syn |-> FALSE, fin |-> FALSE, window_size |-> 0,
     options |-> << >>]

----------------------------------------------------------------------------
(* Bytes and words. *)

Octets(words) == [i \in 1 .. (2 * Len(words)) |->
                    IF i % 2 = 1 THEN words[(i + 1) \div 2] \div 256 ELSE words[i \div 2] % 256]

FromOctets(octets) == [i \in 1 .. (Len(octets) \div 2) |-> 256 * octets[2 * i - 1] + octets[2 * i]]

U32(n) == << n \div 65536, n % 65536 >>
FromU32(hi, lo) == 65536 * hi + lo

Flag(set, weight) == IF set THEN weight ELSE 0

----------------------------------------------------------------------------
(* Writing. *)

Option_serialize(option) ==
    CASE option.kind = 1 -> << 1 >>
      [] option.kind = 2 -> << 2, 4 >> \o Octets(<< option.value >>)
      [] option.kind = 3 -> << 3, 3, option.value >>
      [] OTHER -> << option.kind, 2 + 2 * Len(option.value) >> \o Octets(option.value)

\* The options, the end of the list if there are any, and zeros up to a
\* multiple of four bytes.
Options_serialize(options) ==
    LET written[i \in 0 .. Len(options)] ==
            IF i = 0 THEN << >> ELSE written[i - 1] \o Option_serialize(options[i])
        octets == written[Len(options)]
        size == IF options = << >> THEN 0 ELSE ((Len(octets) + 4) \div 4) * 4
    IN  octets \o [i \in 1 .. (size - Len(octets)) |-> 0]

\* TcpHeader::compute_size.
Tcp_size(hdr) == MIN_TCP_HEADER_SIZE + Len(Options_serialize(hdr.options))

\* Mutant: the sequence number is left out of the checksum.
Tcp_checksum_no_seq(ipv4_hdr, w, length) ==
    Complement(Pseudo(ipv4_hdr, IpProtocol.TCP, length)
               + w[1] + w[2] + w[5] + w[6] + w[7] + w[8] + w[10] + Sum(After(w, 10)))

\* tcp_checksum over header and data, its own word left out.
Tcp_checksum(ipv4_hdr, w, length) ==
    Complement(Pseudo(ipv4_hdr, IpProtocol.TCP, length)
               + w[1] + w[2] + w[3] + w[4] + w[5] + w[6] + w[7] + w[8] + w[10]
               + Sum(After(w, 10)))

Tcp_serialize(hdr, ipv4_hdr, data, tx_checksum_offload) ==
    LET flags == Flag(hdr.ack, 16) + Flag(hdr.rst, 4) + Flag(hdr.syn, 2) + Flag(hdr.fin, 1)
        w == << hdr.src_port, hdr.dst_port >> \o U32(hdr.seq_num) \o U32(hdr.ack_num)
             \o << (Tcp_size(hdr) \div 4) * 4096 + flags, hdr.window_size, 0, 0 >>
             \o FromOctets(Options_serialize(hdr.options))
    IN  [w EXCEPT ![9] = IF tx_checksum_offload THEN 0
                         ELSE Tcp_checksum(ipv4_hdr, w \o data.w, Tcp_size(hdr) + data.len)]

----------------------------------------------------------------------------
(* Reading. *)

\* The length an option of this kind must announce; a SACK has one to four
\* blocks.
Option_lengths(kind) ==
    CASE kind = 2 -> {4} [] kind = 3 -> {3} [] kind = 4 -> {2}
      [] kind = 5 -> {10, 18, 26, 34} [] kind = 8 -> {10} [] OTHER -> {}

Option_value(kind, octets) ==
    CASE kind = 2 -> FromOctets(octets)[1]
      [] kind = 3 -> octets[1]
      [] OTHER -> FromOctets(octets)

\* Mutant: a no-operation ends the list as the end marker does.
Options_parse_stops_at_nop(octets) ==
    LET size == Len(octets)
        from[i \in 1 .. (size + 1)] ==
            IF i > size \/ octets[i] \in {0, 1} THEN {<< >>}
            ELSE IF i = size \/ octets[i + 1] \notin Option_lengths(octets[i]) THEN {}
            ELSE IF i + octets[i + 1] - 1 > size THEN {}
            ELSE {<< [kind |-> octets[i],
                      value |-> Option_value(octets[i], SubSeq(octets, i + 2, i + octets[i + 1] - 1))] >>
                  \o rest : rest \in from[i + octets[i + 1]]}
    IN  {options \in from[1] : Len(options) <= MAX_TCP_OPTIONS}

\* The options found from byte i on: 0 ends the list, 1 is skipped, and an
\* unknown kind, a wrong length, a cut off or a sixth option is an error.
Options_parse(octets) ==
    LET size == Len(octets)
        from[i \in 1 .. (size + 1)] ==
            IF i > size \/ octets[i] = 0 THEN {<< >>}
            ELSE IF octets[i] = 1 THEN from[i + 1]
            ELSE IF i = size \/ octets[i + 1] \notin Option_lengths(octets[i]) THEN {}
            ELSE IF i + octets[i + 1] - 1 > size THEN {}
            ELSE {<< [kind |-> octets[i],
                      value |-> Option_value(octets[i], SubSeq(octets, i + 2, i + octets[i + 1] - 1))] >>
                  \o rest : rest \in from[i + octets[i + 1]]}
    IN  {options \in from[1] : Len(options) <= MAX_TCP_OPTIONS}

Tcp_parse(ipv4_hdr, buf, rx_checksum_offload) ==
    LET data_offset == (buf.w[7] \div 4096) * 4
        bit(weight) == (buf.w[7] \div weight) % 2 = 1
        option_octets == Octets(SubSeq(buf.w, 11, data_offset \div 2))
    IN  IF \/ buf.len < MIN_TCP_HEADER_SIZE
           \/ buf.len < data_offset
           \/ data_offset < MIN_TCP_HEADER_SIZE
           \/ ~ rx_checksum_offload /\ buf.w[9] # Tcp_checksum(ipv4_hdr, buf.w, buf.len)
        THEN {}
        ELSE {[hdr |-> [src_port |-> buf.w[1], dst_port |-> buf.w[2],
                        seq_num |-> FromU32(buf.w[3], buf.w[4]),
                        ack_num |-> FromU32(buf.w[5], buf.w[6]),
                        ack |-> bit(16), rst |-> bit(4), syn |-> bit(2), fin |-> bit(1),
                        window_size |-> buf.w[8], options |-> options],
               data |-> Slice(buf, data_offset \div 2, buf.len - data_offset)] :
              options \in Options_parse(option_octets)}

=============================================================================
