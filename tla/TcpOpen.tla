------------------------------- MODULE TcpOpen -------------------------------
(***************************************************************************)
(* The three-way handshake, segment by segment: host "a" connects          *)
(* (tcp/active_open.rs), host "b" listens (tcp/passive_open.rs), and       *)
(* tcp/peer.rs takes each segment to an established connection, an active  *)
(* open, the listening socket, or answers it with a reset.                 *)
(*                                                                         *)
(* TcpPeer has the tables of one host under any headers.  Here are both    *)
(* hosts and the headers they really send: sequence numbers, options and   *)
(* windows.  Connection n of the client has its own ephemeral port.        *)
(*                                                                         *)
(* An established end is a ControlBlock; the first bytes pushed are        *)
(* followed to the other end, and TcpConnection has what comes after.  A   *)
(* byte of data is its offset in the stream.                               *)
(***************************************************************************)
EXTENDS Link, FiniteSets, SequencesExt

CONSTANTS
    Half,                \* 2^31 in the code: half of the sequence numbers
    Digest,              \* host |-> what its generator of ISNs starts from
    WindowWidth,         \* 2^16 in the code: the windows a header can hold
    window_scale,        \* the scale both hosts are configured with
    advertised_mss,
    FALLBACK_MSS,
    handshake_retries,
    max_backlog

\* A connection whose windows are scaled by 2^scale, in both directions.
CB(scale) == INSTANCE ControlBlock WITH
    WindowUnit <- 2 ^ scale, Mss <- advertised_mss, Cwnd <- 65535, DebugAsserts <- {},
    MAX_OUT_OF_ORDER <- 16, UNSENT_QUEUE_CUTOFF <- 1024

ASSUME TcpOpenAssumption ==
    /\ DOMAIN Digest = Hosts
    /\ window_scale \in 0 .. 14
    /\ {advertised_mss, FALLBACK_MSS} \subseteq Words

VARIABLES
    isn_counter,   \* of the generator of each host
    opens,         \* the client's connects: [isn, left, state]
    inflight,      \* the server's handshakes by port: InflightAccept and its task
    ready,         \* ports waiting to be accepted, 0 for a handshake that failed
    accepts,       \* accept operations that wait
    conns          \* host |-> port |-> connection

handshake == << isn_counter, opens, inflight, ready, accepts >>
tcp == << handshake, conns >>

TcpInit ==
    /\ isn_counter = [h \in Hosts |-> 0]
    /\ opens = << >>
    /\ inflight = << >>
    /\ ready = << >>
    /\ accepts = 0
    /\ conns = [h \in Hosts |-> << >>]

SERVER_PORT == 80
ClientPort(n) == 49152 + n
Opening(port) == {n \in DOMAIN opens : ClientPort(n) = port /\ opens[n].state \in {"query", "wait"}}

Plus1(seq) == (seq + 1) % (2 * Half)

\* The ports at the two ends of a segment of the connection, seen from h.
Ports(h, port) == IF h = "a" THEN TcpHeader(port, SERVER_PORT) ELSE TcpHeader(SERVER_PORT, port)

Sends(h, segments, rest) == wire' = rest \cup {Frame(h, segment) : segment \in segments}

----------------------------------------------------------------------------
(* IsnGenerator, options and windows. *)

generate(h) == (Digest[h] + isn_counter[h]) % (2 * Half)
Generated(h) == isn_counter' = [isn_counter EXCEPT ![h] = (@ + 1) % 65536]

OwnOptions == << MaximumSegmentSize(advertised_mss), WindowScale(window_scale) >>

\* The SYN of this stack, or of one that sends more options.
SynOptions ==
    IF budget.own_options THEN OwnOptions
    ELSE << MaximumSegmentSize(advertised_mss), SackPermitted, Timestamp(<< 1, 2, 0, 0 >>),
            NoOperation, WindowScale(window_scale) >>

\* The last option of a kind counts.
OptionValue(options, kind, default) ==
    FoldLeft(LAMBDA v, o : IF o.kind = kind THEN o.value ELSE v, default, options)

\* What both opens make of the options of the other end.
Negotiated(options) ==
    LET remote == OptionValue(options, 3, -1)
    IN  [mss |-> OptionValue(options, 2, FALLBACK_MSS),
         local |-> IF remote = -1 THEN 0 ELSE window_scale,
         remote |-> IF remote = -1 THEN 0 ELSE remote]

\* checked_shl of a u16: the bits that are shifted out are lost.
Shl16(window, scale) == (window * 2 ^ scale) % WindowWidth

\* The same of a u32.
Shl32(window, scale) == window * 2 ^ scale

NewConnection(receiver_seq_no, receiver_window, sender_seq_no, sender_window, negotiated) ==
    [receiver_seq_no |-> receiver_seq_no, receiver_window_size |-> receiver_window,
     sender_seq_no |-> sender_seq_no, sender_window_size |-> sender_window,
     scale |-> negotiated.local, remote_scale |-> negotiated.remote, mss |-> negotiated.mss,
     cb |-> CB(negotiated.local)!NewControlBlock(receiver_seq_no, receiver_window,
                                                 sender_seq_no, sender_window),
     pushed |-> 0, early |-> FALSE]

----------------------------------------------------------------------------
(* The client: Inner::connect and ActiveOpenSocket. *)

Connect ==
    /\ Running("a")
    /\ Spend("connects")
    /\ opens' = Append(opens, [isn |-> generate("a"), left |-> handshake_retries, state |-> "query"])
    /\ Generated("a")
    /\ UNCHANGED << wire, cached, failed, inflight, ready, accepts, conns >>

\* Both hosts wait equally long before they try again.  In a prompt scene
\* frames arrive before that, so nothing is on its way or about to be sent,
\* and no other handshake has waited longer.
Expires(left) ==
    budget.prompt =>
        /\ wire = {}
        /\ \A task \in Range(opens) \cup Range(inflight) :
              /\ task.state # "query"
              /\ task.state = "wait" => task.left <= left

\* Mutant: the segment is sent once.
NextTry_once(left) == "failed"

\* The loop of the background task goes on, or ends and sets the result.
NextTry(left) == IF left = 0 THEN "failed" ELSE "query"

OpenSends(n) ==
    LET syn == [Ports("a", ClientPort(n)) EXCEPT
                    !.syn = TRUE, !.seq_num = opens[n].isn,
                    !.window_size = budget.receive_window_size, !.options = SynOptions]
    IN  /\ Running("a")
        /\ opens[n].state = "query"
        /\ Resolved("a")
        /\ opens' = [opens EXCEPT ![n].left = @ - 1, ![n].state = "wait"]
        /\ Sends("a", {Segment(syn, NoData)}, wire)
        /\ UNCHANGED << budget, failed, isn_counter, inflight, ready, accepts, conns >>

OpenQueryFails(n) ==
    /\ Running("a")
    /\ opens[n].state = "query"
    /\ Unresolved("a")
    /\ opens' = [opens EXCEPT ![n].left = @ - 1, ![n].state = NextTry(opens[n].left - 1)]
    /\ UNCHANGED << wire, cached, failed, isn_counter, inflight, ready, accepts, conns >>

OpenTimeout(n) ==
    /\ Running("a")
    /\ opens[n].state = "wait"
    /\ Expires(opens[n].left)
    /\ Spend("timeouts")
    /\ opens' = [opens EXCEPT ![n].state = NextTry(opens[n].left)]
    /\ UNCHANGED << wire, cached, failed, isn_counter, inflight, ready, accepts, conns >>

AnswersSyn(n, hdr) == hdr.ack /\ hdr.ack_num = Plus1(opens[n].isn)

\* ActiveOpenSocket::receive.  The result is polled at once (lib.rs:563), so
\* the timer cannot come in between.
ActiveReceive(n, hdr, rest) ==
    LET isn == opens[n].isn
        negotiated == Negotiated(hdr.options)
        ack == [Ports("a", ClientPort(n)) EXCEPT
                    !.ack = TRUE, !.ack_num = Plus1(hdr.seq_num), !.seq_num = Plus1(isn),
                    !.window_size = budget.receive_window_size]
        new == NewConnection(
                    Plus1(hdr.seq_num), Shl16(budget.receive_window_size, negotiated.local),
                    Plus1(isn), Shl16(hdr.window_size, negotiated.remote), negotiated)
    IN  /\ UNCHANGED << isn_counter, inflight, ready, accepts >>
        /\ \/ /\ ~ AnswersSyn(n, hdr) \/ ~ (hdr.rst \/ hdr.syn)
              /\ wire' = rest
              /\ UNCHANGED << failed, opens, conns >>
           \/ /\ AnswersSyn(n, hdr) /\ ~ hdr.rst /\ hdr.syn /\ "a" \notin cached
              /\ wire' = rest
              /\ failed' = failed \cup {"a"}
              /\ UNCHANGED << opens, conns >>
           \/ /\ AnswersSyn(n, hdr)
              /\ hdr.rst \/ (hdr.syn /\ "a" \in cached)
              /\ Sends("a", IF hdr.rst THEN {} ELSE {Segment(ack, NoData)}, rest)
              /\ opens' = [opens EXCEPT ![n].state = IF hdr.rst THEN "failed" ELSE "established"]
              /\ conns' = [conns EXCEPT !["a"] = IF hdr.rst THEN @ ELSE @ @@ (ClientPort(n) :> new)]
              /\ UNCHANGED failed

----------------------------------------------------------------------------
(* The server: PassiveSocket. *)

\* An accept takes what is ready at once, or waits.
Accept ==
    /\ Running("b")
    /\ Spend("accepts")
    /\ IF ready = << >> THEN accepts' = accepts + 1 /\ UNCHANGED ready
       ELSE ready' = Tail(ready) /\ UNCHANGED accepts
    /\ UNCHANGED << wire, cached, failed, isn_counter, opens, inflight, conns >>

\* push_ok and push_err; an accept that waits is woken and takes the entry.
PushReady(entry) ==
    IF accepts > 0 THEN accepts' = accepts - 1 /\ UNCHANGED ready
    ELSE ready' = Append(ready, entry) /\ UNCHANGED accepts

\* Mutant: any segment that carries an acknowledgment or a SYN completes it.
CompletesHandshake_any(accept, hdr) == hdr.ack \/ hdr.syn

CompletesHandshake(accept, hdr) == hdr.ack /\ hdr.ack_num = Plus1(accept.local_isn)

\* Mutant: the window of the client is scaled in 32 bits.
RemoteWindow_wide(accept) == Shl32(accept.window_size, accept.negotiated.remote)

\* The window the SYN granted; the client sizes its buffer the same way.
RemoteWindow(accept) == Shl16(accept.window_size, accept.negotiated.remote)

\* Whether a segment starts a handshake: a SYN, and room in the backlog.
Starts(hdr) ==
    /\ hdr.syn /\ ~ hdr.ack /\ ~ hdr.rst
    /\ Cardinality(DOMAIN inflight) + Len(ready) < max_backlog

\* PassiveSocket::receive.  The connection is made with the window of the SYN,
\* and the data of the segment that completes it is dropped.
PassiveReceive(port, hdr, rest) ==
    LET accept == inflight[port]
        negotiated == Negotiated(hdr.options)
        new == NewConnection(
                    Plus1(accept.remote_isn), Shl32(budget.receive_window_size, accept.negotiated.local),
                    Plus1(accept.local_isn), RemoteWindow(accept), accept.negotiated)
    IN  /\ wire' = rest
        /\ UNCHANGED << failed, opens >>
        /\ \/ /\ port \notin Range(ready)
              /\ port \in DOMAIN inflight /\ CompletesHandshake(accept, hdr)
              /\ inflight' = [p \in DOMAIN inflight \ {port} |-> inflight[p]]
              /\ conns' = [conns EXCEPT !["b"] = @ @@ (port :> new)]
              /\ PushReady(port)
              /\ UNCHANGED isn_counter
           \/ /\ port \notin Range(ready) \cup DOMAIN inflight
              /\ Starts(hdr)
              /\ inflight' = inflight @@ (port :>
                    [local_isn |-> generate("b"), remote_isn |-> hdr.seq_num,
                     window_size |-> hdr.window_size, negotiated |-> negotiated,
                     left |-> handshake_retries, state |-> "query"])
              /\ Generated("b")
              /\ UNCHANGED << ready, accepts, conns >>
           \/ /\ \/ port \in Range(ready)
                 \/ port \in DOMAIN inflight /\ ~ CompletesHandshake(accept, hdr)
                 \/ port \notin DOMAIN inflight /\ ~ Starts(hdr)
              /\ UNCHANGED << isn_counter, inflight, ready, accepts, conns >>

\* The background task of a handshake.  When it has no try left the entry
\* stays, and can still be completed.
AcceptSends(port) ==
    LET accept == inflight[port]
        syn_ack == [Ports("b", port) EXCEPT
                        !.syn = TRUE, !.ack = TRUE, !.seq_num = accept.local_isn,
                        !.ack_num = Plus1(accept.remote_isn),
                        !.window_size = budget.receive_window_size, !.options = OwnOptions]
    IN  /\ Running("b")
        /\ accept.state = "query"
        /\ Resolved("b")
        /\ inflight' = [inflight EXCEPT ![port].left = @ - 1, ![port].state = "wait"]
        /\ Sends("b", {Segment(syn_ack, NoData)}, wire)
        /\ UNCHANGED << budget, failed, isn_counter, opens, ready, accepts, conns >>

\* The next turn of its loop, or the error.
AcceptNextTry(port, left) ==
    /\ inflight' = [inflight EXCEPT ![port].left = left, ![port].state = NextTry(left)]
    /\ IF left = 0 THEN PushReady(0) ELSE UNCHANGED << ready, accepts >>

AcceptQueryFails(port) ==
    /\ Running("b")
    /\ inflight[port].state = "query"
    /\ Unresolved("b")
    /\ AcceptNextTry(port, inflight[port].left - 1)
    /\ UNCHANGED << wire, cached, failed, isn_counter, opens, conns >>

AcceptTimeout(port) ==
    /\ Running("b")
    /\ inflight[port].state = "wait"
    /\ Expires(inflight[port].left)
    /\ Spend("timeouts")
    /\ AcceptNextTry(port, inflight[port].left)
    /\ UNCHANGED << wire, cached, failed, isn_counter, opens, conns >>

----------------------------------------------------------------------------
(* Established connections. *)

Established(h, port) == port \in DOMAIN conns[h] /\ ~ (h = "b" /\ port \in Range(ready))

\* A buffer of ControlBlock as the bytes it stands for, and back.
Bytes(buf) ==
    LET octet(i) == IF i <= buf.len THEN buf.off + i - 1 ELSE 0
    IN  [len |-> buf.len,
         w |-> [i \in 1 .. ((buf.len + 1) \div 2) |-> 256 * octet(2 * i - 1) + octet(2 * i)]]

Buf(data) == [off |-> IF data.len = 0 THEN 0 ELSE data.w[1] \div 256, len |-> data.len]

ToSegment(h, port, seg) ==
    Segment([Ports(h, port) EXCEPT !.seq_num = seg.seq, !.ack = seg.ack, !.ack_num = seg.ack_num,
                 !.window_size = seg.win, !.syn = seg.syn, !.fin = seg.fin, !.rst = seg.rst],
            Bytes(seg.buf))

FromSegment(message) ==
    LET hdr == message.hdr
    IN  [seq |-> hdr.seq_num, ack |-> hdr.ack, ack_num |-> hdr.ack_num, win |-> hdr.window_size,
         syn |-> hdr.syn, fin |-> hdr.fin, rst |-> hdr.rst, buf |-> Buf(message.data)]

\* The control block as a handler finds it, and what becomes of it.
BlockOf(h, port) == [conns[h][port].cb EXCEPT !.arp = h \in cached]

Becomes(h, port, cb, rest) ==
    /\ conns' = [conns EXCEPT ![h][port].cb = [cb EXCEPT !.out = << >>]]
    /\ Sends(h, {ToSegment(h, port, seg) : seg \in Range(cb.out)}, rest)

EstablishedReceive(h, port, message, rest) ==
    LET scale == conns[h][port].scale
        cb == CB(scale)!receive(BlockOf(h, port), FromSegment(message))
    IN  /\ Becomes(h, port, cb, rest)
        /\ failed' = IF CB(scale)!Panicked(cb) THEN failed \cup {h} ELSE failed
        /\ UNCHANGED handshake

CanPush(h, port) ==
    /\ Established(h, port)
    /\ CB(conns[h][port].scale)!SendsImmediately(BlockOf(h, port),
                                                 [off |-> conns[h][port].pushed, len |-> 1])

\* One byte, which the window lets pass at once.  early: a byte has left
\* before the other application has accepted the connection.
Push(h, port) ==
    LET conn == conns[h][port]
        buf == [off |-> conn.pushed, len |-> 1]
        cb == CB(conn.scale)!send(BlockOf(h, port), buf)
    IN  /\ Running(h)
        /\ CanPush(h, port)
        /\ Spend("pushes")
        /\ conns' = [conns EXCEPT ![h][port] =
              [@ EXCEPT !.cb = [cb EXCEPT !.out = << >>], !.pushed = @ + 1,
                        !.early = @ \/ ~ Established(Peer(h), port)]]
        /\ Sends(h, {ToSegment(h, port, seg) : seg \in Range(cb.out)}, wire)
        /\ UNCHANGED << cached, failed, handshake >>

\* The acknowledger.
AckTimeout(h, port) ==
    /\ Running(h)
    /\ Established(h, port)
    /\ conns[h][port].cb.ack_deadline
    /\ Becomes(h, port, CB(conns[h][port].scale)!send_ack(BlockOf(h, port)), wire)
    /\ UNCHANGED << budget, cached, failed, handshake >>

----------------------------------------------------------------------------
(* Inner::receive of tcp/peer.rs. *)

\* A reset, if the other host is in the ARP cache.  It carries no ACK.
SendRst(h, port, rest) ==
    /\ Sends(h, IF h \in cached THEN {Segment([Ports(h, port) EXCEPT !.rst = TRUE], NoData)} ELSE {}, rest)
    /\ UNCHANGED << failed, tcp >>


TcpReceive(h, message, rest) ==
    LET port == IF h = "a" THEN message.hdr.dst_port ELSE message.hdr.src_port
        open == IF h = "a" THEN Opening(port) ELSE {}
    IN  \/ /\ Established(h, port)
           /\ EstablishedReceive(h, port, message, rest)
        \/ /\ ~ Established(h, port) /\ open # {}
           /\ \E n \in open : ActiveReceive(n, message.hdr, rest)
        \/ /\ ~ Established(h, port) /\ h = "b" /\ budget.listening
           /\ PassiveReceive(port, message.hdr, rest)
        \/ /\ ~ Established(h, port) /\ open = {} /\ ~ (h = "b" /\ budget.listening)
           /\ SendRst(h, port, rest)

TcpNext ==
    \/ Connect \/ Accept
    \/ \E n \in DOMAIN opens : OpenSends(n) \/ OpenQueryFails(n) \/ OpenTimeout(n)
    \/ \E port \in DOMAIN inflight : AcceptSends(port) \/ AcceptQueryFails(port) \/ AcceptTimeout(port)
    \/ \E h \in Hosts : \E port \in DOMAIN conns[h] : Push(h, port) \/ AckTimeout(h, port)

----------------------------------------------------------------------------
(* Properties. *)

\* The connection of one end, seen from the other.
Matches(conn, isn, peer_isn) ==
    /\ conn.sender_seq_no = Plus1(isn) /\ conn.receiver_seq_no = Plus1(peer_isn)
    /\ conn.mss = advertised_mss
    /\ conn.scale = window_scale /\ conn.remote_scale = window_scale

\* A host takes a connection for established only if the other host takes part
\* in it, and both have the same initial sequence numbers, segment size and
\* scales: repeated, late and damaged segments of the handshake, timeouts and
\* the retries of both sides never make a connection that one side does not
\* know or knows by other numbers (passive_open.rs:177, active_open.rs:126).
HandshakeAgreement ==
    \A n \in DOMAIN opens :
        LET port == ClientPort(n)
            knows(isn) == Matches(conns["a"][port], opens[n].isn, isn)
        IN  /\ port \in DOMAIN conns["b"] =>
                  LET isn == (conns["b"][port].sender_seq_no - 1) % (2 * Half)
                  IN  /\ port \in DOMAIN conns["a"] /\ knows(isn)
                      /\ Matches(conns["b"][port], isn, opens[n].isn)
            /\ port \in DOMAIN conns["a"] \ DOMAIN conns["b"] =>
                  port \in DOMAIN inflight /\ knows(inflight[port].local_isn)

\* Neither end starts with a send window larger than the receive window of the
\* other, though both are scaled in 16 bits on one side and in 32 on the other
\* (active_open.rs:192, passive_open.rs:186).
WindowsGranted ==
    \A h \in Hosts : \A port \in DOMAIN conns[h] \cap DOMAIN conns[Peer(h)] :
        conns[h][port].sender_window_size <= conns[Peer(h)][port].receiver_window_size

=============================================================================
