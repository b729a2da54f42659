----------------------------- MODULE TcpReceiver -----------------------------
(***************************************************************************)
(* One control block that receives a stream from a remote TCP.             *)
(*                                                                         *)
(* The remote has StreamLen bytes and a FIN to send.  It may send any part *)
(* of the stream at any time and as often as it likes, which also stands   *)
(* for a network that loses, duplicates and reorders its segments.  The    *)
(* remote acknowledges some of what this end has sent, may reset the       *)
(* connection, and may send its handshake segment again.                   *)
(***************************************************************************)
EXTENDS ControlBlock

CONSTANTS
    StreamLen,       \* bytes in the remote's stream
    MaxSegment,      \* bytes in one segment of the remote
    BufferSize,      \* receive_buffer_size
    Isn, RemoteIsn,  \* initial sequence numbers of this end and of the remote
    CanReset,        \* the remote may send a RST
    CanClose         \* the application may close

ASSUME TcpReceiverAssumption ==
    /\ {StreamLen, MaxSegment, BufferSize} \subseteq Nat \ {0}
    /\ StreamLen + BufferSize + 2 < Half
    /\ {Isn, RemoteIsn} \subseteq SeqNumbers
    /\ {CanReset, CanClose} \subseteq BOOLEAN

VARIABLES
    cb,      \* the control block
    read,    \* bytes the application has popped
    closed   \* the application has closed: its descriptor is gone

vars == << cb, read, closed >>

Offset(seq) == Minus(seq, Plus(RemoteIsn, 1))

SeqAt(off) == Plus(RemoteIsn, off + 1)

Queued == TotalLen(cb.recv_queue)

Running == ~ Panicked(cb)

Idle == [cb EXCEPT !.out = << >>]

Init ==
    /\ cb = NewControlBlock(Plus(RemoteIsn, 1), BufferSize, Plus(Isn, 1), BufferSize)
    /\ read = 0
    /\ closed = FALSE

RemoteSegment(off, len, fin, ack_num) ==
    [seq |-> SeqAt(off), ack |-> TRUE, ack_num |-> ack_num, win |-> BufferSize \div WindowUnit,
     syn |-> FALSE, fin |-> fin, rst |-> FALSE, buf |-> Buf(off, len)]

\* Any part of the stream arrives, with or without the FIN.
ReceiveSegment(off, len, fin) ==
    /\ Running
    /\ fin => off + len = StreamLen
    /\ cb' \in {receive(Idle, RemoteSegment(off, len, fin, ack_num)) :
                    ack_num \in {cb.send_unacked, cb.send_next}}
    /\ UNCHANGED << read, closed >>

\* The remote resets the connection from its own SND.NXT.
ReceiveReset(off) ==
    /\ Running
    /\ CanReset
    /\ cb' = receive(Idle, [RemoteSegment(off, 0, FALSE, cb.send_unacked) EXCEPT !.rst = TRUE])
    /\ UNCHANGED << read, closed >>

\* The remote's SYN+ACK arrives a second time.
ReceiveHandshakeAgain ==
    /\ Running
    /\ cb' = receive(Idle, [RemoteSegment(0, 0, FALSE, Plus(Isn, 1))
                            EXCEPT !.seq = RemoteIsn, !.syn = TRUE])
    /\ UNCHANGED << read, closed >>

Pop ==
    /\ Running
    /\ ~ closed
    /\ cb.recv_queue # << >>
    /\ cb' = poll_recv(Idle)
    /\ read' = read + Head(cb.recv_queue).len
    /\ UNCHANGED closed

\* The acknowledger's timer fires.
AckTimeout ==
    /\ Running
    /\ cb.ack_deadline
    /\ cb' = send_ack(Idle)
    /\ UNCHANGED << read, closed >>

Close ==
    /\ Running
    /\ CanClose
    /\ ~ closed
    /\ cb' = close(Idle)
    /\ closed' = TRUE
    /\ UNCHANGED read

Next ==
    \/ \E off \in 0 .. StreamLen : \E len \in 0 .. Min({MaxSegment, StreamLen - off}) :
          \E fin \in BOOLEAN : ReceiveSegment(off, len, fin)
    \/ \E off \in 0 .. StreamLen + 1 : ReceiveReset(off)
    \/ ReceiveHandshakeAgain
    \/ Pop
    \/ AckTimeout
    \/ Close

Spec == Init /\ [][Next]_vars

----------------------------------------------------------------------------
(* Properties. *)

Buffers == [off : 0 .. StreamLen, len : 0 .. StreamLen]

\* What the application pops is the remote's stream, every byte once and in
\* order, however the network delivers it: the receive queue starts with the
\* next unread byte and has neither gaps nor repetitions (receive_data,
\* store_out_of_order_segment and the trimming in receive).
StreamIntegrity ==
    LET q == cb.recv_queue
    IN  /\ q # << >> => q[1].off = read
        /\ \A i \in 1 .. Len(q) - 1 : q[i + 1].off = q[i].off + q[i].len

\* RCV.NXT, which every ACK carries, covers exactly the bytes that reached the
\* receive queue, and the FIN only after the last of them: nothing is
\* acknowledged that the application cannot read, unless the connection was
\* reset or the assertion on an out-of-order FIN (ctrlblk.rs:1066) has failed.
AckedIsQueued ==
    \/ cb.state = "Closed" \/ "fin_is_not_next" \in cb.failed
    \/ Offset(cb.receive_next) = read + Queued
    \/ Offset(cb.receive_next) = StreamLen + 1 /\ read + Queued = StreamLen

\* The unread bytes never exceed the receive buffer, so the subtraction in
\* get_receive_window_size never wraps.
WindowNeverWraps == Minus(cb.receive_next, cb.reader_next) <= BufferSize

\* The out-of-order store keeps bytes of the stream at their own sequence
\* numbers, never any beyond the right edge of the receive window, and at most
\* MAX_OUT_OF_ORDER segments of them.
StoreHoldsStream ==
    /\ Len(cb.out_of_order) <= MAX_OUT_OF_ORDER
    /\ \A i \in 1 .. Len(cb.out_of_order) :
          LET e == cb.out_of_order[i]
          IN  /\ e.buf.len > 0
              /\ e.start = SeqAt(e.buf.off)
              /\ e.buf.off + e.buf.len <= Offset(cb.reader_next) + BufferSize

\* The checks of receive and close that can fail, and from where.  That the
\* trimmed segment lies in the window (ctrlblk.rs:500) fails with a window of
\* zero bytes only, never with a byte of room left.  The panics on a RST or a
\* FIN (532, 724) and the assertion of close (765) need an end that is Closed,
\* by a reset, a SYN or a finished close, before; unless a FIN was taken too
\* early (1066), whose second copy then meets an end that it also closes.
FailsOnlyAsKnown ==
    [][LET new == cb'.failed \ cb.failed
       IN  /\ "segment_outside_window" \in new => get_receive_window_size(cb) = 0
           /\ \/ new \subseteq {"segment_outside_window", "fin_is_not_next"}
              \/ cb.state = "Closed" \/ "fin_is_not_next" \in cb.failed]_vars

----------------------------------------------------------------------------
(* What an assertion of the code says, and the code does not do. *)

\* receive_data (ctrlblk.rs:1066): debug_assert_eq!(fin, recv_next), an
\* out-of-order FIN is taken when every byte before it has been received.
OutOfOrderFinIsNext == "fin_is_not_next" \notin cb.failed

=============================================================================
