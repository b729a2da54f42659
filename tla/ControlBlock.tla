---------------------------- MODULE ControlBlock ----------------------------
(***************************************************************************)
(* One end of an established TCP connection: the ControlBlock of           *)
(* tcp/established/ctrlblk.rs with its Sender (established/sender.rs) and   *)
(* the background tasks (established/background).                           *)
(*                                                                         *)
(* A control block is a record, and every handler of the code is an        *)
(* operator from the record before the call to the record after it.  The   *)
(* segments the handler transmits are collected in the field out.          *)
(*                                                                         *)
(* A buffer is the interval of the sender's byte stream it holds:          *)
(* Buffer::adjust and Buffer::trim move its ends.  The empty buffer is the *)
(* end-of-send marker, as in the code.                                     *)
(*                                                                         *)
(* failed collects the names of the assertions that did not hold.  The     *)
(* ones in Panics stop the process; the others are debug_asserts, which    *)
(* stop it if they are compiled in (DebugAsserts; none in a release build) *)
(* and are passed over otherwise.                                          *)
(***************************************************************************)
EXTENDS SeqNumber, Sequences, FiniteSetsExt

CONSTANTS
    Mss,                  \* the sender's maximum segment size
    WindowUnit,           \* 2^window_scale, the same in both directions
    Cwnd,                 \* effective congestion window (u32::MAX: cc is None)
    MAX_OUT_OF_ORDER,     \* entries of the out-of-order store
    UNSENT_QUEUE_CUTOFF,  \* entries of the unsent queue that stop a push
    DebugAsserts          \* the debug_asserts that are compiled in, by name

ASSUME ControlBlockAssumption ==
    /\ {Mss, WindowUnit, Cwnd, MAX_OUT_OF_ORDER} \subseteq Nat \ {0}
    /\ UNSENT_QUEUE_CUTOFF \in Nat

States == {"Established", "FinWait1", "FinWait2", "Closing", "TimeWait",
           "CloseWait", "LastAck", "Closed"}

\* States in which the peer has not closed its direction yet.
Receiving == {"Established", "FinWait1", "FinWait2"}

Panics == {"rst_when_closed", "fin_when_closed", "unacked_queue_underrun",
           "probe_of_empty_buffer", "no_unsent_data", "close_send_failed"}

Panicked(cb) == cb.failed \cap (Panics \cup DebugAsserts) # {}

Fail(cb, name, holds) == IF holds THEN cb ELSE [cb EXCEPT !.failed = @ \cup {name}]

----------------------------------------------------------------------------
(* Buffers. *)

Buf(off, len) == [off |-> off, len |-> len]

adjust(buf, n) == Buf(buf.off + n, buf.len - n)

trim(buf, n) == Buf(buf.off, buf.len - n)

\* Sequence space a buffer takes up; the end-of-send marker is the FIN.
SeqSpace(buf) == IF buf.len = 0 THEN 1 ELSE buf.len

\* Bytes in a queue of buffers.
TotalLen(q) ==
    LET sum[i \in 0 .. Len(q)] == IF i = 0 THEN 0 ELSE sum[i - 1] + q[i].len
    IN  sum[Len(q)]

NoTask == [pc |-> "top", send_next |-> 0, win_sz |-> 0, sent_data |-> 0,
           buf |-> Buf(0, 0), changed |-> FALSE]

\* ControlBlock::new and Sender::new.
NewControlBlock(receiver_seq_no, receiver_window_size, sender_seq_no, sender_window_size) ==
    [state |-> "Established",
     send_unacked |-> sender_seq_no, unacked_queue |-> << >>,
     send_next |-> sender_seq_no, unsent_queue |-> << >>,
     unsent_seq_no |-> sender_seq_no,
     send_window |-> sender_window_size,
     last_update_seq |-> sender_seq_no, last_update_ack |-> sender_seq_no,
     reader_next |-> receiver_seq_no, receive_next |-> receiver_seq_no,
     recv_queue |-> << >>, receive_buffer_size |-> receiver_window_size,
     out_of_order |-> << >>, out_of_order_fin |-> {},
     user_is_done_sending |-> FALSE,
     ack_deadline |-> FALSE, retransmit_deadline |-> FALSE,
     task |-> NoTask, arp |-> TRUE, failed |-> {}, out |-> << >>]

----------------------------------------------------------------------------
(* Headers and transmission. *)

get_receive_window_size(cb) ==
    cb.receive_buffer_size - Minus(cb.receive_next, cb.reader_next)

\* Mutant: the window is advertised unscaled.
hdr_window_size_unscaled(cb) == get_receive_window_size(cb)

hdr_window_size(cb) == get_receive_window_size(cb) \div WindowUnit

tcp_header(cb, seq) ==
    [seq |-> seq, ack |-> TRUE, ack_num |-> cb.receive_next,
     win |-> hdr_window_size(cb), syn |-> FALSE, fin |-> FALSE, rst |-> FALSE,
     buf |-> Buf(0, 0)]

\* Mutant: a FIN sent in CloseWait does not move the state on.
emit_no_last_ack(cb, seg) ==
    [cb EXCEPT !.out = Append(@, seg),
               !.ack_deadline = FALSE,
               !.state = IF seg.fin /\ @ = "Established" THEN "FinWait1" ELSE @]

\* emit: transmit, cancel the delayed ACK, and move the state on after a FIN.
emit(cb, seg) ==
    [cb EXCEPT !.out = Append(@, seg),
               !.ack_deadline = FALSE,
               !.state = CASE seg.fin /\ @ = "Established" -> "FinWait1"
                           [] seg.fin /\ @ = "CloseWait" -> "LastAck"
                           [] OTHER -> @]

\* send_ack: nothing is sent when the ARP cache has no entry for the peer.
send_ack(cb) == IF cb.arp THEN emit(cb, tcp_header(cb, cb.send_next)) ELSE cb

----------------------------------------------------------------------------
(* Sending (established/sender.rs). *)

SentData(cb) == Minus(cb.send_next, cb.send_unacked)

\* The segment goes out, joins the unacknowledged queue and starts the timer.
transmit(cb, seq, buf) ==
    LET seg == [tcp_header(cb, seq) EXCEPT !.fin = (buf.len = 0), !.buf = buf]
    IN  [emit(cb, seg) EXCEPT !.send_next = Plus(@, SeqSpace(buf)),
                              !.unacked_queue = Append(@, buf),
                              !.retransmit_deadline = TRUE]

\* Mutants: the fast path overtakes what is queued, or disregards the window.
SendsImmediately_overtakes(cb, buf) ==
    /\ cb.send_window > 0
    /\ cb.send_window >= SentData(cb) + buf.len
    /\ cb.arp

SendsImmediately_past_window(cb, buf) ==
    /\ cb.unsent_queue = << >>
    /\ cb.send_window > 0
    /\ cb.arp

SendsImmediately(cb, buf) ==
    /\ cb.unsent_queue = << >>
    /\ cb.send_window > 0
    /\ cb.send_window >= SentData(cb) + buf.len
    /\ Cwnd >= SentData(cb) + buf.len
    /\ cb.arp

\* The call returns Ok; otherwise it returns EINVAL or EBUSY and changes nothing.
SendAccepts(cb, buf) ==
    /\ ~ cb.user_is_done_sending
    /\ SendsImmediately(cb, buf) \/ Len(cb.unsent_queue) <= UNSENT_QUEUE_CUTOFF

\* Mutant: the slow path forgets to move unsent_seq_no, which wakes the sender.
send_unnoticed(cb, buf) ==
    IF ~ SendAccepts(cb, buf) THEN cb
    ELSE IF SendsImmediately(cb, buf)
    THEN [transmit(cb, cb.send_next, buf) EXCEPT !.unsent_seq_no = Plus(@, SeqSpace(buf))]
    ELSE [cb EXCEPT !.unsent_queue = Append(@, buf)]

\* The slow path advances unsent_seq_no by the buffer's length, FIN or not.
send(cb, buf) ==
    IF ~ SendAccepts(cb, buf) THEN cb
    ELSE IF SendsImmediately(cb, buf)
    THEN [transmit(cb, cb.send_next, buf) EXCEPT !.unsent_seq_no = Plus(@, SeqSpace(buf))]
    ELSE [cb EXCEPT !.unsent_queue = Append(@, buf),
                    !.unsent_seq_no = Plus(@, buf.len)]

\* ControlBlock::close queues or sends the end-of-send marker once.
close(cb) ==
    IF cb.user_is_done_sending THEN cb
    ELSE LET c == Fail(Fail(cb, "close_in_bad_state", cb.state \in {"Established", "CloseWait"}),
                       "close_send_failed", SendAccepts(cb, Buf(0, 0)))
         IN  [send(c, Buf(0, 0)) EXCEPT !.user_is_done_sending = TRUE]

\* remove_acknowledged_data: left[i] bytes are still to remove after i entries.
remove_acknowledged_data(cb, bytes) ==
    LET q == cb.unacked_queue
        left[i \in 0 .. Len(q)] ==
            IF i = 0 THEN bytes
            ELSE IF q[i].len = 0 THEN 0 ELSE left[i - 1] - q[i].len
        popped == CHOOSE i \in 0 .. Len(q) :
            /\ left[i] = 0 \/ i = Len(q) \/ q[i + 1].len > left[i]
            /\ \A j \in 0 .. (i - 1) : left[j] # 0 /\ q[j + 1].len <= left[j]
        rest == SubSeq(q, popped + 1, Len(q))
        fin_alone == \A i \in 1 .. popped : q[i].len = 0 => left[i - 1] = 1
        c == Fail(Fail(cb, "fin_not_last_acknowledged", fin_alone),
                  "unacked_queue_underrun", left[popped] = 0 \/ rest # << >>)
    IN  [c EXCEPT !.unacked_queue =
            IF left[popped] = 0 \/ rest = << >> THEN rest
            ELSE << adjust(Head(rest), left[popped]) >> \o Tail(rest)]

\* A change of the window also wakes a sender that is waiting to probe.
update_send_window(cb, seg) ==
    IF \/ Lt(cb.last_update_seq, seg.seq)
       \/ cb.last_update_seq = seg.seq /\ Le(cb.last_update_ack, seg.ack_num)
    THEN [cb EXCEPT !.send_window = seg.win * WindowUnit,
                    !.last_update_seq = seg.seq,
                    !.last_update_ack = seg.ack_num,
                    !.task.changed = cb.task.pc \in {"query_probe", "probe"}]
    ELSE cb

\* A new acknowledgment, up to SND.NXT.
AckNewData(cb, seg) ==
    LET c1 == remove_acknowledged_data(cb, Minus(seg.ack_num, cb.send_unacked))
        c2 == update_send_window([c1 EXCEPT !.send_unacked = seg.ack_num], seg)
        all == seg.ack_num = cb.send_next
    IN  [c2 EXCEPT !.retransmit_deadline = ~ all,
                   !.state = CASE all /\ @ = "FinWait1" -> "FinWait2"
                               [] all /\ @ = "Closing" -> "TimeWait"
                               [] all /\ @ = "LastAck" -> "Closed"
                               [] OTHER -> @]

----------------------------------------------------------------------------
(* The background sender task (established/background/sender.rs).  It runs *)
(* without interruption between two awaits; pc says which one it is in.    *)

HasUnsent(cb) == cb.send_next # cb.unsent_seq_no

NextBufSize(cb) == Head(cb.unsent_queue).len

\* The window, and the congestion window, have room beyond the next buffer.
HasRoom(cb) ==
    /\ cb.send_window > SentData(cb) + NextBufSize(cb)
    /\ Cwnd > SentData(cb) + Mss

\* pop_one_unsent_byte and the first transmission of the probe.
send_probe(cb, seq) ==
    LET front == Head(cb.unsent_queue)
        byte == trim(front, front.len - 1)
        sent == [cb EXCEPT !.unsent_queue[1] = adjust(@, 1),
                           !.send_next = Plus(@, 1),
                           !.unacked_queue = Append(@, byte),
                           !.task = [NoTask EXCEPT !.pc = "probe", !.send_next = seq,
                                                   !.buf = byte, !.changed = cb.task.changed]]
    IN  IF cb.unsent_queue = << >> THEN Fail(cb, "no_unsent_data", FALSE)
        ELSE IF front.len = 0 THEN Fail(cb, "probe_of_empty_buffer", FALSE)
        ELSE emit(sent, [tcp_header(sent, seq) EXCEPT !.buf = byte])

\* pop_unsent and the transmission of the segment.
send_segment(cb, seq, win_sz, sent_data) ==
    LET max_size == Min({win_sz - sent_data, Mss, Cwnd - sent_data})
        front == Head(cb.unsent_queue)
        whole == front.len <= max_size
        buf == IF whole THEN front ELSE trim(front, front.len - max_size)
        rest == IF whole THEN Tail(cb.unsent_queue)
                ELSE [cb.unsent_queue EXCEPT ![1] = adjust(front, max_size)]
        c == Fail(cb, "fin_before_close", buf.len > 0 \/ cb.user_is_done_sending)
    IN  IF cb.unsent_queue = << >> THEN Fail(cb, "no_unsent_data", FALSE)
        ELSE transmit([c EXCEPT !.unsent_queue = rest, !.task = NoTask], seq, buf)

\* One turn of the 'top loop from its start to the next await.
SenderReady(cb) ==
    /\ cb.task.pc = "top"
    /\ HasUnsent(cb)
    /\ cb.send_window = 0 \/ cb.unsent_queue = << >> \/ HasRoom(cb)

sender_top(cb) ==
    LET seq == cb.send_next
        await == [NoTask EXCEPT !.send_next = seq, !.win_sz = cb.send_window,
                                !.sent_data = SentData(cb)]
    IN  IF cb.send_window = 0
        THEN IF cb.arp THEN send_probe(cb, seq)
             ELSE [cb EXCEPT !.task = [NoTask EXCEPT !.pc = "query_probe", !.send_next = seq]]
        ELSE IF cb.arp \/ cb.unsent_queue = << >>
             THEN send_segment(cb, seq, cb.send_window, SentData(cb))
             ELSE [cb EXCEPT !.task = [await EXCEPT !.pc = "query_send"]]

\* The ARP query was answered: go on with the values read before the await.
SenderAwaitsArp(cb) == cb.task.pc \in {"query_probe", "query_send"}

sender_resume(cb) ==
    IF cb.task.pc = "query_probe" THEN send_probe(cb, cb.task.send_next)
    ELSE send_segment(cb, cb.task.send_next, cb.task.win_sz, cb.task.sent_data)

\* The ARP query failed: the background future of the connection ends.
sender_dies(cb) == [cb EXCEPT !.task = [NoTask EXCEPT !.pc = "dead"]]

BackgroundAlive(cb) == cb.task.pc # "dead"

\* PERSIST mode: the window changed, or the probe timer fired.
sender_window_changed(cb) == [cb EXCEPT !.task = NoTask]

\* Mutant: the probe is repeated without its byte.
sender_probe_empty(cb) == emit(cb, tcp_header(cb, cb.task.send_next))

sender_probe_again(cb) ==
    emit(cb, [tcp_header(cb, cb.task.send_next) EXCEPT !.buf = cb.task.buf])

\* The retransmit timer fired: the timer is dropped and nothing is sent.
retransmitter_timeout(cb) == [cb EXCEPT !.retransmit_deadline = FALSE]

----------------------------------------------------------------------------
(* Receiving. *)

SegLen(seg) == seg.buf.len + (IF seg.syn THEN 1 ELSE 0) + (IF seg.fin THEN 1 ELSE 0)

SegEnd(seg) == IF SegLen(seg) = 0 THEN seg.seq ELSE Plus(seg.seq, SegLen(seg) - 1)

\* Mutant: the duplicate bytes are left in the buffer.
TrimFront_keeps_data(cb, seg) ==
    IF ~ Lt(seg.seq, cb.receive_next) THEN seg
    ELSE [seg EXCEPT !.seq = cb.receive_next, !.syn = FALSE]

\* Cut what was received before off the front, with the SYN.
TrimFront(cb, seg) ==
    LET duplicate == Minus(cb.receive_next, seg.seq)
    IN  IF ~ Lt(seg.seq, cb.receive_next) THEN seg
        ELSE [seg EXCEPT !.seq = cb.receive_next, !.syn = FALSE,
                         !.buf = adjust(@, IF seg.syn THEN duplicate - 1 ELSE duplicate)]

\* Mutant: one byte too few is cut off.
TrimEnd_off_by_one(seg, after_receive_window) ==
    LET excess == Minus(SegEnd(seg), after_receive_window)
    IN  IF SegLen(seg) = 0 \/ Lt(SegEnd(seg), after_receive_window) THEN seg
        ELSE [seg EXCEPT !.fin = FALSE, !.buf = trim(@, excess)]

\* Mutant: the FIN beyond the window stays.
TrimEnd_keeps_fin(seg, after_receive_window) ==
    LET excess == Minus(SegEnd(seg), after_receive_window) + 1
    IN  IF SegLen(seg) = 0 \/ Lt(SegEnd(seg), after_receive_window) THEN seg
        ELSE [seg EXCEPT !.buf = trim(@, IF seg.fin THEN excess - 1 ELSE excess)]

\* Cut what lies beyond the window off the end, with the FIN.
TrimEnd(seg, after_receive_window) ==
    LET excess == Minus(SegEnd(seg), after_receive_window) + 1
    IN  IF SegLen(seg) = 0 \/ Lt(SegEnd(seg), after_receive_window) THEN seg
        ELSE [seg EXCEPT !.fin = FALSE,
                         !.buf = trim(@, IF seg.fin THEN excess - 1 ELSE excess)]

\* VecDeque::remove and VecDeque::insert, with positions from 1.
remove(q, index) == SubSeq(q, 1, index - 1) \o SubSeq(q, index + 1, Len(q))

insert(q, index, entry) == SubSeq(q, 1, index - 1) \o << entry >> \o SubSeq(q, index, Len(q))

StoredEnd(entry) == Plus(entry.start, entry.buf.len - 1)

\* One entry of a pass of store_out_of_order_segment over the store.
\* todo is "scan" until the place of the new segment is known.
ScanEntry(acc, entry) ==
    LET index == acc.index + 1
        overlap == Minus(StoredEnd(entry), acc.start)
        excess == Minus(acc.end, entry.start) + 1
    IN  IF acc.todo # "scan" THEN acc
        ELSE IF Lt(acc.start, entry.start)
        THEN IF Lt(acc.end, entry.start)
             THEN [acc EXCEPT !.todo = "insert", !.index = index]
             ELSE IF Lt(StoredEnd(entry), acc.end)
             THEN [acc EXCEPT !.todo = "replace", !.index = index]
             ELSE [acc EXCEPT !.todo = "append", !.buf = trim(@, excess),
                              !.end = Minus(@, excess)]
        ELSE IF Le(acc.end, StoredEnd(entry))
        THEN [acc EXCEPT !.todo = "drop"]
        ELSE IF Lt(StoredEnd(entry), acc.start)
        THEN [acc EXCEPT !.index = index]
        ELSE [acc EXCEPT !.index = index, !.start = Plus(@, overlap),
                         !.buf = adjust(@, overlap)]

\* One pass over the store q: scan[i] is the outcome after i entries.
ScanStore(q, new) ==
    LET scan[i \in 0 .. Len(q)] == IF i = 0 THEN new ELSE ScanEntry(scan[i - 1], q[i])
    IN  scan[Len(q)]

\* The passes go on as long as one of them finds an entry to replace, which it
\* takes out.  The outcome is what is left of the store and of the segment.
ScanPasses(q, new) ==
    LET pass[k \in 0 .. Len(q)] ==
            IF k = 0 THEN [q |-> q, acc |-> ScanStore(q, new)]
            ELSE LET p == pass[k - 1]
                     rest == remove(p.q, p.acc.index)
                 IN  IF p.acc.todo # "replace" THEN p
                     ELSE [q |-> rest,
                           acc |-> ScanStore(rest, [p.acc EXCEPT !.index = 0, !.todo = "scan"])]
    IN  pass[Len(q)]

store_out_of_order_segment(cb, start, end, buf) ==
    LET last == ScanPasses(cb.out_of_order,
                           [start |-> start, end |-> end, buf |-> buf, index |-> 0, todo |-> "scan"])
        entry == [start |-> last.acc.start, buf |-> last.acc.buf]
        stored == IF last.acc.todo = "insert" THEN insert(last.q, last.acc.index, entry)
                  ELSE Append(last.q, entry)
    IN  [cb EXCEPT !.out_of_order =
            IF last.acc.todo = "drop" THEN last.q
            ELSE SubSeq(stored, 1, Min({Len(stored), MAX_OUT_OF_ORDER}))]

\* Number of leading entries of the store that continue the stream at next.
InOrderEntries(q, next) ==
    Max({k \in 0 .. Len(q) : \A i \in 1 .. k :
            q[i].start = IF i = 1 THEN next ELSE Plus(StoredEnd(q[i - 1]), 1)})

\* Mutant: what was stored is queued before the data that came in.
receive_data_swapped(cb, buf) ==
    LET q == cb.out_of_order
        n == InOrderEntries(q, Plus(cb.receive_next, buf.len))
        stored == [i \in 1 .. n |-> q[i].buf]
    IN  [cb |-> [cb EXCEPT
                    !.recv_queue = @ \o stored \o << buf >>,
                    !.receive_next = Plus(@, buf.len + TotalLen(stored)),
                    !.out_of_order = SubSeq(q, n + 1, Len(q))],
         fin |-> n > 0 /\ cb.out_of_order_fin # {}]

\* receive_data: in-order data, then whatever the out-of-order store continues
\* it with.  fin is the value the code returns.
receive_data(cb, buf) ==
    LET q == cb.out_of_order
        next == Plus(cb.receive_next, buf.len)
        n == InOrderEntries(q, next)
        recv_next == IF n = 0 THEN next ELSE Plus(StoredEnd(q[n]), 1)
        fin == n > 0 /\ cb.out_of_order_fin # {}
    IN  [cb |-> [Fail(cb, "fin_is_not_next", fin => cb.out_of_order_fin = {recv_next})
                 EXCEPT !.recv_queue = @ \o << buf >> \o [i \in 1 .. n |-> q[i].buf],
                        !.receive_next = recv_next,
                        !.out_of_order = SubSeq(q, n + 1, Len(q))],
         fin |-> fin]

\* Mutant: a FIN in FinWait1 is taken for the acknowledgment of our own.
ReceiveFin_no_closing(cb) ==
    send_ack([cb EXCEPT !.receive_next = Plus(@, 1),
                        !.state = CASE @ = "Established" -> "CloseWait"
                                    [] @ \in {"FinWait1", "FinWait2"} -> "TimeWait"
                                    [] OTHER -> @])

\* The FIN is next in sequence.
ReceiveFin(cb) ==
    LET c == Fail(cb, "fin_when_closed", cb.state # "Closed")
        advanced == [c EXCEPT !.receive_next = Plus(@, 1),
                              !.state = CASE @ = "Established" -> "CloseWait"
                                          [] @ = "FinWait1" -> "Closing"
                                          [] @ = "FinWait2" -> "TimeWait"
                                          [] OTHER -> @]
    IN  IF cb.state = "Closed" THEN advanced ELSE send_ack(advanced)

\* Mutant: a FIN is taken when it arrives, not when it is next.
ReceiveOutOfOrder_fin(cb, seg) ==
    IF SegLen(seg) = 0 \/ cb.state \notin Receiving THEN cb
    ELSE IF seg.fin THEN ReceiveFin(cb)
    ELSE send_ack(store_out_of_order_segment(cb, seg.seq, Plus(seg.seq, seg.buf.len - 1), seg.buf))

\* An out-of-order segment that carries data or a FIN is put aside and ACKed.
ReceiveOutOfOrder(cb, seg) ==
    LET c == IF seg.fin THEN [cb EXCEPT !.out_of_order_fin = {SegEnd(seg)}] ELSE cb
        end == Plus(seg.seq, seg.buf.len - 1)
    IN  IF SegLen(seg) = 0 \/ cb.state \notin Receiving THEN cb
        ELSE send_ack(IF seg.buf.len = 0 THEN c
                      ELSE store_out_of_order_segment(c, seg.seq, end, seg.buf))

\* In-order text and FIN; text alone is ACKed late, or at once the second time.
ReceiveInOrder(cb, seg) ==
    LET text == seg.buf.len > 0 /\ cb.state \in Receiving
        got == IF text THEN receive_data(cb, seg.buf) ELSE [cb |-> cb, fin |-> FALSE]
        c == got.cb
    IN  IF seg.fin \/ got.fin THEN ReceiveFin(c)
        ELSE IF ~ text THEN c
        ELSE IF c.ack_deadline THEN send_ack([c EXCEPT !.ack_deadline = FALSE])
        ELSE [c EXCEPT !.ack_deadline = TRUE]

\* The segment lies in the window: RST, SYN, ACK, then text and FIN.  The ACK
\* is processed with the header as it came, its sequence number not trimmed.
ReceiveInWindow(cb, header, seg) ==
    IF seg.rst
    THEN Fail([cb EXCEPT !.state = "Closed"], "rst_when_closed", cb.state # "Closed")
    ELSE IF seg.syn THEN [cb EXCEPT !.state = "Closed"]
    ELSE IF ~ seg.ack THEN cb
    ELSE IF Lt(cb.send_unacked, seg.ack_num) /\ ~ Le(seg.ack_num, cb.send_next)
    THEN send_ack(cb)
    ELSE LET c == IF Lt(cb.send_unacked, seg.ack_num) THEN AckNewData(cb, header) ELSE cb
         IN  IF seg.seq # cb.receive_next THEN ReceiveOutOfOrder(c, seg)
             ELSE ReceiveInOrder(c, seg)

\* ControlBlock::receive.
receive(cb, seg) ==
    LET receive_next == cb.receive_next
        after_receive_window == Plus(receive_next, get_receive_window_size(cb))
        old == Lt(seg.seq, receive_next) /\ Lt(SegEnd(seg), receive_next)
        beyond == /\ seg.seq # receive_next
                  /\ ~ Lt(seg.seq, receive_next) /\ Ge(seg.seq, after_receive_window)
        cut == TrimEnd(TrimFront(cb, seg), after_receive_window)
        \* seg_end after the trimming: an emptied segment ends before it starts
        cut_end == IF SegLen(cut) = 0 /\ SegLen(seg) > 0 THEN Minus(cut.seq, 1) ELSE SegEnd(cut)
        inside == Le(receive_next, cut.seq) /\ Lt(cut_end, after_receive_window)
    IN  IF old \/ beyond
        THEN IF seg.rst THEN cb ELSE send_ack(cb)
        ELSE ReceiveInWindow(Fail(cb, "segment_outside_window", inside), seg, cut)

\* Mutants: the window is not opened, or opened by a byte too many.
poll_recv_keeps_window(cb) == [cb EXCEPT !.recv_queue = Tail(@)]

poll_recv_off_by_one(cb) ==
    [cb EXCEPT !.recv_queue = Tail(@), !.reader_next = Plus(@, Head(cb.recv_queue).len + 1)]

\* poll_recv, when the receive queue is not empty.
poll_recv(cb) ==
    [cb EXCEPT !.recv_queue = Tail(@), !.reader_next = Plus(@, Head(cb.recv_queue).len)]

=============================================================================
