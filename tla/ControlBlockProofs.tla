------------------------- MODULE ControlBlockProofs -------------------------
(***************************************************************************)
(* What the handlers of ControlBlock do to the receive side and to the send *)
(* side of a connection, for every stream, window and initial sequence     *)
(* number: ReceiveReceivesAt says that receive keeps the receive queue, the *)
(* store and RCV.NXT in step with the stream of the peer.                  *)
(***************************************************************************)
EXTENDS ReceiveStoreProofs

----------------------------------------------------------------------------
(* What the handlers leave alone. *)

\* The fields of a control block, as NewControlBlock sets them.
Fields == {"state", "send_unacked", "unacked_queue", "send_next", "unsent_queue",
           "unsent_seq_no", "send_window", "last_update_seq", "last_update_ack",
           "reader_next", "receive_next", "recv_queue", "receive_buffer_size",
           "out_of_order", "out_of_order_fin", "user_is_done_sending", "ack_deadline",
           "retransmit_deadline", "task", "arp", "failed", "out"}

IsControlBlock(c) == c = [f \in Fields |-> c[f]]

ReceiveSide(c) == << c.reader_next, c.receive_next, c.recv_queue, c.receive_buffer_size,
                     c.out_of_order, c.out_of_order_fin >>

SendSide(c) == << c.send_unacked, c.unacked_queue, c.send_next, c.unsent_queue,
                  c.user_is_done_sending >>

\* From c to d the receive side stays as it is and so does what the state
\* says of it, unless the connection ends.
KeepsReceiveSide(c, d) ==
    /\ ReceiveSide(d) = ReceiveSide(c)
    /\ c.failed \subseteq d.failed
    /\ \/ d.state = "Closed"
       \/ c.state # "Closed" /\ (d.state \in Receiving <=> c.state \in Receiving)

\* Fail only records the name of an assertion.
LEMMA FailFrame ==
    ASSUME NEW c, IsControlBlock(c), NEW name, NEW holds
    PROVE  LET d == Fail(c, name, holds)
           IN  /\ IsControlBlock(d) /\ d.state = c.state
               /\ ReceiveSide(d) = ReceiveSide(c) /\ SendSide(d) = SendSide(c)
               /\ holds => d.failed = c.failed
               /\ ~ holds => d.failed = c.failed \cup {name}
               /\ KeepsReceiveSide(c, d)
<1>1. CASE holds
  BY <1>1, Zenon DEF Fail, KeepsReceiveSide
<1>2. CASE ~ holds
  BY <1>2, Zenon DEF Fail, KeepsReceiveSide, ReceiveSide, SendSide, IsControlBlock, Fields
<1>. QED  BY <1>1, <1>2, Zenon

\* emit changes neither the queues nor, unless it sends a FIN, the state.
LEMMA EmitFrame ==
    ASSUME NEW c, IsControlBlock(c), NEW seg, seg.fin \in BOOLEAN
    PROVE  LET d == emit(c, seg)
           IN  /\ IsControlBlock(d) /\ d.failed = c.failed
               /\ ReceiveSide(d) = ReceiveSide(c) /\ SendSide(d) = SendSide(c)
               /\ KeepsReceiveSide(c, d)
               /\ ~ seg.fin => d.state = c.state
<1>. DEFINE d == emit(c, seg)
            o == Append(c.out, seg)
            s == CASE seg.fin /\ c.state = "Established" -> "FinWait1"
                   [] seg.fin /\ c.state = "CloseWait" -> "LastAck"
                   [] OTHER -> c.state
<1>1. d = [c EXCEPT !.out = o, !.ack_deadline = FALSE, !.state = s]
  BY Zenon DEF emit
<1>2. /\ ~ seg.fin => s = c.state
      /\ c.state = "Closed" => s = "Closed"
      /\ s = "Closed" \/ (s \in Receiving <=> c.state \in Receiving)
  BY Zenon DEF Receiving
<1>. HIDE DEF d, o, s
<1>3. /\ IsControlBlock(d) /\ d.failed = c.failed /\ d.state = s
      /\ ReceiveSide(d) = ReceiveSide(c) /\ SendSide(d) = SendSide(c)
  BY <1>1, ZenonT(30) DEF IsControlBlock, Fields, ReceiveSide, SendSide
<1>4. KeepsReceiveSide(c, d)
  BY <1>2, <1>3, Zenon DEF KeepsReceiveSide
<1>. QED  BY <1>2, <1>3, <1>4, Zenon DEF d

\* send_ack leaves both sides of the control block alone.
LEMMA SendAckFrame ==
    ASSUME NEW c, IsControlBlock(c)
    PROVE  LET d == send_ack(c)
           IN  /\ IsControlBlock(d) /\ d.failed = c.failed /\ d.state = c.state
               /\ ReceiveSide(d) = ReceiveSide(c) /\ SendSide(d) = SendSide(c)
               /\ KeepsReceiveSide(c, d)
<1>. DEFINE seg == tcp_header(c, c.send_next)
<1>1. seg.fin \in BOOLEAN /\ ~ seg.fin
  BY Zenon DEF tcp_header
<1>2. CASE c.arp
  <2>1. send_ack(c) = emit(c, seg)
    BY <1>2, Zenon DEF send_ack
  <2>. HIDE DEF seg
  <2>. QED  BY <1>1, <2>1, EmitFrame
<1>3. CASE ~ c.arp
  BY <1>3, Zenon DEF send_ack, KeepsReceiveSide
<1>. QED  BY <1>2, <1>3, Zenon

\* What two steps leave alone, both of them together do.
LEMMA KeepsTransitive ==
    ASSUME NEW c, NEW d, NEW e, KeepsReceiveSide(c, d), KeepsReceiveSide(d, e)
    PROVE  KeepsReceiveSide(c, e)
BY Zenon DEF KeepsReceiveSide

\* Acknowledgments only change the send side and the state.
LEMMA RemoveFrame ==
    ASSUME NEW c, IsControlBlock(c), NEW bytes
    PROVE  LET d == remove_acknowledged_data(c, bytes)
           IN  /\ IsControlBlock(d) /\ d.state = c.state
               /\ ReceiveSide(d) = ReceiveSide(c)
               /\ c.failed \subseteq d.failed
               /\ d.failed \subseteq c.failed \cup {"fin_not_last_acknowledged", "unacked_queue_underrun"}
               /\ << d.send_unacked, d.send_next, d.unsent_queue, d.user_is_done_sending >>
                    = << c.send_unacked, c.send_next, c.unsent_queue, c.user_is_done_sending >>
               /\ KeepsReceiveSide(c, d)
<1>1. PICK h1, h2, rest :
          remove_acknowledged_data(c, bytes) =
              [Fail(Fail(c, "fin_not_last_acknowledged", h1), "unacked_queue_underrun", h2)
                  EXCEPT !.unacked_queue = rest]
  BY Zenon DEF remove_acknowledged_data
<1>. DEFINE c1 == Fail(c, "fin_not_last_acknowledged", h1)
            c2 == Fail(c1, "unacked_queue_underrun", h2)
            d == remove_acknowledged_data(c, bytes)
<1>2. IsControlBlock(c1) /\ c1.state = c.state
      /\ ReceiveSide(c1) = ReceiveSide(c) /\ SendSide(c1) = SendSide(c)
      /\ c1.failed \in {c.failed, c.failed \cup {"fin_not_last_acknowledged"}}
  BY FailFrame
<1>. HIDE DEF c1
<1>3. IsControlBlock(c2) /\ c2.state = c1.state
      /\ ReceiveSide(c2) = ReceiveSide(c1) /\ SendSide(c2) = SendSide(c1)
      /\ c2.failed \in {c1.failed, c1.failed \cup {"unacked_queue_underrun"}}
  BY <1>2, FailFrame
<1>4. d = [c2 EXCEPT !.unacked_queue = rest]
  BY <1>1, Zenon DEF c1
<1>. HIDE DEF c2, d
<1>5. /\ IsControlBlock(d) /\ d.state = c2.state /\ d.failed = c2.failed
      /\ ReceiveSide(d) = ReceiveSide(c2)
      /\ << d.send_unacked, d.send_next, d.unsent_queue, d.user_is_done_sending >>
           = << c2.send_unacked, c2.send_next, c2.unsent_queue, c2.user_is_done_sending >>
  BY <1>3, <1>4, Zenon DEF IsControlBlock, Fields, ReceiveSide
<1>6. << c2.send_unacked, c2.send_next, c2.unsent_queue, c2.user_is_done_sending >>
        = << c.send_unacked, c.send_next, c.unsent_queue, c.user_is_done_sending >>
  BY <1>2, <1>3, Zenon DEF SendSide
<1>7. KeepsReceiveSide(c, d)
  BY <1>2, <1>3, <1>5, Zenon DEF KeepsReceiveSide
<1>. QED  BY <1>2, <1>3, <1>5, <1>6, <1>7, Zenon DEF d

\* update_send_window changes the send window and what it was taken from.
LEMMA UpdateWindowFrame ==
    ASSUME NEW c, IsControlBlock(c), NEW seg
    PROVE  LET d == update_send_window(c, seg)
           IN  /\ IsControlBlock(d) /\ d.state = c.state /\ d.failed = c.failed
               /\ ReceiveSide(d) = ReceiveSide(c) /\ SendSide(d) = SendSide(c)
<1>. DEFINE w == seg.win * WindowUnit
            ch == [c.task EXCEPT !.changed = c.task.pc \in {"query_probe", "probe"}]
            sq == seg.seq
            ak == seg.ack_num
            d == [c EXCEPT !.send_window = w, !.last_update_seq = sq,
                           !.last_update_ack = ak, !.task = ch]
<1>1. update_send_window(c, seg) = c \/ update_send_window(c, seg) = d
  BY Zenon DEF update_send_window
<1>. HIDE DEF w, ch, sq, ak
<1>2. /\ IsControlBlock(d) /\ d.state = c.state /\ d.failed = c.failed
      /\ ReceiveSide(d) = ReceiveSide(c) /\ SendSide(d) = SendSide(c)
  <2>1. IsControlBlock(d)
    BY Zenon DEF IsControlBlock
  <2>2. d.state = c.state /\ d.failed = c.failed
    BY Zenon DEF IsControlBlock, Fields
  <2>3. ReceiveSide(d) = ReceiveSide(c)
    BY Zenon DEF IsControlBlock, Fields, ReceiveSide
  <2>4. SendSide(d) = SendSide(c)
    BY Zenon DEF IsControlBlock, Fields, SendSide
  <2>. QED  BY <2>1, <2>2, <2>3, <2>4, Zenon
<1>. HIDE DEF d
<1>. QED  BY <1>1, <1>2, Zenon

\* A new acknowledgment moves SND.UNA and the states that wait for it.
LEMMA AckNewDataFrame ==
    ASSUME NEW c, IsControlBlock(c), NEW seg
    PROVE  LET d == AckNewData(c, seg)
               r == remove_acknowledged_data(c, Minus(seg.ack_num, c.send_unacked))
           IN  /\ IsControlBlock(d)
               /\ KeepsReceiveSide(c, d)
               /\ d.failed = r.failed
               /\ d.failed \subseteq c.failed \cup {"fin_not_last_acknowledged", "unacked_queue_underrun"}
               /\ SendSide(d) = << seg.ack_num, r.unacked_queue, c.send_next, c.unsent_queue,
                                   c.user_is_done_sending >>
               /\ d.state = CASE seg.ack_num = c.send_next /\ c.state = "FinWait1" -> "FinWait2"
                              [] seg.ack_num = c.send_next /\ c.state = "Closing" -> "TimeWait"
                              [] seg.ack_num = c.send_next /\ c.state = "LastAck" -> "Closed"
                              [] OTHER -> c.state
<1>. DEFINE r == remove_acknowledged_data(c, Minus(seg.ack_num, c.send_unacked))
            r1 == [r EXCEPT !.send_unacked = seg.ack_num]
            u == update_send_window(r1, seg)
            all == seg.ack_num = c.send_next
            s == CASE all /\ u.state = "FinWait1" -> "FinWait2"
                   [] all /\ u.state = "Closing" -> "TimeWait"
                   [] all /\ u.state = "LastAck" -> "Closed"
                   [] OTHER -> u.state
            d == AckNewData(c, seg)
<1>1. d = [u EXCEPT !.retransmit_deadline = ~ all, !.state = s]
  BY Zenon DEF AckNewData
<1>2. /\ IsControlBlock(r) /\ r.state = c.state
      /\ ReceiveSide(r) = ReceiveSide(c)
      /\ c.failed \subseteq r.failed
      /\ r.failed \subseteq c.failed \cup {"fin_not_last_acknowledged", "unacked_queue_underrun"}
      /\ r.send_next = c.send_next /\ r.unsent_queue = c.unsent_queue
      /\ r.user_is_done_sending = c.user_is_done_sending
  BY RemoveFrame, Zenon
<1>. HIDE DEF r
<1>3. /\ IsControlBlock(r1) /\ r1.state = r.state /\ r1.failed = r.failed
      /\ ReceiveSide(r1) = ReceiveSide(r)
      /\ SendSide(r1) = << seg.ack_num, r.unacked_queue, r.send_next, r.unsent_queue,
                           r.user_is_done_sending >>
  BY <1>2, Zenon DEF IsControlBlock, Fields, ReceiveSide, SendSide
<1>. HIDE DEF r1
<1>4. /\ IsControlBlock(u) /\ u.state = r1.state /\ u.failed = r1.failed
      /\ ReceiveSide(u) = ReceiveSide(r1) /\ SendSide(u) = SendSide(r1)
  BY <1>3, UpdateWindowFrame, Zenon
<1>. HIDE DEF u, all
<1>5. /\ c.state = "Closed" => s = "Closed"
      /\ s = "Closed" \/ (s \in Receiving <=> c.state \in Receiving)
      /\ s = CASE all /\ c.state = "FinWait1" -> "FinWait2"
               [] all /\ c.state = "Closing" -> "TimeWait"
               [] all /\ c.state = "LastAck" -> "Closed"
               [] OTHER -> c.state
  BY <1>2, <1>3, <1>4, Zenon DEF Receiving
<1>. HIDE DEF s, d
<1>6. /\ IsControlBlock(d) /\ d.failed = u.failed /\ d.state = s
      /\ ReceiveSide(d) = ReceiveSide(u) /\ SendSide(d) = SendSide(u)
  BY <1>1, <1>4, ZenonT(30) DEF IsControlBlock, Fields, ReceiveSide, SendSide
<1>7. KeepsReceiveSide(c, d)
  BY <1>2, <1>3, <1>4, <1>5, <1>6, Zenon DEF KeepsReceiveSide
<1>8. SendSide(d) = << seg.ack_num, r.unacked_queue, c.send_next, c.unsent_queue,
                       c.user_is_done_sending >>
  BY <1>2, <1>3, <1>4, <1>6, Zenon
<1>9. d.failed = r.failed
  BY <1>3, <1>4, <1>6, Zenon
<1>10. d.failed \subseteq c.failed \cup {"fin_not_last_acknowledged", "unacked_queue_underrun"}
  BY <1>2, <1>9, Zenon
<1>. QED  BY <1>5, <1>6, <1>7, <1>8, <1>9, <1>10, Zenon DEF d, r, all

----------------------------------------------------------------------------
(* The receive side of a connection. *)

\* The peer has handed n bytes to its TCP, followed by its FIN if fin.  The
\* application has read rd bytes, the receive queue reaches up to qe, and rn
\* is acknowledged, which counts a FIN.
Positions(n, fin, size, rd, rn, qe) ==
    /\ n \in Nat /\ size \in Nat /\ rd \in Nat /\ rn \in Nat /\ qe \in Nat
    /\ n + size + 2 < Half
    /\ rd <= qe /\ qe <= rn /\ qe <= n /\ rn <= n + 1 /\ rn <= rd + size
    /\ fin \/ rn <= n

\* The right edge of what may be in the store: the stream, and the window.
Edge(n, right) == IF n <= right THEN n ELSE right

\* The fields of the receive side say so.
Side(c, isn, n, fin, size, rd, rn, qe) ==
    /\ c.receive_buffer_size = size
    /\ c.reader_next = At(isn, rd)
    /\ c.receive_next = At(isn, rn)
    /\ Chain(c.recv_queue, rd, qe)
    /\ c.out_of_order \in Seq(StreamEntries(isn, Edge(n, rd + size)))
    /\ Len(c.out_of_order) <= MAX_OUT_OF_ORDER
    /\ c.out_of_order_fin \subseteq {At(isn, n)}
    /\ c.out_of_order_fin # {} => fin /\ n + 1 <= rd + size

\* Until the FIN is taken all that is acknowledged is in the queue.  After it,
\* only the FIN is not, if it was taken in its place.
StateAgrees(c, n, rn, qe) ==
    /\ c.state \in Receiving => qe = rn
    /\ \/ c.state \in Receiving
       \/ c.state = "Closed"
       \/ "fin_is_not_next" \in c.failed
       \/ qe = n /\ rn = n + 1

ReceivesAt(c, isn, n, fin, size, rd, rn, qe) ==
    /\ IsControlBlock(c)
    /\ isn \in SeqNumbers
    /\ Positions(n, fin, size, rd, rn, qe)
    /\ Side(c, isn, n, fin, size, rd, rn, qe)
    /\ StateAgrees(c, n, rn, qe)

\* The positions fit in half of the sequence number space.
LEMMA PositionsInRange ==
    ASSUME NEW n, NEW fin, NEW size, NEW rd, NEW rn, NEW qe,
           Positions(n, fin, size, rd, rn, qe)
    PROVE  /\ {n, n + 1, rd, rn, qe, rd + size} \subseteq Nat
           /\ {n, n + 1, rd, rn, qe, rd + size} \subseteq Offsets
           /\ Edge(n, rd + size) \in Nat /\ Edge(n, rd + size) < Half - 1
           /\ Edge(n, rd + size) <= n /\ Edge(n, rd + size) <= rd + size
           /\ \A k \in Nat : k <= n /\ k <= rd + size => k <= Edge(n, rd + size)
BY HalfAssumption DEF Positions, Edge, Offsets

\* A step that keeps the receive side keeps it in step with the stream.
LEMMA KeepsReceivesAt ==
    ASSUME NEW c, NEW d, NEW isn, NEW n, NEW fin, NEW size, NEW rd, NEW rn, NEW qe,
           ReceivesAt(c, isn, n, fin, size, rd, rn, qe),
           IsControlBlock(d), KeepsReceiveSide(c, d)
    PROVE  ReceivesAt(d, isn, n, fin, size, rd, rn, qe)
<1>1. Side(d, isn, n, fin, size, rd, rn, qe)
  BY Zenon DEF KeepsReceiveSide, ReceivesAt, Side, ReceiveSide
<1>2. StateAgrees(d, n, rn, qe)
  BY Zenon DEF KeepsReceiveSide, ReceivesAt, StateAgrees, Receiving
<1>. QED  BY <1>1, <1>2, Zenon DEF ReceivesAt

\* The states of an end that has not closed its own direction.
Unclosed == {"Established", "CloseWait", "Closed"}

\* From c to d nothing happens on the send side.
KeepsSendSide(c, d) ==
    /\ SendSide(d) = SendSide(c)
    /\ c.state \in Unclosed => d.state \in Unclosed

\* store_out_of_order_segment with a part of the stream inside of the window.
LEMMA StoreReceivesAt ==
    ASSUME NEW c, NEW isn, NEW n, NEW fin, NEW size, NEW rd, NEW rn, NEW qe,
           ReceivesAt(c, isn, n, fin, size, rd, rn, qe),
           NEW o \in Nat, NEW buf \in Bufs, buf.off = o, buf.len > 0,
           o + buf.len <= n, o + buf.len <= rd + size
    PROVE  LET d == store_out_of_order_segment(c, At(isn, o), Plus(At(isn, o), buf.len - 1), buf)
           IN  /\ ReceivesAt(d, isn, n, fin, size, rd, rn, qe)
               /\ SendSide(d) = SendSide(c) /\ d.state = c.state /\ d.failed = c.failed
               /\ d.receive_next = c.receive_next
<1>. DEFINE lim == Edge(n, rd + size)
            SE == StreamEntries(isn, lim)
            end == Plus(At(isn, o), buf.len - 1)
            new == [start |-> At(isn, o), end |-> end, buf |-> buf, index |-> 0, todo |-> "scan"]
            last == ScanPasses(c.out_of_order, new)
            entry == [start |-> last.acc.start, buf |-> last.acc.buf]
            stored == IF last.acc.todo = "insert" THEN insert(last.q, last.acc.index, entry)
                      ELSE Append(last.q, entry)
            kept == SubSeq(stored, 1, Min({Len(stored), MAX_OUT_OF_ORDER}))
            q == IF last.acc.todo = "drop" THEN last.q ELSE kept
            d == store_out_of_order_segment(c, At(isn, o), end, buf)
<1>1. /\ isn \in SeqNumbers /\ lim \in Nat /\ lim < Half - 1
      /\ c.out_of_order \in Seq(SE) /\ Len(c.out_of_order) <= MAX_OUT_OF_ORDER
      /\ IsControlBlock(c)
  BY PositionsInRange, Zenon DEF ReceivesAt, Side
<1>2. o + buf.len <= lim /\ buf.off \in Nat /\ buf.len \in Nat
  <2>1. buf.off \in Nat /\ buf.len \in Nat /\ o + buf.len \in Nat
    BY DEF Bufs
  <2>. QED  BY <2>1, PositionsInRange, Zenon DEF ReceivesAt
<1>3. end = At(isn, buf.off + buf.len - 1) /\ At(isn, o) \in SeqNumbers /\ end \in SeqNumbers
  <2>1. buf.len - 1 \in Nat /\ o \in Offsets /\ o + (buf.len - 1) \in Offsets
        /\ o + (buf.len - 1) = buf.off + buf.len - 1
    <3>. DEFINE k == buf.len
    <3>1. k \in Nat /\ k > 0 /\ o \in Nat /\ o + k < Half - 1 /\ Half \in Nat /\ buf.off = o
      BY <1>1, <1>2, HalfAssumption
    <3>. HIDE DEF k
    <3>2. k - 1 \in Nat /\ o \in Offsets /\ o + (k - 1) \in Offsets /\ o + (k - 1) = o + k - 1
      BY <3>1 DEF Offsets
    <3>. QED  BY <3>1, <3>2, Zenon DEF k
  <2>2. end = At(isn, o + (buf.len - 1))
    BY <2>1, <1>1, AtMove, Zenon
  <2>3. At(isn, o) \in SeqNumbers /\ At(isn, o + (buf.len - 1)) \in SeqNumbers
    BY <2>1, <1>1, AtCompare, Zenon
  <2>. QED  BY <2>1, <2>2, <2>3, Zenon
<1>4. new \in Scans(isn, lim) /\ new.index = 0 /\ new.todo = "scan"
  <2>. HIDE DEF end, lim
  <2>1. new \in ScanRecords
    BY <1>3, Zenon DEF ScanRecords, Todos
  <2>. QED  BY <2>1, <1>2, <1>3, Zenon DEF Scans
<1>5. d = [c EXCEPT !.out_of_order = q]
  BY Zenon DEF store_out_of_order_segment
<1>. HIDE DEF new
<1>6. /\ last.q \in Seq(SE) /\ Len(last.q) <= Len(c.out_of_order)
      /\ kept \in Seq(SE) /\ Len(kept) <= MAX_OUT_OF_ORDER
  <2>. HIDE DEF lim
  <2>. QED  BY <1>1, <1>4, StoreKeeps, Zenon
<1>. HIDE DEF last, kept
<1>7. q \in Seq(SE) /\ Len(q) <= MAX_OUT_OF_ORDER
  <2>1. Len(last.q) \in Nat /\ Len(c.out_of_order) \in Nat /\ MAX_OUT_OF_ORDER \in Nat
    BY <1>1, <1>6, ControlBlockAssumption
  <2>. HIDE DEF SE
  <2>. QED  BY <2>1, <1>1, <1>6
<1>. HIDE DEF q, d
<1>8. /\ IsControlBlock(d) /\ SendSide(d) = SendSide(c) /\ d.state = c.state /\ d.failed = c.failed
      /\ d.receive_next = c.receive_next /\ d.out_of_order = q
      /\ d.reader_next = c.reader_next /\ d.recv_queue = c.recv_queue
      /\ d.receive_buffer_size = c.receive_buffer_size /\ d.out_of_order_fin = c.out_of_order_fin
  BY <1>1, <1>5, Zenon DEF IsControlBlock, Fields, SendSide
<1>9. Side(d, isn, n, fin, size, rd, rn, qe)
  BY <1>7, <1>8, Zenon DEF ReceivesAt, Side
<1>10. StateAgrees(d, n, rn, qe)
  BY <1>8, Zenon DEF ReceivesAt, StateAgrees
<1>11. ReceivesAt(d, isn, n, fin, size, rd, rn, qe)
  BY <1>8, <1>9, <1>10, Zenon DEF ReceivesAt
<1>. QED  BY <1>8, <1>11, Zenon DEF d, end

\* receive_data with the data that is next.  A FIN it reports was put aside
\* before; if bytes are still missing before it, the assertion has failed.
LEMMA ReceiveDataReceivesAt ==
    ASSUME NEW c, NEW isn, NEW n, NEW fin, NEW size, NEW rd, NEW rn, NEW qe,
           ReceivesAt(c, isn, n, fin, size, rd, rn, qe), c.state \in Receiving,
           NEW buf \in Bufs, buf.off = rn, buf.len > 0,
           rn + buf.len <= n, rn + buf.len <= rd + size
    PROVE  LET got == receive_data(c, buf)
               d == got.cb
           IN  /\ d.state = c.state /\ SendSide(d) = SendSide(c)
               /\ c.failed \subseteq d.failed /\ d.failed \subseteq c.failed \cup {"fin_is_not_next"}
               /\ \E e \in Nat :
                     /\ ReceivesAt(d, isn, n, fin, size, rd, e, e)
                     /\ rn + buf.len <= e
                     /\ got.fin => /\ fin /\ n + 1 <= rd + size
                                   /\ e = n \/ "fin_is_not_next" \in d.failed
<1>. DEFINE q == c.out_of_order
            o == rn + buf.len
            next == Plus(c.receive_next, buf.len)
            k == InOrderEntries(q, At(isn, o))
            recv_next == IF k = 0 THEN next ELSE Plus(StoredEnd(q[k]), 1)
            f == k > 0 /\ c.out_of_order_fin # {}
            h == f => c.out_of_order_fin = {recv_next}
            c1 == Fail(c, "fin_is_not_next", h)
            run == Run(q, k)
            queue == c.recv_queue \o << buf >> \o run
            rest == SubSeq(q, k + 1, Len(q))
            lim == Edge(n, rd + size)
            SE == StreamEntries(isn, lim)
            d == receive_data(c, buf).cb
<1>1. /\ isn \in SeqNumbers /\ lim \in Nat /\ lim < Half - 1 /\ lim <= n /\ lim <= rd + size
      /\ q \in Seq(SE) /\ Len(q) <= MAX_OUT_OF_ORDER /\ Len(q) \in Nat
      /\ IsControlBlock(c)
      /\ n \in Nat /\ rd \in Nat /\ rn \in Nat /\ size \in Nat /\ rd <= rn /\ rn \in Offsets /\ n \in Offsets
  <2>1. Positions(n, fin, size, rd, rn, qe) /\ isn \in SeqNumbers /\ IsControlBlock(c)
    BY Zenon DEF ReceivesAt
  <2>2. lim \in Nat /\ lim < Half - 1 /\ lim <= n /\ lim <= rd + size /\ rn \in Offsets /\ n \in Offsets
    BY <2>1, PositionsInRange, Zenon
  <2>3. n \in Nat /\ rd \in Nat /\ rn \in Nat /\ size \in Nat /\ rd <= rn
    BY <2>1 DEF Positions
  <2>4. q \in Seq(SE) /\ Len(q) <= MAX_OUT_OF_ORDER
    BY Zenon DEF ReceivesAt, Side
  <2>. QED  BY <2>1, <2>2, <2>3, <2>4
<1>2. o \in Nat /\ o <= lim /\ buf.len \in Nat /\ o \in Offsets /\ rn < o
  <2>1. buf.len \in Nat /\ o \in Nat
    BY <1>1 DEF Bufs
  <2>2. o <= lim
    BY <2>1, PositionsInRange, Zenon DEF ReceivesAt
  <2>. QED  BY <1>1, <2>1, <2>2, HalfAssumption, SMTT(30) DEF Offsets
<1>3. next = At(isn, o)
  BY <1>1, <1>2, AtMove DEF ReceivesAt, Side
<1>4. /\ k \in 0..Len(q)
      /\ \E e \in Nat :
           /\ o <= e /\ (k = 0 => e = o) /\ (k > 0 => o < e /\ e <= lim)
           /\ Chain(run, o, e)
           /\ At(isn, e) = IF k = 0 THEN At(isn, o) ELSE Plus(StoredEnd(q[k]), 1)
  <2>1. /\ isn \in SeqNumbers /\ lim \in Nat /\ lim < Half - 1
        /\ q \in Seq(StreamEntries(isn, lim))
        /\ o \in Nat /\ o \in Offsets
    BY <1>1, <1>2, Zenon
  <2>. HIDE DEF lim, q, o, next
  <2>. QED  BY ONLY <2>1, InOrderRun, Zenon
<1>. HIDE DEF k
<1>5. PICK e \in Nat :
           /\ o <= e /\ (k = 0 => e = o) /\ (k > 0 => o < e /\ e <= lim)
           /\ Chain(run, o, e)
           /\ At(isn, e) = IF k = 0 THEN At(isn, o) ELSE Plus(StoredEnd(q[k]), 1)
  BY <1>4, Zenon
<1>6. recv_next = At(isn, e) /\ e <= lim /\ e \in Offsets /\ e <= n /\ e <= rd + size
  <2>1. recv_next = At(isn, e)
    BY <1>3, <1>5, Zenon
  <2>2. e <= lim
    BY <1>2, <1>4, <1>5, <1>1
  <2>. QED  BY <2>1, <2>2, <1>1, HalfAssumption DEF Offsets
<1>7. Chain(queue, rd, e)
  <2>1. Chain(c.recv_queue, rd, rn)
    BY Zenon DEF ReceivesAt, Side, StateAgrees
  <2>2. Chain(<< buf >>, rn, o)
    <3>1. << buf >> \in Seq(Bufs) /\ Len(<< buf >>) = 1 /\ << buf >>[1] = buf /\ << buf >> # << >>
      OBVIOUS
    <3>. QED  BY <3>1 DEF Chain
  <2>. HIDE DEF o, run
  <2>3. Chain(c.recv_queue \o << buf >>, rd, o)
    BY <2>1, <2>2, <1>1, <1>2, ChainConcat, Zenon
  <2>. QED  BY <2>3, <1>1, <1>2, <1>5, ChainConcat, Zenon
<1>8. rest \in Seq(SE) /\ Len(rest) <= MAX_OUT_OF_ORDER
  <2>1. \A i \in (k + 1)..Len(q) : q[i] \in SE
    BY <1>1, <1>4, ElementOfSeq
  <2>2. k + 1 \in Int /\ Len(q) \in Int
    BY <1>1, <1>4
  <2>. HIDE DEF SE, q
  <2>3. rest \in Seq(SE) /\ Len(rest) = IF k + 1 <= Len(q) THEN Len(q) - (k + 1) + 1 ELSE 0
    BY <2>1, <2>2, <1>1, SubSeqProperties
  <2>. QED  BY <2>3, <1>1, <1>4, ControlBlockAssumption, SMTT(30)
<1>9. /\ IsControlBlock(c1) /\ c1.state = c.state
      /\ ReceiveSide(c1) = ReceiveSide(c) /\ SendSide(c1) = SendSide(c)
      /\ h => c1.failed = c.failed
      /\ ~ h => c1.failed = c.failed \cup {"fin_is_not_next"}
  <2>. HIDE DEF h
  <2>. QED  BY <1>1, FailFrame
<1>10. d = [c1 EXCEPT !.recv_queue = queue, !.receive_next = recv_next, !.out_of_order = rest]
       /\ receive_data(c, buf).fin = f
  <2>1. c1.recv_queue = c.recv_queue
    BY <1>9, Zenon DEF ReceiveSide
  <2>. QED  BY <2>1, <1>3, Zenon DEF receive_data, Run, k
<1>. HIDE DEF c1, f, h, recv_next, queue, rest, d
<1>11. /\ IsControlBlock(d) /\ d.state = c1.state /\ d.failed = c1.failed
       /\ d.receive_next = recv_next /\ d.recv_queue = queue /\ d.out_of_order = rest
       /\ d.reader_next = c1.reader_next /\ d.receive_buffer_size = c1.receive_buffer_size
       /\ d.out_of_order_fin = c1.out_of_order_fin
       /\ SendSide(d) = SendSide(c1)
  <2>1. IsControlBlock(d)
    BY <1>9, <1>10, Zenon DEF IsControlBlock
  <2>. QED  BY <2>1, <1>9, <1>10, Zenon DEF IsControlBlock, Fields, SendSide
<1>12. /\ d.reader_next = c.reader_next /\ d.receive_buffer_size = c.receive_buffer_size
       /\ d.out_of_order_fin = c.out_of_order_fin
  BY <1>9, <1>11, Zenon DEF ReceiveSide
<1>13. Side(d, isn, n, fin, size, rd, e, e)
  <2>. HIDE DEF q
  <2>. QED  BY <1>6, <1>7, <1>8, <1>11, <1>12, Zenon DEF ReceivesAt, Side
<1>14. Positions(n, fin, size, rd, e, e)
  BY <1>1, <1>2, <1>5, <1>6, SMTT(30) DEF ReceivesAt, Positions
<1>15. ReceivesAt(d, isn, n, fin, size, rd, e, e)
  BY <1>1, <1>9, <1>11, <1>13, <1>14, Zenon DEF ReceivesAt, StateAgrees
<1>16. f => /\ fin /\ n + 1 <= rd + size
            /\ e = n \/ "fin_is_not_next" \in d.failed
  <2>. SUFFICES ASSUME f
                PROVE  /\ fin /\ n + 1 <= rd + size
                       /\ e = n \/ "fin_is_not_next" \in d.failed
    BY Zenon
  <2>1. c.out_of_order_fin # {} /\ c.out_of_order_fin \subseteq {At(isn, n)}
    BY Zenon DEF f, ReceivesAt, Side
  <2>2. fin /\ n + 1 <= rd + size
    BY <2>1, Zenon DEF ReceivesAt, Side
  <2>3. CASE c.out_of_order_fin = {recv_next}
    <3>1. At(isn, e) = At(isn, n)
      BY <2>1, <2>3, <1>6, Zenon
    <3>. QED  BY <3>1, <2>2, <1>1, <1>6, AtInjective, Zenon
  <2>4. CASE c.out_of_order_fin # {recv_next}
    BY <2>2, <2>4, <1>9, <1>11, Zenon DEF h
  <2>. QED  BY <2>3, <2>4, Zenon
<1>17. c.failed \subseteq d.failed /\ d.failed \subseteq c.failed \cup {"fin_is_not_next"}
  BY <1>9, <1>11, Zenon
<1>18. d.state = c.state /\ SendSide(d) = SendSide(c)
  BY <1>9, <1>11, Zenon
<1>19. rn + buf.len <= e
  BY <1>5, Zenon DEF o
<1>. QED  BY <1>10, <1>15, <1>16, <1>17, <1>18, <1>19, Zenon DEF d

\* A FIN that is taken moves RCV.NXT past it.
LEMMA ReceiveFinReceivesAt ==
    ASSUME NEW c, NEW isn, NEW n, NEW fin, NEW size, NEW rd, NEW rn, NEW qe,
           ReceivesAt(c, isn, n, fin, size, rd, rn, qe),
           fin, n + 1 <= rd + size, rn <= n,
           c.state \in Receiving => rn = n \/ "fin_is_not_next" \in c.failed
    PROVE  LET d == ReceiveFin(c)
           IN  /\ ReceivesAt(d, isn, n, fin, size, rd, rn + 1, qe)
               /\ KeepsSendSide(c, d)
               /\ d.failed = IF c.state = "Closed" THEN c.failed \cup {"fin_when_closed"} ELSE c.failed
<1>. DEFINE h == c.state # "Closed"
            f == Fail(c, "fin_when_closed", h)
            next == Plus(f.receive_next, 1)
            s == CASE f.state = "Established" -> "CloseWait"
                   [] f.state = "FinWait1" -> "Closing"
                   [] f.state = "FinWait2" -> "TimeWait"
                   [] OTHER -> f.state
            adv == [f EXCEPT !.receive_next = next, !.state = s]
            d == ReceiveFin(c)
<1>1. IsControlBlock(c) /\ isn \in SeqNumbers /\ Positions(n, fin, size, rd, rn, qe)
      /\ rn \in Nat /\ n \in Nat /\ rn \in Offsets /\ rn + 1 \in Offsets /\ 1 \in Nat
  BY PositionsInRange, HalfAssumption DEF ReceivesAt, Positions, Offsets
<1>2. /\ IsControlBlock(f) /\ f.state = c.state
      /\ ReceiveSide(f) = ReceiveSide(c) /\ SendSide(f) = SendSide(c)
      /\ f.failed = IF c.state = "Closed" THEN c.failed \cup {"fin_when_closed"} ELSE c.failed
  <2>1. /\ IsControlBlock(f) /\ f.state = c.state
        /\ ReceiveSide(f) = ReceiveSide(c) /\ SendSide(f) = SendSide(c)
        /\ h => f.failed = c.failed
        /\ ~ h => f.failed = c.failed \cup {"fin_when_closed"}
    <3>. HIDE DEF h
    <3>. QED  BY <1>1, FailFrame
  <2>. HIDE DEF f
  <2>. QED  BY <2>1, Zenon
<1>3. d = IF c.state = "Closed" THEN adv ELSE send_ack(adv)
  BY Zenon DEF ReceiveFin
<1>. HIDE DEF f
<1>4. next = At(isn, rn + 1)
  <2>1. f.receive_next = At(isn, rn)
    BY <1>2, Zenon DEF ReceiveSide, ReceivesAt, Side
  <2>. QED  BY <2>1, <1>1, AtMove
<1>5. s \notin Receiving /\ (c.state \in Unclosed => s \in Unclosed)
      /\ (c.state \notin Receiving => s = c.state)
  BY <1>2, Zenon DEF Receiving, Unclosed
<1>. HIDE DEF next, s
<1>6. /\ IsControlBlock(adv) /\ adv.state = s /\ adv.failed = f.failed
      /\ adv.receive_next = next /\ adv.reader_next = f.reader_next
      /\ adv.recv_queue = f.recv_queue /\ adv.receive_buffer_size = f.receive_buffer_size
      /\ adv.out_of_order = f.out_of_order /\ adv.out_of_order_fin = f.out_of_order_fin
      /\ SendSide(adv) = SendSide(f)
  BY <1>2, ZenonT(30) DEF IsControlBlock, Fields, SendSide
<1>. HIDE DEF adv
<1>7. Side(adv, isn, n, fin, size, rd, rn + 1, qe)
  BY <1>2, <1>4, <1>6, Zenon DEF ReceivesAt, Side, ReceiveSide
<1>8. Positions(n, fin, size, rd, rn + 1, qe)
  BY <1>1 DEF Positions
<1>9. StateAgrees(adv, n, rn + 1, qe)
  <2>1. CASE c.state \in Receiving
    BY <2>1, <1>1, <1>2, <1>5, <1>6, Zenon DEF ReceivesAt, StateAgrees
  <2>2. CASE c.state \notin Receiving
    <3>1. c.state = "Closed" \/ "fin_is_not_next" \in c.failed
      <4>1. rn # n + 1
        BY <1>1
      <4>. QED  BY <4>1, <2>2, Zenon DEF ReceivesAt, StateAgrees
    <3>. QED  BY <3>1, <2>2, <1>2, <1>5, <1>6, Zenon DEF StateAgrees
  <2>. QED  BY <2>1, <2>2, Zenon
<1>10. ReceivesAt(adv, isn, n, fin, size, rd, rn + 1, qe)
  BY <1>1, <1>6, <1>7, <1>8, <1>9, Zenon DEF ReceivesAt
<1>11. /\ IsControlBlock(send_ack(adv)) /\ send_ack(adv).failed = adv.failed
       /\ send_ack(adv).state = adv.state /\ SendSide(send_ack(adv)) = SendSide(adv)
       /\ KeepsReceiveSide(adv, send_ack(adv))
  BY <1>6, SendAckFrame, Zenon
<1>12. ReceivesAt(send_ack(adv), isn, n, fin, size, rd, rn + 1, qe)
  BY <1>10, <1>11, KeepsReceivesAt, Zenon
<1>13. /\ ReceivesAt(d, isn, n, fin, size, rd, rn + 1, qe)
       /\ d.failed = adv.failed /\ d.state = adv.state /\ SendSide(d) = SendSide(adv)
  BY <1>3, <1>10, <1>11, <1>12, Zenon
<1>. HIDE DEF d
<1>. QED  BY <1>2, <1>5, <1>6, <1>13, Zenon DEF KeepsSendSide, d

\* What is left of a segment of the peer after the trimming in receive: it
\* starts at offset o of the stream and ends in the window.
TrimmedAt(seg, isn, n, fin, right, rn, o) ==
    /\ o \in Nat /\ rn <= o /\ o <= n + 1
    /\ seg.seq = At(isn, o)
    /\ seg.buf \in Bufs
    /\ ~ seg.syn
    /\ seg.buf.len > 0 => seg.buf.off = o /\ o + seg.buf.len <= n /\ o + seg.buf.len <= right
    /\ seg.fin => fin /\ o + seg.buf.len = n /\ n + 1 <= right

\* The handling of a segment that is not the next one.
LEMMA OutOfOrderReceivesAt ==
    ASSUME NEW c, NEW isn, NEW n, NEW fin, NEW size, NEW rd, NEW rn, NEW qe,
           ReceivesAt(c, isn, n, fin, size, rd, rn, qe),
           NEW seg, NEW o, TrimmedAt(seg, isn, n, fin, rd + size, rn, o)
    PROVE  LET d == ReceiveOutOfOrder(c, seg)
           IN  /\ ReceivesAt(d, isn, n, fin, size, rd, rn, qe)
               /\ KeepsSendSide(c, d)
               /\ d.failed = c.failed
<1>. DEFINE F == {SegEnd(seg)}
            m == [c EXCEPT !.out_of_order_fin = F]
            c1 == IF seg.fin THEN m ELSE c
            end == Plus(seg.seq, seg.buf.len - 1)
            c2 == IF seg.buf.len = 0 THEN c1 ELSE store_out_of_order_segment(c1, seg.seq, end, seg.buf)
            d == ReceiveOutOfOrder(c, seg)
<1>1. d = c \/ d = send_ack(c2)
  BY Zenon DEF ReceiveOutOfOrder
<1>2. /\ IsControlBlock(c) /\ isn \in SeqNumbers /\ Positions(n, fin, size, rd, rn, qe)
      /\ o \in Nat /\ n \in Nat /\ seg.buf \in Bufs /\ seg.buf.len \in Nat /\ seg.seq = At(isn, o)
      /\ n \in Offsets
  BY PositionsInRange, Zenon DEF ReceivesAt, TrimmedAt, Positions, Bufs
<1>3. seg.fin => SegEnd(seg) = At(isn, n) /\ fin /\ n + 1 <= rd + size
  <2>. SUFFICES ASSUME seg.fin PROVE SegEnd(seg) = At(isn, n) /\ fin /\ n + 1 <= rd + size
    BY Zenon
  <2>1. fin /\ o + seg.buf.len = n /\ n + 1 <= rd + size /\ ~ seg.syn
    BY Zenon DEF TrimmedAt
  <2>2. SegLen(seg) = seg.buf.len + 1
    BY <2>1, <1>2 DEF SegLen
  <2>3. SegEnd(seg) = Plus(At(isn, o), seg.buf.len)
    BY <2>2, <1>2 DEF SegEnd
  <2>4. o \in Offsets
    BY <2>1, <1>2, HalfAssumption DEF Offsets
  <2>. QED  BY <2>1, <2>3, <2>4, <1>2, AtMove, Zenon
<1>4. seg.fin => /\ ReceivesAt(m, isn, n, fin, size, rd, rn, qe) /\ SendSide(m) = SendSide(c)
                 /\ m.state = c.state /\ m.failed = c.failed
  <2>. SUFFICES ASSUME seg.fin
                PROVE  ReceivesAt(m, isn, n, fin, size, rd, rn, qe) /\ SendSide(m) = SendSide(c)
                       /\ m.state = c.state /\ m.failed = c.failed
    BY Zenon
  <2>1. F = {At(isn, n)}
    BY <1>3, Zenon
  <2>. HIDE DEF F
  <2>2. /\ IsControlBlock(m) /\ SendSide(m) = SendSide(c) /\ m.state = c.state /\ m.failed = c.failed
        /\ m.receive_next = c.receive_next /\ m.out_of_order = c.out_of_order
        /\ m.reader_next = c.reader_next /\ m.recv_queue = c.recv_queue
        /\ m.receive_buffer_size = c.receive_buffer_size /\ m.out_of_order_fin = F
    BY <1>2, Zenon DEF IsControlBlock, Fields, SendSide
  <2>. HIDE DEF m
  <2>3. Side(m, isn, n, fin, size, rd, rn, qe)
    BY <2>1, <2>2, <1>3, Zenon DEF ReceivesAt, Side
  <2>4. StateAgrees(m, n, rn, qe)
    BY <2>2, Zenon DEF ReceivesAt, StateAgrees
  <2>. QED  BY <2>2, <2>3, <2>4, <1>2, Zenon DEF ReceivesAt
<1>. HIDE DEF m
<1>5. ReceivesAt(c1, isn, n, fin, size, rd, rn, qe) /\ SendSide(c1) = SendSide(c)
      /\ c1.state = c.state /\ c1.failed = c.failed
  BY <1>4, Zenon
<1>. HIDE DEF c1
<1>6. ReceivesAt(c2, isn, n, fin, size, rd, rn, qe) /\ SendSide(c2) = SendSide(c1)
      /\ c2.state = c1.state /\ c2.failed = c1.failed
  <2>1. CASE seg.buf.len = 0
    BY <2>1, <1>5, Zenon
  <2>2. CASE seg.buf.len # 0
    <3>1. seg.buf.len > 0
      BY <2>2, <1>2
    <3>2. seg.buf.off = o /\ o + seg.buf.len <= n /\ o + seg.buf.len <= rd + size
      BY <3>1, Zenon DEF TrimmedAt
    <3>. DEFINE buf == seg.buf
                e == store_out_of_order_segment(c1, At(isn, o), Plus(At(isn, o), buf.len - 1), buf)
    <3>3. c2 = e
      BY <2>2, <1>2, Zenon
    <3>4. buf \in Bufs /\ buf.off = o /\ buf.len > 0 /\ o + buf.len <= n /\ o + buf.len <= rd + size
      BY <1>2, <3>1, <3>2, Zenon
    <3>. HIDE DEF buf
    <3>5. ReceivesAt(e, isn, n, fin, size, rd, rn, qe) /\ SendSide(e) = SendSide(c1)
          /\ e.state = c1.state /\ e.failed = c1.failed
      BY <3>4, <1>2, <1>5, StoreReceivesAt
    <3>. HIDE DEF e, c2
    <3>. QED  BY <3>3, <3>5, Zenon
  <2>. QED  BY <2>1, <2>2, Zenon
<1>. HIDE DEF c2
<1>7. /\ IsControlBlock(send_ack(c2)) /\ send_ack(c2).failed = c2.failed
      /\ send_ack(c2).state = c2.state /\ SendSide(send_ack(c2)) = SendSide(c2)
      /\ KeepsReceiveSide(c2, send_ack(c2))
  BY <1>6, SendAckFrame, Zenon DEF ReceivesAt
<1>8. ReceivesAt(send_ack(c2), isn, n, fin, size, rd, rn, qe)
  BY <1>6, <1>7, KeepsReceivesAt, Zenon
<1>. HIDE DEF d
<1>9. ReceivesAt(d, isn, n, fin, size, rd, rn, qe) /\ SendSide(d) = SendSide(c)
      /\ d.state = c.state /\ d.failed = c.failed
  BY <1>1, <1>5, <1>6, <1>7, <1>8, Zenon
<1>. QED  BY <1>9, Zenon DEF KeepsSendSide, d

\* The handling of the next segment.
LEMMA InOrderReceivesAt ==
    ASSUME NEW c, NEW isn, NEW n, NEW fin, NEW size, NEW rd, NEW rn, NEW qe,
           ReceivesAt(c, isn, n, fin, size, rd, rn, qe),
           NEW seg, TrimmedAt(seg, isn, n, fin, rd + size, rn, rn)
    PROVE  LET d == ReceiveInOrder(c, seg)
           IN  /\ \E rn2 \in Nat, qe2 \in Nat : ReceivesAt(d, isn, n, fin, size, rd, rn2, qe2)
               /\ KeepsSendSide(c, d)
               /\ c.failed \subseteq d.failed
               /\ d.failed \subseteq c.failed \cup {"fin_is_not_next", "fin_when_closed"}
               /\ "fin_when_closed" \in d.failed => "fin_when_closed" \in c.failed \/ (c.state = "Closed" /\ rn <= n)
<1>. DEFINE buf == seg.buf
            text == buf.len > 0 /\ c.state \in Receiving
            got == IF text THEN receive_data(c, buf) ELSE [cb |-> c, fin |-> FALSE]
            g == got.cb
            d == ReceiveInOrder(c, seg)
            ack == [g EXCEPT !.ack_deadline = FALSE]
            late == [g EXCEPT !.ack_deadline = TRUE]
<1>1. /\ IsControlBlock(c) /\ isn \in SeqNumbers /\ Positions(n, fin, size, rd, rn, qe)
      /\ rn \in Nat /\ n \in Nat /\ qe \in Nat /\ buf \in Bufs /\ buf.len \in Nat
  BY Zenon DEF ReceivesAt, TrimmedAt, Positions, Bufs
<1>2. /\ d = ReceiveFin(g) /\ (seg.fin \/ got.fin)
      \/ d = g \/ d = send_ack(ack) \/ d = late
  BY Zenon DEF ReceiveInOrder
<1>. HIDE DEF d
<1>3. /\ g.state = c.state /\ SendSide(g) = SendSide(c)
      /\ c.failed \subseteq g.failed /\ g.failed \subseteq c.failed \cup {"fin_is_not_next"}
      /\ \E e \in Nat, x \in Nat :
            /\ ReceivesAt(g, isn, n, fin, size, rd, e, x)
            /\ got.fin \/ seg.fin => fin /\ n + 1 <= rd + size /\ e <= n
            /\ got.fin \/ seg.fin => (c.state \in Receiving => e = n \/ "fin_is_not_next" \in g.failed)
            /\ c.state = "Closed" => e = rn
  <2>1. CASE text
    <3>1. buf.off = rn /\ rn + buf.len <= n /\ rn + buf.len <= rd + size /\ buf.len > 0 /\ c.state \in Receiving
      BY <2>1, Zenon DEF TrimmedAt
    <3>2. got = receive_data(c, buf)
      BY <2>1, Zenon
    <3>. HIDE DEF text, got, buf
    <3>3. g.state = c.state /\ SendSide(g) = SendSide(c)
          /\ c.failed \subseteq g.failed /\ g.failed \subseteq c.failed \cup {"fin_is_not_next"}
      BY <3>1, <3>2, <1>1, ReceiveDataReceivesAt
    <3>4. PICK e \in Nat :
             /\ ReceivesAt(g, isn, n, fin, size, rd, e, e)
             /\ rn + buf.len <= e
             /\ got.fin => /\ fin /\ n + 1 <= rd + size
                           /\ e = n \/ "fin_is_not_next" \in g.failed
      BY <3>1, <3>2, <1>1, ReceiveDataReceivesAt
    <3>5. e <= n
      BY <3>4, Zenon DEF ReceivesAt, Positions
    <3>6. seg.fin => fin /\ n + 1 <= rd + size /\ e = n
      <4>1. seg.fin => fin /\ n + 1 <= rd + size /\ rn + buf.len = n
        BY Zenon DEF TrimmedAt, buf
      <4>. QED  BY <4>1, <3>4, <3>5, <1>1
    <3>7. c.state # "Closed"
      BY <3>1, Zenon DEF Receiving
    <3>. QED  BY <3>3, <3>4, <3>5, <3>6, <3>7, Zenon
  <2>2. CASE ~ text
    <3>1. g = c /\ got.fin = FALSE
      BY <2>2, Zenon
    <3>2. seg.fin => fin /\ n + 1 <= rd + size /\ rn <= n
      BY <1>1 DEF TrimmedAt
    <3>3. seg.fin /\ c.state \in Receiving => rn = n
      <4>. SUFFICES ASSUME seg.fin, c.state \in Receiving PROVE rn = n
        BY Zenon
      <4>1. buf.len = 0
        BY <2>2, <1>1
      <4>2. rn + buf.len = n
        BY Zenon DEF TrimmedAt
      <4>. QED  BY <4>1, <4>2, <1>1
    <3>. HIDE DEF g, got
    <3>. QED  BY <3>1, <3>2, <3>3, <1>1, Zenon
  <2>. QED  BY <2>1, <2>2, Zenon
<1>. HIDE DEF g, got, text
<1>4. PICK e \in Nat, x \in Nat :
            /\ ReceivesAt(g, isn, n, fin, size, rd, e, x)
            /\ got.fin \/ seg.fin => fin /\ n + 1 <= rd + size /\ e <= n
            /\ got.fin \/ seg.fin => (c.state \in Receiving => e = n \/ "fin_is_not_next" \in g.failed)
            /\ c.state = "Closed" => e = rn
  BY <1>3, Zenon
<1>5. CASE d = ReceiveFin(g) /\ (seg.fin \/ got.fin)
  <2>1. /\ ReceivesAt(d, isn, n, fin, size, rd, e + 1, x)
        /\ KeepsSendSide(g, d)
        /\ d.failed = IF g.state = "Closed" THEN g.failed \cup {"fin_when_closed"} ELSE g.failed
    BY <1>3, <1>4, <1>5, ReceiveFinReceivesAt, Zenon
  <2>2. KeepsSendSide(c, d)
    BY <2>1, <1>3, Zenon DEF KeepsSendSide
  <2>3. c.state = "Closed" => rn <= n
    BY <1>4, <1>5, Zenon
  <2>4. e + 1 \in Nat
    OBVIOUS
  <2>. QED  BY <2>1, <2>2, <2>3, <2>4, <1>3 DEF d
<1>6. CASE d = g
  BY <1>3, <1>4, <1>6, Zenon DEF KeepsSendSide, d
<1>7. /\ IsControlBlock(ack) /\ ack.failed = g.failed /\ ack.state = g.state /\ SendSide(ack) = SendSide(g)
      /\ KeepsReceiveSide(g, ack)
      /\ IsControlBlock(late) /\ late.failed = g.failed /\ late.state = g.state /\ SendSide(late) = SendSide(g)
      /\ KeepsReceiveSide(g, late)
  <2>1. IsControlBlock(g)
    BY <1>4, Zenon DEF ReceivesAt
  <2>2. /\ IsControlBlock(ack) /\ ack.failed = g.failed /\ ack.state = g.state /\ SendSide(ack) = SendSide(g)
        /\ ReceiveSide(ack) = ReceiveSide(g)
    BY <2>1, Zenon DEF IsControlBlock, Fields, SendSide, ReceiveSide
  <2>3. /\ IsControlBlock(late) /\ late.failed = g.failed /\ late.state = g.state /\ SendSide(late) = SendSide(g)
        /\ ReceiveSide(late) = ReceiveSide(g)
    BY <2>1, Zenon DEF IsControlBlock, Fields, SendSide, ReceiveSide
  <2>. HIDE DEF ack, late
  <2>. QED  BY <2>2, <2>3, Zenon DEF KeepsReceiveSide
<1>. HIDE DEF ack, late
<1>8. /\ IsControlBlock(send_ack(ack)) /\ send_ack(ack).failed = ack.failed
      /\ send_ack(ack).state = ack.state /\ SendSide(send_ack(ack)) = SendSide(ack)
      /\ KeepsReceiveSide(ack, send_ack(ack))
  BY <1>7, SendAckFrame, Zenon
<1>9. KeepsReceiveSide(g, send_ack(ack))
  BY <1>7, <1>8, KeepsTransitive, Zenon
<1>10. CASE d = send_ack(ack) \/ d = late
  <2>1. IsControlBlock(d) /\ KeepsReceiveSide(g, d) /\ d.failed = g.failed /\ d.state = g.state /\ SendSide(d) = SendSide(g)
    BY <1>7, <1>8, <1>9, <1>10, Zenon
  <2>2. ReceivesAt(d, isn, n, fin, size, rd, e, x)
    BY <2>1, <1>4, KeepsReceivesAt, Zenon
  <2>. QED  BY <2>1, <2>2, <1>3 DEF KeepsSendSide, d
<1>. QED  BY <1>2, <1>5, <1>6, <1>10, Zenon

----------------------------------------------------------------------------
(* The acceptance test and the trimming of receive. *)

SegmentFields == {"seq", "ack", "ack_num", "win", "syn", "fin", "rst", "buf"}

IsSegment(seg) == seg = [f \in SegmentFields |-> seg[f]]

\* A segment of the peer: bytes of its stream from offset o, or its FIN.
SegmentAt(seg, isn, n, fin, o) ==
    /\ IsSegment(seg)
    /\ o \in Nat /\ o <= n + 1
    /\ seg.seq = At(isn, o)
    /\ seg.buf \in Bufs
    /\ ~ seg.syn
    /\ seg.buf.len > 0 => seg.buf.off = o /\ o + seg.buf.len <= n
    /\ seg.fin => fin /\ o + seg.buf.len = n

\* The sequence space of a segment.
LEMMA SegmentSpace ==
    ASSUME NEW isn \in SeqNumbers, NEW n \in Nat, n + 2 < Half, NEW fin,
           NEW seg, NEW o, SegmentAt(seg, isn, n, fin, o)
    PROVE  /\ o \in Nat /\ o \in Offsets /\ seg.seq = At(isn, o)
           /\ seg.buf \in Bufs /\ seg.buf.off \in Nat /\ seg.buf.len \in Nat
           /\ SegLen(seg) \in Nat /\ o + SegLen(seg) <= n + 1
           /\ seg.fin => SegLen(seg) = seg.buf.len + 1
           /\ ~ seg.fin => SegLen(seg) = seg.buf.len
           /\ SegLen(seg) = 0 => SegEnd(seg) = At(isn, o)
           /\ SegLen(seg) > 0 => SegEnd(seg) = At(isn, o + SegLen(seg) - 1)
<1>1. /\ o \in Nat /\ o <= n + 1 /\ seg.seq = At(isn, o) /\ seg.buf \in Bufs /\ ~ seg.syn
      /\ seg.buf.off \in Nat /\ seg.buf.len \in Nat
  BY Zenon DEF SegmentAt, Bufs
<1>2. o \in Offsets
  BY <1>1, HalfAssumption DEF Offsets
<1>3. (seg.fin => SegLen(seg) = seg.buf.len + 1) /\ (~ seg.fin => SegLen(seg) = seg.buf.len)
  BY <1>1 DEF SegLen
<1>4. SegLen(seg) \in Nat /\ o + SegLen(seg) <= n + 1
  <2>1. CASE seg.fin
    BY <2>1, <1>1, <1>3 DEF SegmentAt
  <2>2. CASE ~ seg.fin
    BY <2>2, <1>1, <1>3 DEF SegmentAt
  <2>. QED  BY <2>1, <2>2, Zenon
<1>5. SegLen(seg) > 0 => SegEnd(seg) = At(isn, o + SegLen(seg) - 1)
  <2>. DEFINE k == SegLen(seg) - 1
  <2>. SUFFICES ASSUME SegLen(seg) > 0 PROVE SegEnd(seg) = At(isn, o + SegLen(seg) - 1)
    BY Zenon
  <2>1. k \in Nat /\ o + k \in Offsets /\ o + k = o + SegLen(seg) - 1
    BY <1>1, <1>4, HalfAssumption DEF Offsets
  <2>2. SegEnd(seg) = Plus(At(isn, o), k)
    BY <1>1, <1>4 DEF SegEnd
  <2>. HIDE DEF k
  <2>3. Plus(At(isn, o), k) = At(isn, o + k)
    BY <2>1, <1>2, AtMove, Zenon
  <2>. QED  BY <2>1, <2>2, <2>3, Zenon
<1>6. SegLen(seg) = 0 => SegEnd(seg) = At(isn, o)
  BY <1>1, Zenon DEF SegEnd
<1>. QED  BY <1>1, <1>2, <1>3, <1>4, <1>5, <1>6, Zenon

\* A segment that is not all old is left with its new part.
LEMMA TrimFrontAt ==
    ASSUME NEW isn \in SeqNumbers, NEW n \in Nat, n + 2 < Half, NEW fin,
           NEW c, NEW rn \in Nat, rn <= n + 1, c.receive_next = At(isn, rn),
           NEW seg, NEW o, SegmentAt(seg, isn, n, fin, o),
           o < rn => o + SegLen(seg) > rn
    PROVE  LET t == TrimFront(c, seg)
           IN  /\ SegmentAt(t, isn, n, fin, IF o < rn THEN rn ELSE o)
               /\ o >= rn => t = seg
               /\ o < rn => SegLen(t) > 0
               /\ t.ack_num = seg.ack_num
<1>. DEFINE t == TrimFront(c, seg)
            b == adjust(seg.buf, rn - o)
<1>1. /\ o \in Nat /\ o \in Offsets /\ seg.seq = At(isn, o)
      /\ seg.buf \in Bufs /\ seg.buf.off \in Nat /\ seg.buf.len \in Nat
      /\ SegLen(seg) \in Nat /\ o + SegLen(seg) <= n + 1
      /\ seg.fin => SegLen(seg) = seg.buf.len + 1
      /\ ~ seg.fin => SegLen(seg) = seg.buf.len
  BY SegmentSpace
<1>2. rn \in Offsets
  BY HalfAssumption DEF Offsets
<1>3. CASE o >= rn
  <2>1. t = seg
    BY <1>1, <1>2, <1>3, AtCompare DEF TrimFront
  <2>. QED  BY <2>1, <1>1, <1>3
<1>4. CASE o < rn
  <2>1. Lt(seg.seq, c.receive_next) /\ Minus(c.receive_next, seg.seq) = rn - o
    BY <1>1, <1>2, <1>4, AtCompare
  <2>2. ~ seg.syn
    BY Zenon DEF SegmentAt
  <2>3. t = [seg EXCEPT !.seq = At(isn, rn), !.syn = FALSE, !.buf = b]
    BY <2>1, <2>2, Zenon DEF TrimFront
  <2>4. seg.buf.len > 0 /\ rn - o <= seg.buf.len /\ seg.buf.off = o /\ o + seg.buf.len <= n
    <3>1. seg.buf.len > 0 /\ rn - o <= seg.buf.len
      BY <1>1, <1>4
    <3>. QED  BY <3>1, Zenon DEF SegmentAt
  <2>5. b = Buf(rn, seg.buf.len - (rn - o)) /\ b \in Bufs /\ b.off = rn /\ b.len = seg.buf.len - (rn - o)
        /\ b.len \in Nat
    BY <2>4, <1>1, <1>4 DEF adjust, Buf, Bufs
  <2>. HIDE DEF b, t
  <2>6. /\ IsSegment(t) /\ t.seq = At(isn, rn) /\ t.syn = FALSE /\ t.buf = b /\ t.fin = seg.fin
        /\ t.ack_num = seg.ack_num
    BY <2>3, Zenon DEF SegmentAt, IsSegment, SegmentFields
  <2>7. rn + t.buf.len = o + seg.buf.len
    BY <2>5, <2>6, <1>1
  <2>8. SegmentAt(t, isn, n, fin, rn)
    BY <2>4, <2>5, <2>6, <2>7, Zenon DEF SegmentAt
  <2>9. SegLen(t) > 0
    <3>1. SegLen(t) \in Nat /\ (t.fin => SegLen(t) = t.buf.len + 1) /\ (~ t.fin => SegLen(t) = t.buf.len)
      BY <2>8, SegmentSpace
    <3>2. t.buf.len \in Nat
      BY <2>5, <2>6, Zenon
    <3>3. rn + SegLen(t) = o + SegLen(seg)
      <4>1. CASE seg.fin
        BY <4>1, <3>1, <3>2, <2>6, <2>7, <1>1
      <4>2. CASE ~ seg.fin
        BY <4>2, <3>1, <3>2, <2>6, <2>7, <1>1, Zenon
      <4>. QED  BY <4>1, <4>2, Zenon
    <3>. QED  BY <3>1, <3>3, <1>1, <1>4
  <2>. QED  BY <2>6, <2>8, <2>9, <1>1, <1>4 DEF t
<1>. QED  BY <1>1, <1>3, <1>4

\* What the window has no room for is cut off the end.
LEMMA TrimEndAt ==
    ASSUME NEW isn \in SeqNumbers, NEW n \in Nat, NEW fin, NEW right \in Nat, n + 2 < Half,
           right \in Offsets,
           NEW rn \in Nat, NEW seg, NEW o, SegmentAt(seg, isn, n, fin, o), rn <= o,
           SegLen(seg) > 0 => o <= right
    PROVE  LET t == TrimEnd(seg, At(isn, right))
           IN  /\ TrimmedAt(t, isn, n, fin, right, rn, o)
               /\ t.ack_num = seg.ack_num
               /\ t.rst = seg.rst
               /\ SegLen(t) = 0 => SegEnd(t) = At(isn, o)
               /\ SegLen(t) # 0 => Lt(SegEnd(t), At(isn, right))
               /\ SegLen(seg) = 0 => SegLen(t) = 0
<1>. DEFINE t == TrimEnd(seg, At(isn, right))
            len == SegLen(seg)
            e == o + SegLen(seg) - 1
<1>1. /\ o \in Nat /\ o \in Offsets /\ seg.seq = At(isn, o)
      /\ seg.buf \in Bufs /\ seg.buf.off \in Nat /\ seg.buf.len \in Nat
      /\ len \in Nat /\ o + len <= n + 1
      /\ seg.fin => len = seg.buf.len + 1
      /\ ~ seg.fin => len = seg.buf.len
      /\ len = 0 => SegEnd(seg) = At(isn, o)
      /\ len > 0 => SegEnd(seg) = At(isn, e)
  BY SegmentSpace
<1>2. CASE len = 0
  <2>1. t = seg
    BY <1>2, Zenon DEF TrimEnd
  <2>2. seg.buf.len = 0 /\ ~ seg.fin
    BY <1>1, <1>2
  <2>3. TrimmedAt(seg, isn, n, fin, right, rn, o)
    BY <2>2 DEF TrimmedAt, SegmentAt
  <2>. QED  BY <2>1, <2>3, <1>1, <1>2, Zenon
<1>3. CASE len > 0
  <2>1. e \in Offsets /\ e \in Nat
    BY <1>1, <1>3, HalfAssumption DEF Offsets
  <2>2. Lt(SegEnd(seg), At(isn, right)) <=> e < right
    <3>. HIDE DEF e
    <3>. QED  BY <2>1, <1>1, <1>3, AtCompare
  <2>3. CASE e < right
    <3>1. t = seg
      BY <2>2, <2>3, Zenon DEF TrimEnd
    <3>2. TrimmedAt(seg, isn, n, fin, right, rn, o)
      <4>1. seg.fin => n + 1 <= right
        BY <1>1, <2>3 DEF SegmentAt
      <4>2. o + seg.buf.len <= right
        BY <1>1, <2>3
      <4>. QED  BY <4>1, <4>2, <1>1, Zenon DEF TrimmedAt, SegmentAt
    <3>. QED  BY <3>1, <3>2, <2>2, <2>3, <1>1, <1>3, Zenon
  <2>4. CASE e >= right
    <3>. DEFINE excess == Minus(SegEnd(seg), At(isn, right)) + 1
                x == IF seg.fin THEN excess - 1 ELSE excess
                b == trim(seg.buf, x)
    <3>1. Minus(SegEnd(seg), At(isn, right)) = e - right
      <4>. HIDE DEF e
      <4>. QED  BY <2>1, <2>4, <1>1, <1>3, AtCompare
    <3>2. excess = o + len - right
      BY <3>1, <1>1
    <3>3. o <= right
      BY <1>3, Zenon
    <3>4. x \in Nat /\ x <= seg.buf.len /\ o + (seg.buf.len - x) = right
      BY <3>2, <3>3, <1>1, <2>4
    <3>5. t = [seg EXCEPT !.fin = FALSE, !.buf = b]
      BY <2>2, <2>4, <1>1, <1>3 DEF TrimEnd
    <3>. HIDE DEF x
    <3>6. b \in Bufs /\ b.off = seg.buf.off /\ b.len = seg.buf.len - x /\ b.len \in Nat
      BY <3>4, <1>1 DEF trim, Buf, Bufs
    <3>. HIDE DEF b, t
    <3>7. IsSegment(t) /\ t.fin = FALSE /\ t.buf = b /\ t.seq = seg.seq /\ t.syn = seg.syn
          /\ t.ack_num = seg.ack_num /\ t.rst = seg.rst
      BY <3>5, Zenon DEF SegmentAt, IsSegment, SegmentFields
    <3>8. t.buf.len > 0 => t.buf.off = o /\ o + t.buf.len <= n /\ o + t.buf.len <= right
      <4>. SUFFICES ASSUME t.buf.len > 0
                    PROVE  t.buf.off = o /\ o + t.buf.len <= n /\ o + t.buf.len <= right
        BY Zenon
      <4>1. seg.buf.len > 0 /\ t.buf.len <= seg.buf.len
        BY <3>4, <3>6, <3>7, <1>1
      <4>2. seg.buf.off = o /\ o + seg.buf.len <= n
        BY <4>1, Zenon DEF SegmentAt
      <4>. QED  BY <4>1, <4>2, <3>4, <3>6, <3>7, <1>1
    <3>9. ~ t.syn /\ ~ t.fin
      BY <3>7, Zenon DEF SegmentAt
    <3>10. TrimmedAt(t, isn, n, fin, right, rn, o)
      BY <3>6, <3>7, <3>8, <3>9, <1>1, Zenon DEF TrimmedAt, SegmentAt
    <3>11. SegmentAt(t, isn, n, fin, o)
      BY <3>6, <3>7, <3>8, <3>9, <1>1, Zenon DEF SegmentAt
    <3>12. /\ SegLen(t) = t.buf.len /\ SegLen(t) \in Nat
           /\ SegLen(t) = 0 => SegEnd(t) = At(isn, o)
           /\ SegLen(t) > 0 => SegEnd(t) = At(isn, o + SegLen(t) - 1)
      BY <3>9, <3>11, SegmentSpace
    <3>13. SegLen(t) # 0 => Lt(SegEnd(t), At(isn, right))
      <4>. SUFFICES ASSUME SegLen(t) # 0 PROVE Lt(SegEnd(t), At(isn, right))
        BY Zenon
      <4>1. SegLen(t) > 0 /\ o + SegLen(t) - 1 \in Offsets /\ o + SegLen(t) - 1 < right
        BY <3>8, <3>12, <1>1, HalfAssumption DEF Offsets
      <4>. DEFINE i == o + SegLen(t) - 1
      <4>2. i \in Offsets /\ i < right /\ SegEnd(t) = At(isn, i)
        BY <4>1, <3>12, Zenon
      <4>. HIDE DEF i
      <4>. QED  BY <4>2, AtCompare
    <3>. QED  BY <3>7, <3>10, <3>12, <3>13, <1>3 DEF t
  <2>. QED  BY <2>1, <2>3, <2>4
<1>. QED  BY <1>1, <1>2, <1>3

AckFailures == {"fin_not_last_acknowledged", "unacked_queue_underrun"}

\* What receive does to the send side: nothing, or the acknowledgment of a
\* part of what was sent.
AcksOnly(c, d, seg) ==
    /\ c.state \in Unclosed => d.state \in Unclosed
    /\ \/ SendSide(d) = SendSide(c) /\ d.failed \cap AckFailures \subseteq c.failed
       \/ /\ Lt(c.send_unacked, seg.ack_num) /\ Le(seg.ack_num, c.send_next)
          /\ \E c0 : /\ IsControlBlock(c0) /\ SendSide(c0) = SendSide(c)
                     /\ c0.failed \cap AckFailures \subseteq c.failed
                     /\ SendSide(d) = SendSide(AckNewData(c0, seg))
                     /\ d.failed \cap AckFailures \subseteq AckNewData(c0, seg).failed

\* The assertions of the receive side that may fail in receive.
FailsAsKnown(c, d) ==
    /\ c.failed \subseteq d.failed
    /\ "segment_outside_window" \in d.failed \ c.failed => get_receive_window_size(c) = 0
    /\ \/ d.failed \subseteq c.failed \cup {"segment_outside_window", "fin_is_not_next"} \cup AckFailures
       \/ c.state = "Closed"
       \/ "fin_is_not_next" \in c.failed

\* The text and the FIN are processed after the acknowledgment.
TextProcessed(c, c1, seg, d) ==
    \/ seg.seq # c.receive_next /\ d = ReceiveOutOfOrder(c1, seg)
    \/ seg.seq = c.receive_next /\ d = ReceiveInOrder(c1, seg)

\* The ways ReceiveInWindow may end.
LEMMA InWindowCases ==
    ASSUME NEW c, NEW header, NEW seg, ~ seg.syn
    PROVE  LET d == ReceiveInWindow(c, header, seg)
           IN  \/ d = Fail([c EXCEPT !.state = "Closed"], "rst_when_closed", c.state # "Closed")
               \/ d = c \/ d = send_ack(c)
               \/ TextProcessed(c, c, seg, d)
               \/ /\ Lt(c.send_unacked, seg.ack_num) /\ Le(seg.ack_num, c.send_next)
                  /\ TextProcessed(c, AckNewData(c, header), seg, d)
<1>. DEFINE d == ReceiveInWindow(c, header, seg)
            a == AckNewData(c, header)
            new == Lt(c.send_unacked, seg.ack_num)
            sent == Le(seg.ack_num, c.send_next)
            c1 == IF new THEN a ELSE c
<1>1. CASE seg.rst \/ ~ seg.ack \/ (new /\ ~ sent)
  <2>1. d = Fail([c EXCEPT !.state = "Closed"], "rst_when_closed", c.state # "Closed")
        \/ d = c \/ d = send_ack(c)
    BY <1>1, Zenon DEF ReceiveInWindow
  <2>. QED  BY <2>1, Zenon
<1>2. CASE ~ seg.rst /\ seg.ack /\ ~ (new /\ ~ sent)
  <2>1. d = IF seg.seq # c.receive_next THEN ReceiveOutOfOrder(c1, seg) ELSE ReceiveInOrder(c1, seg)
    BY <1>2, Zenon DEF ReceiveInWindow
  <2>2. TextProcessed(c, c1, seg, d)
    <3>. HIDE DEF d, c1
    <3>. QED  BY <2>1, Zenon DEF TextProcessed
  <2>3. CASE new
    <3>1. c1 = a /\ new /\ sent
      BY <1>2, <2>3, Zenon
    <3>. HIDE DEF c1, d
    <3>. QED  BY <2>2, <3>1, Zenon DEF d
  <2>4. CASE ~ new
    <3>1. c1 = c
      BY <2>4, Zenon
    <3>. HIDE DEF c1, d
    <3>. QED  BY <2>2, <3>1, Zenon DEF d
  <2>. QED  BY <2>3, <2>4, Zenon
<1>. QED  BY <1>1, <1>2, Zenon

\* A segment in the window, trimmed.
LEMMA InWindowReceivesAt ==
    ASSUME NEW c, NEW isn, NEW n, NEW fin, NEW size, NEW rd, NEW rn, NEW qe,
           ReceivesAt(c, isn, n, fin, size, rd, rn, qe),
           NEW header, NEW seg, NEW o, TrimmedAt(seg, isn, n, fin, rd + size, rn, o),
           header.ack_num = seg.ack_num
    PROVE  LET d == ReceiveInWindow(c, header, seg)
           IN  /\ \E rn2 \in Nat, qe2 \in Nat : ReceivesAt(d, isn, n, fin, size, rd, rn2, qe2)
               /\ AcksOnly(c, d, header)
               /\ c.failed \subseteq d.failed
               /\ "segment_outside_window" \in d.failed => "segment_outside_window" \in c.failed
               /\ \/ d.failed \subseteq c.failed \cup {"fin_is_not_next"} \cup AckFailures
                  \/ c.state = "Closed"
                  \/ "fin_is_not_next" \in c.failed
<1>. DEFINE d == ReceiveInWindow(c, header, seg)
            x == [c EXCEPT !.state = "Closed"]
            h == c.state # "Closed"
            y == Fail(x, "rst_when_closed", h)
            a == AckNewData(c, header)
<1>1. /\ IsControlBlock(c) /\ isn \in SeqNumbers /\ rn \in Nat /\ qe \in Nat /\ n \in Nat
      /\ Positions(n, fin, size, rd, rn, qe) /\ StateAgrees(c, n, rn, qe)
      /\ ~ seg.syn /\ seg.seq = At(isn, o) /\ c.receive_next = At(isn, rn)
      /\ o \in Nat /\ o \in Offsets /\ rn \in Offsets
  <2>1. Positions(n, fin, size, rd, rn, qe) /\ o \in Nat /\ o <= n + 1
    BY Zenon DEF ReceivesAt, TrimmedAt
  <2>2. rn \in Nat /\ qe \in Nat /\ n \in Nat /\ o \in Offsets /\ rn \in Offsets
    BY <2>1, PositionsInRange, HalfAssumption DEF Positions, Offsets
  <2>. QED  BY <2>1, <2>2, Zenon DEF ReceivesAt, TrimmedAt, Side
<1>2. \/ d = y
      \/ d = c \/ d = send_ack(c)
      \/ \E c1 \in {c, a} :
           /\ c1 = c \/ (Lt(c.send_unacked, seg.ack_num) /\ Le(seg.ack_num, c.send_next))
           /\ TextProcessed(c, c1, seg, d)
  <2>1. \/ d = y \/ d = c \/ d = send_ack(c)
        \/ TextProcessed(c, c, seg, d)
        \/ /\ Lt(c.send_unacked, seg.ack_num) /\ Le(seg.ack_num, c.send_next)
           /\ TextProcessed(c, a, seg, d)
    BY <1>1, InWindowCases, Zenon
  <2>. HIDE DEF d, y, a
  <2>. QED  BY <2>1, Zenon
<1>. HIDE DEF d
<1>3. CASE d = y
  <2>1. IsControlBlock(x) /\ SendSide(x) = SendSide(c) /\ ReceiveSide(x) = ReceiveSide(c)
        /\ x.state = "Closed" /\ x.failed = c.failed
    BY <1>1, Zenon DEF IsControlBlock, Fields, SendSide, ReceiveSide
  <2>. HIDE DEF x, h
  <2>2. IsControlBlock(y) /\ SendSide(y) = SendSide(x) /\ ReceiveSide(y) = ReceiveSide(x) /\ y.state = x.state
        /\ (h => y.failed = x.failed) /\ (~ h => y.failed = x.failed \cup {"rst_when_closed"})
    BY <2>1, FailFrame
  <2>. HIDE DEF y
  <2>3. KeepsReceiveSide(c, y)
    BY <2>1, <2>2, Zenon DEF KeepsReceiveSide
  <2>4. ReceivesAt(y, isn, n, fin, size, rd, rn, qe)
    BY <2>2, <2>3, KeepsReceivesAt, Zenon
  <2>5. AcksOnly(c, y, header)
    BY <2>1, <2>2, Zenon DEF AcksOnly, AckFailures, Unclosed
  <2>. QED  BY <2>1, <2>2, <2>4, <2>5, <1>1, <1>3 DEF h, d
<1>4. CASE d = c \/ d = send_ack(c)
  <2>1. /\ IsControlBlock(send_ack(c)) /\ send_ack(c).failed = c.failed
        /\ send_ack(c).state = c.state /\ SendSide(send_ack(c)) = SendSide(c)
        /\ KeepsReceiveSide(c, send_ack(c))
    BY <1>1, SendAckFrame, Zenon
  <2>2. ReceivesAt(send_ack(c), isn, n, fin, size, rd, rn, qe)
    BY <2>1, KeepsReceivesAt, Zenon
  <2>3. ReceivesAt(d, isn, n, fin, size, rd, rn, qe) /\ d.failed = c.failed
        /\ d.state = c.state /\ SendSide(d) = SendSide(c)
    BY <2>1, <2>2, <1>4, Zenon
  <2>4. AcksOnly(c, d, header)
    BY <2>3, Zenon DEF AcksOnly
  <2>. QED  BY <2>3, <2>4, <1>1, Zenon DEF d
<1>5. CASE \E c1 \in {c, a} :
             /\ c1 = c \/ (Lt(c.send_unacked, seg.ack_num) /\ Le(seg.ack_num, c.send_next))
             /\ TextProcessed(c, c1, seg, d)
  <2>1. PICK c1 \in {c, a} :
             /\ c1 = c \/ (Lt(c.send_unacked, seg.ack_num) /\ Le(seg.ack_num, c.send_next))
             /\ TextProcessed(c, c1, seg, d)
    BY <1>5, Zenon
  <2>2. /\ IsControlBlock(a) /\ KeepsReceiveSide(c, a)
        /\ a.failed \subseteq c.failed \cup AckFailures
        /\ a.state = "Closed" => c.state \in {"Closed", "LastAck"}
        /\ c.state \in Unclosed => a.state \in Unclosed
    <3>. DEFINE all == header.ack_num = c.send_next
    <3>1. /\ IsControlBlock(a) /\ KeepsReceiveSide(c, a)
          /\ a.failed \subseteq c.failed \cup {"fin_not_last_acknowledged", "unacked_queue_underrun"}
          /\ a.state = CASE all /\ c.state = "FinWait1" -> "FinWait2"
                         [] all /\ c.state = "Closing" -> "TimeWait"
                         [] all /\ c.state = "LastAck" -> "Closed"
                         [] OTHER -> c.state
      BY <1>1, AckNewDataFrame, Zenon
    <3>. HIDE DEF all, a
    <3>. QED  BY <3>1, Zenon DEF AckFailures, Unclosed
  <2>3. c.failed \subseteq a.failed
    BY <2>2, Zenon DEF KeepsReceiveSide
  <2>4. ReceivesAt(a, isn, n, fin, size, rd, rn, qe)
    BY <2>2, KeepsReceivesAt, Zenon
  <2>. HIDE DEF a
  <2>5. /\ ReceivesAt(c1, isn, n, fin, size, rd, rn, qe)
        /\ c.failed \subseteq c1.failed /\ c1.failed \subseteq c.failed \cup AckFailures
        /\ c1.state = "Closed" => c.state \in {"Closed", "LastAck"}
        /\ c.state \in Unclosed => c1.state \in Unclosed
    BY <2>1, <2>2, <2>3, <2>4, Zenon DEF Unclosed
  <2>6. /\ \E rn2 \in Nat, qe2 \in Nat : ReceivesAt(d, isn, n, fin, size, rd, rn2, qe2)
        /\ KeepsSendSide(c1, d)
        /\ c1.failed \subseteq d.failed
        /\ d.failed \subseteq c1.failed \cup {"fin_is_not_next", "fin_when_closed"}
        /\ "fin_when_closed" \in d.failed => "fin_when_closed" \in c1.failed \/ (c1.state = "Closed" /\ rn <= n)
    <3>1. CASE d = ReceiveOutOfOrder(c1, seg)
      <4>1. ReceivesAt(d, isn, n, fin, size, rd, rn, qe) /\ KeepsSendSide(c1, d) /\ d.failed = c1.failed
        BY <3>1, <2>5, OutOfOrderReceivesAt
      <4>. QED  BY <4>1, <1>1, Zenon
    <3>2. CASE seg.seq = c.receive_next /\ d = ReceiveInOrder(c1, seg)
      <4>1. o = rn
        BY <3>2, <1>1, AtInjective, Zenon
      <4>2. TrimmedAt(seg, isn, n, fin, rd + size, rn, rn)
        BY <4>1, Zenon
      <4>. QED  BY <3>2, <4>2, <2>5, InOrderReceivesAt, ZenonT(30)
    <3>. QED  BY <2>1, <3>1, <3>2, Zenon DEF TextProcessed
  <2>7. AcksOnly(c, d, header)
    <3>1. c.state \in Unclosed => d.state \in Unclosed
      BY <2>5, <2>6, Zenon DEF KeepsSendSide
    <3>2. SendSide(d) = SendSide(c1) /\ d.failed \cap AckFailures \subseteq c1.failed
      BY <2>6, Zenon DEF KeepsSendSide, AckFailures
    <3>3. CASE c1 = c
      BY <3>1, <3>2, <3>3, Zenon DEF AcksOnly
    <3>4. CASE c1 # c
      <4>1. c1 = AckNewData(c, header) /\ Lt(c.send_unacked, header.ack_num) /\ Le(header.ack_num, c.send_next)
        BY <2>1, <3>4, Zenon DEF a
      <4>2. c.failed \cap AckFailures \subseteq c.failed
        BY Zenon
      <4>3. /\ SendSide(d) = SendSide(AckNewData(c, header))
            /\ d.failed \cap AckFailures \subseteq AckNewData(c, header).failed
        BY <4>1, <3>2, Zenon
      <4>. QED  BY <4>1, <4>2, <4>3, <3>1, <1>1, Zenon DEF AcksOnly
    <3>. QED  BY <3>3, <3>4, Zenon
  <2>8. "segment_outside_window" \in d.failed => "segment_outside_window" \in c.failed
    BY <2>5, <2>6, Zenon DEF AckFailures
  <2>9. \/ d.failed \subseteq c.failed \cup {"fin_is_not_next"} \cup AckFailures
        \/ c.state = "Closed"
        \/ "fin_is_not_next" \in c.failed
    <3>1. CASE c1.state = "Closed" /\ rn <= n
      <4>1. CASE c.state = "LastAck"
        <5>1. c.state \notin Receiving /\ c.state # "Closed" /\ rn # n + 1
          BY <3>1, <4>1, <1>1 DEF Receiving
        <5>. QED  BY <5>1, <1>1, Zenon DEF StateAgrees
      <4>. QED  BY <3>1, <4>1, <2>5, Zenon
    <3>2. CASE ~ (c1.state = "Closed" /\ rn <= n)
      <4>1. "fin_when_closed" \in d.failed => "fin_when_closed" \in c1.failed
        BY <3>2, <2>6, Zenon
      <4>2. d.failed \subseteq c1.failed \cup {"fin_is_not_next"}
        BY <4>1, <2>6, Zenon
      <4>. QED  BY <4>2, <2>5, Zenon
    <3>. QED  BY <3>1, <3>2, Zenon
  <2>10. c.failed \subseteq d.failed
    BY <2>5, <2>6, Zenon
  <2>. QED  BY <2>6, <2>7, <2>8, <2>9, <2>10, Zenon DEF d
<1>. QED  BY <1>2, <1>3, <1>4, <1>5, Zenon

\* The receive window.
LEMMA WindowAt ==
    ASSUME NEW c, NEW isn, NEW n, NEW fin, NEW size, NEW rd, NEW rn, NEW qe,
           ReceivesAt(c, isn, n, fin, size, rd, rn, qe)
    PROVE  /\ Minus(c.receive_next, c.reader_next) = rn - rd
           /\ get_receive_window_size(c) = rd + size - rn
           /\ Plus(c.receive_next, get_receive_window_size(c)) = At(isn, rd + size)
<1>1. /\ isn \in SeqNumbers /\ c.receive_next = At(isn, rn) /\ c.reader_next = At(isn, rd)
      /\ c.receive_buffer_size = size
      /\ rn \in Nat /\ rd \in Nat /\ size \in Nat /\ rd <= rn /\ rn <= rd + size
      /\ rn \in Offsets /\ rd \in Offsets /\ rd + size \in Offsets
  <2>1. Positions(n, fin, size, rd, rn, qe)
    BY Zenon DEF ReceivesAt
  <2>2. rn \in Nat /\ rd \in Nat /\ size \in Nat /\ rd <= rn /\ rn <= rd + size
    BY <2>1 DEF Positions
  <2>3. rn \in Offsets /\ rd \in Offsets /\ rd + size \in Offsets
    BY <2>1, PositionsInRange, Zenon
  <2>. QED  BY <2>2, <2>3, Zenon DEF ReceivesAt, Side
<1>2. Minus(c.receive_next, c.reader_next) = rn - rd
  BY <1>1, AtCompare
<1>3. get_receive_window_size(c) = rd + size - rn
  BY <1>1, <1>2 DEF get_receive_window_size
<1>4. Plus(At(isn, rn), rd + size - rn) = At(isn, rd + size)
  <2>. DEFINE k == rd + size - rn
  <2>1. k \in Nat /\ rn + k = rd + size
    BY <1>1
  <2>. HIDE DEF k
  <2>2. Plus(At(isn, rn), k) = At(isn, rn + k)
    BY <2>1, <1>1, AtMove, Zenon
  <2>. QED  BY <2>1, <2>2, Zenon DEF k
<1>. QED  BY <1>1, <1>2, <1>3, <1>4, Zenon

\* ControlBlock::receive keeps the receive side in step with the stream,
\* whatever part of it the segment carries.
LEMMA ReceiveReceivesAt ==
    ASSUME NEW c, NEW isn, NEW n, NEW fin, NEW size, NEW rd, NEW rn, NEW qe,
           ReceivesAt(c, isn, n, fin, size, rd, rn, qe),
           NEW seg, NEW o, SegmentAt(seg, isn, n, fin, o)
    PROVE  LET d == receive(c, seg)
           IN  /\ \E rn2 \in Nat, qe2 \in Nat : ReceivesAt(d, isn, n, fin, size, rd, rn2, qe2)
               /\ AcksOnly(c, d, seg)
               /\ FailsAsKnown(c, d)
<1>. DEFINE right == rd + size
            after == Plus(c.receive_next, get_receive_window_size(c))
            old == Lt(seg.seq, c.receive_next) /\ Lt(SegEnd(seg), c.receive_next)
            beyond == /\ seg.seq # c.receive_next
                      /\ ~ Lt(seg.seq, c.receive_next) /\ Ge(seg.seq, after)
            front == TrimFront(c, seg)
            cut == TrimEnd(front, after)
            cut_end == IF SegLen(cut) = 0 /\ SegLen(seg) > 0 THEN Minus(cut.seq, 1) ELSE SegEnd(cut)
            inside == Le(c.receive_next, cut.seq) /\ Lt(cut_end, after)
            c0 == Fail(c, "segment_outside_window", inside)
            d == receive(c, seg)
<1>1. d = IF old \/ beyond THEN IF seg.rst THEN c ELSE send_ack(c) ELSE ReceiveInWindow(c0, seg, cut)
  BY Zenon DEF receive
<1>2. /\ IsControlBlock(c) /\ isn \in SeqNumbers /\ Positions(n, fin, size, rd, rn, qe)
      /\ c.receive_next = At(isn, rn) /\ StateAgrees(c, n, rn, qe)
  BY Zenon DEF ReceivesAt, Side
<1>3. /\ n \in Nat /\ n + 2 < Half /\ rn \in Nat /\ rn \in Offsets /\ qe \in Nat
      /\ rn <= n + 1 /\ rn <= right /\ right \in Nat /\ right \in Offsets
  <2>1. rn \in Offsets /\ right \in Nat /\ right \in Offsets
    BY <1>2, PositionsInRange, Zenon
  <2>2. n \in Nat /\ n + 2 < Half /\ rn \in Nat /\ qe \in Nat /\ rn <= n + 1 /\ rn <= right
    BY <1>2, HalfAssumption DEF Positions
  <2>. QED  BY <2>1, <2>2, Zenon
<1>4. after = At(isn, right) /\ get_receive_window_size(c) = right - rn
  <2>1. ReceivesAt(c, isn, n, fin, size, rd, rn, qe)
    BY Zenon
  <2>2. /\ get_receive_window_size(c) = rd + size - rn
        /\ Plus(c.receive_next, get_receive_window_size(c)) = At(isn, rd + size)
    BY ONLY <2>1, WindowAt
  <2>3. rd \in Nat /\ size \in Nat /\ rn \in Nat
    BY <1>2, Zenon DEF Positions
  <2>. QED  BY <2>2, <2>3
<1>5. /\ o \in Nat /\ o \in Offsets /\ seg.seq = At(isn, o)
      /\ SegLen(seg) \in Nat /\ o + SegLen(seg) <= n + 1
      /\ SegLen(seg) = 0 => SegEnd(seg) = At(isn, o)
      /\ SegLen(seg) > 0 => SegEnd(seg) = At(isn, o + SegLen(seg) - 1)
  BY <1>2, <1>3, SegmentSpace
<1>6. CASE old \/ beyond
  <2>1. d = c \/ d = send_ack(c)
    BY <1>1, <1>6, Zenon
  <2>. HIDE DEF d, old, beyond
  <2>2. /\ IsControlBlock(send_ack(c)) /\ send_ack(c).failed = c.failed
        /\ send_ack(c).state = c.state /\ SendSide(send_ack(c)) = SendSide(c)
        /\ KeepsReceiveSide(c, send_ack(c))
    BY <1>2, SendAckFrame, Zenon
  <2>3. ReceivesAt(send_ack(c), isn, n, fin, size, rd, rn, qe)
    BY <2>2, KeepsReceivesAt, Zenon
  <2>4. ReceivesAt(d, isn, n, fin, size, rd, rn, qe) /\ d.failed = c.failed
        /\ d.state = c.state /\ SendSide(d) = SendSide(c)
    BY <2>1, <2>2, <2>3, Zenon
  <2>5. AcksOnly(c, d, seg) /\ FailsAsKnown(c, d)
    BY <2>4, Zenon DEF AcksOnly, FailsAsKnown
  <2>. QED  BY <2>4, <2>5, <1>3, Zenon DEF d
<1>7. CASE ~ (old \/ beyond)
  <2>1. o < rn => o + SegLen(seg) > rn
    <3>. SUFFICES ASSUME o < rn PROVE o + SegLen(seg) > rn
      BY Zenon
    <3>1. Lt(seg.seq, c.receive_next)
      BY <1>2, <1>3, <1>5, AtCompare, Zenon
    <3>2. ~ Lt(SegEnd(seg), c.receive_next)
      BY <3>1, <1>7, Zenon
    <3>3. SegLen(seg) # 0
      BY <3>1, <3>2, <1>5, Zenon
    <3>. DEFINE e == o + SegLen(seg) - 1
    <3>4. e \in Offsets /\ SegEnd(seg) = At(isn, e)
      BY <3>3, <1>3, <1>5, HalfAssumption DEF Offsets
    <3>. HIDE DEF e
    <3>5. e >= rn
      BY <3>2, <3>4, <1>2, <1>3, AtCompare DEF Offsets
    <3>. QED  BY <3>5, <1>3, <1>5 DEF e
  <2>2. o = rn \/ o < rn \/ o < right
    <3>. SUFFICES ASSUME o # rn, ~ (o < rn) PROVE o < right
      BY Zenon
    <3>1. seg.seq # c.receive_next /\ ~ Lt(seg.seq, c.receive_next)
      BY <1>2, <1>3, <1>5, AtCompare
    <3>2. ~ Ge(seg.seq, after)
      BY <3>1, <1>7, Zenon
    <3>. HIDE DEF right, after
    <3>3. ~ (o >= right)
      BY <3>2, <1>2, <1>3, <1>4, <1>5, AtCompare
    <3>. QED  BY <3>3, <1>3, <1>5
  <2>. DEFINE o1 == IF o < rn THEN rn ELSE o
  <2>3. /\ SegmentAt(front, isn, n, fin, o1)
        /\ o >= rn => front = seg
        /\ o < rn => SegLen(front) > 0
        /\ front.ack_num = seg.ack_num
    <3>1. /\ isn \in SeqNumbers /\ n \in Nat /\ n + 2 < Half /\ rn \in Nat /\ rn <= n + 1
          /\ c.receive_next = At(isn, rn) /\ SegmentAt(seg, isn, n, fin, o)
          /\ o < rn => o + SegLen(seg) > rn
      BY <2>1, <1>2, <1>3, Zenon
    <3>. QED  BY ONLY <3>1, TrimFrontAt, SMTT(30)
  <2>4. o1 \in Nat /\ rn <= o1 /\ o1 <= right
    BY <2>2, <1>3, <1>5
  <2>5. o1 \in Offsets /\ o1 \in Nat
    BY <1>3, <1>5, Zenon
  <2>. HIDE DEF front, old, beyond, after, right, o1
  <2>6. /\ TrimmedAt(cut, isn, n, fin, right, rn, o1)
        /\ cut.ack_num = front.ack_num
        /\ SegLen(cut) = 0 => SegEnd(cut) = At(isn, o1)
        /\ SegLen(cut) # 0 => Lt(SegEnd(cut), At(isn, right))
        /\ SegLen(front) = 0 => SegLen(cut) = 0
    <3>1. /\ isn \in SeqNumbers /\ n \in Nat /\ right \in Nat /\ n + 2 < Half /\ right \in Offsets
          /\ rn \in Nat /\ SegmentAt(front, isn, n, fin, o1) /\ rn <= o1
          /\ SegLen(front) > 0 => o1 <= right
      BY <2>3, <2>4, <1>2, <1>3, Zenon
    <3>2. cut = TrimEnd(front, At(isn, right))
      BY <1>4, Zenon
    <3>. HIDE DEF cut
    <3>. QED  BY ONLY <3>1, <3>2, TrimEndAt
  <2>7. cut.seq = At(isn, o1)
    BY <2>6, Zenon DEF TrimmedAt
  <2>. HIDE DEF cut
  <2>8. ~ inside => get_receive_window_size(c) = 0
    <3>1. Le(c.receive_next, cut.seq)
      BY <2>4, <2>5, <2>7, <1>2, <1>3, AtCompare, Zenon
    <3>2. CASE SegLen(cut) # 0
      BY <3>1, <3>2, <2>6, <1>4, Zenon
    <3>3. CASE SegLen(cut) = 0 /\ SegLen(seg) > 0
      <4>1. cut_end = Minus(At(isn, o1), 1)
        BY <3>3, <2>7, Zenon
      <4>2. o1 - 1 \in Offsets /\ o1 - 1 < right /\ 1 \in Nat
        BY <2>4, <2>5, <1>3, HalfAssumption DEF Offsets
      <4>3. Minus(At(isn, o1), 1) = At(isn, o1 - 1)
        BY <4>2, <2>5, <1>2, AtMove, Zenon
      <4>4. Lt(At(isn, o1 - 1), At(isn, right))
        BY <4>2, <1>2, <1>3, AtCompare, Zenon
      <4>. QED  BY <3>1, <4>1, <4>3, <4>4, <1>4, Zenon
    <3>4. CASE SegLen(cut) = 0 /\ SegLen(seg) = 0
      <4>1. o1 = o /\ (o = rn \/ o < right)
        BY <3>4, <2>1, <2>2, <1>3, <1>5 DEF o1
      <4>2. cut_end = At(isn, o1)
        BY <3>4, <2>6
      <4>3. CASE o < right
        <5>1. Lt(At(isn, o1), At(isn, right))
          BY <4>1, <4>3, <2>5, <1>2, <1>3, AtCompare, Zenon
        <5>. QED  BY <5>1, <4>2, <3>1, <1>4, Zenon
      <4>4. CASE ~ (o < right)
        BY <4>1, <4>4, <1>3, <1>4, <1>5
      <4>. QED  BY <4>3, <4>4, Zenon
    <3>. QED  BY <3>2, <3>3, <3>4, <1>5
  <2>. HIDE DEF inside
  <2>9. /\ IsControlBlock(c0) /\ c0.state = c.state
        /\ ReceiveSide(c0) = ReceiveSide(c) /\ SendSide(c0) = SendSide(c)
        /\ inside => c0.failed = c.failed
        /\ ~ inside => c0.failed = c.failed \cup {"segment_outside_window"}
        /\ KeepsReceiveSide(c, c0)
    BY <1>2, FailFrame, Zenon
  <2>. HIDE DEF c0
  <2>10. ReceivesAt(c0, isn, n, fin, size, rd, rn, qe)
    BY <2>9, KeepsReceivesAt, Zenon
  <2>11. d = ReceiveInWindow(c0, seg, cut)
    BY <1>1, <1>7, Zenon
  <2>. HIDE DEF d
  <2>12. /\ \E rn2 \in Nat, qe2 \in Nat : ReceivesAt(d, isn, n, fin, size, rd, rn2, qe2)
         /\ AcksOnly(c0, d, seg)
         /\ c0.failed \subseteq d.failed
         /\ "segment_outside_window" \in d.failed => "segment_outside_window" \in c0.failed
         /\ \/ d.failed \subseteq c0.failed \cup {"fin_is_not_next"} \cup AckFailures
            \/ c0.state = "Closed"
            \/ "fin_is_not_next" \in c0.failed
    <3>1. seg.ack_num = cut.ack_num /\ TrimmedAt(cut, isn, n, fin, rd + size, rn, o1)
      BY <2>3, <2>6, Zenon DEF right
    <3>. QED  BY <3>1, <2>10, <2>11, InWindowReceivesAt, Zenon
  <2>13. AcksOnly(c, d, seg)
    <3>1. c0.failed \cap AckFailures \subseteq c.failed
      BY <2>9, Zenon DEF AckFailures
    <3>2. c0.send_unacked = c.send_unacked /\ c0.send_next = c.send_next
      BY <2>9, Zenon DEF SendSide
    <3>3. c.state \in Unclosed => d.state \in Unclosed
      BY <2>9, <2>12, Zenon DEF AcksOnly
    <3>4. CASE SendSide(d) = SendSide(c0) /\ d.failed \cap AckFailures \subseteq c0.failed
      <4>1. SendSide(d) = SendSide(c) /\ d.failed \cap AckFailures \subseteq c.failed
        BY <3>1, <3>4, <2>9, Zenon
      <4>. QED  BY <4>1, <3>3, Zenon DEF AcksOnly
    <3>5. CASE /\ Lt(c0.send_unacked, seg.ack_num) /\ Le(seg.ack_num, c0.send_next)
               /\ \E c1 : /\ IsControlBlock(c1) /\ SendSide(c1) = SendSide(c0)
                          /\ c1.failed \cap AckFailures \subseteq c0.failed
                          /\ SendSide(d) = SendSide(AckNewData(c1, seg))
                          /\ d.failed \cap AckFailures \subseteq AckNewData(c1, seg).failed
      <4>1. PICK c1 : /\ IsControlBlock(c1) /\ SendSide(c1) = SendSide(c0)
                      /\ c1.failed \cap AckFailures \subseteq c0.failed
                      /\ SendSide(d) = SendSide(AckNewData(c1, seg))
                      /\ d.failed \cap AckFailures \subseteq AckNewData(c1, seg).failed
        BY <3>5, Zenon
      <4>2. SendSide(c1) = SendSide(c) /\ c1.failed \cap AckFailures \subseteq c.failed
        BY <4>1, <3>1, <2>9, Zenon
      <4>3. Lt(c.send_unacked, seg.ack_num) /\ Le(seg.ack_num, c.send_next)
        BY <3>2, <3>5, Zenon
      <4>. QED  BY <4>1, <4>2, <4>3, <3>3, Zenon DEF AcksOnly
    <3>. QED  BY <3>4, <3>5, <2>12, Zenon DEF AcksOnly
  <2>14. FailsAsKnown(c, d)
    <3>1. c.failed \subseteq d.failed
      BY <2>9, <2>12, Zenon
    <3>2. "segment_outside_window" \in d.failed \ c.failed => get_receive_window_size(c) = 0
      BY <2>8, <2>9, <2>12, Zenon
    <3>3. \/ d.failed \subseteq c.failed \cup {"segment_outside_window", "fin_is_not_next"} \cup AckFailures
          \/ c.state = "Closed"
          \/ "fin_is_not_next" \in c.failed
      BY <2>9, <2>12, Zenon
    <3>. QED  BY <3>1, <3>2, <3>3, Zenon DEF FailsAsKnown
  <2>. QED  BY <2>12, <2>13, <2>14, Zenon DEF d
<1>. QED  BY <1>6, <1>7, Zenon

\* The handshake segment of the peer is older than everything.
LEMMA ReceiveHandshake ==
    ASSUME NEW c, NEW isn, NEW n, NEW fin, NEW size, NEW rd, NEW rn, NEW qe,
           ReceivesAt(c, isn, n, fin, size, rd, rn, qe),
           NEW seg, seg.seq = isn, seg.syn, ~ seg.fin, seg.buf.len = 0
    PROVE  LET d == receive(c, seg)
           IN  /\ ReceivesAt(d, isn, n, fin, size, rd, rn, qe)
               /\ AcksOnly(c, d, seg)
               /\ FailsAsKnown(c, d)
<1>. DEFINE d == receive(c, seg)
<1>1. /\ IsControlBlock(c) /\ isn \in SeqNumbers /\ c.receive_next = At(isn, rn)
      /\ rn \in Nat /\ rn \in Offsets /\ -1 \in Offsets
  <2>1. rn \in Nat /\ rn \in Offsets
    BY PositionsInRange, Zenon DEF ReceivesAt, Positions
  <2>. QED  BY <2>1, HalfAssumption DEF ReceivesAt, Side, Offsets
<1>2. isn = At(isn, -1) /\ Plus(isn, 0) = isn
  BY <1>1, HalfAssumption DEF At, Plus, SeqNumbers, Modulus
<1>3. SegEnd(seg) = isn
  <2>1. SegLen(seg) = 1
    BY DEF SegLen
  <2>. QED  BY <2>1, <1>2 DEF SegEnd
<1>4. Lt(isn, c.receive_next)
  <2>1. Lt(At(isn, -1), At(isn, rn))
    BY <1>1, AtCompare
  <2>. QED  BY <2>1, <1>1, <1>2, Zenon
<1>5. d = c \/ d = send_ack(c)
  BY <1>3, <1>4, Zenon DEF receive
<1>. HIDE DEF d
<1>6. /\ IsControlBlock(send_ack(c)) /\ send_ack(c).failed = c.failed
      /\ send_ack(c).state = c.state /\ SendSide(send_ack(c)) = SendSide(c)
      /\ KeepsReceiveSide(c, send_ack(c))
  BY <1>1, SendAckFrame, Zenon
<1>7. ReceivesAt(send_ack(c), isn, n, fin, size, rd, rn, qe)
  BY <1>6, KeepsReceivesAt, Zenon
<1>8. ReceivesAt(d, isn, n, fin, size, rd, rn, qe) /\ d.failed = c.failed
      /\ d.state = c.state /\ SendSide(d) = SendSide(c)
  BY <1>5, <1>6, <1>7, Zenon
<1>9. AcksOnly(c, d, seg) /\ FailsAsKnown(c, d)
  BY <1>8, Zenon DEF AcksOnly, FailsAsKnown
<1>. QED  BY <1>8, <1>9, Zenon DEF d

\* The application pops the front buffer: the window moves on.
LEMMA PollRecvReceivesAt ==
    ASSUME NEW c, NEW isn, NEW n, NEW fin, NEW size, NEW rd, NEW rn, NEW qe,
           ReceivesAt(c, isn, n, fin, size, rd, rn, qe), c.recv_queue # << >>
    PROVE  LET d == poll_recv(c)
               k == Head(c.recv_queue).len
           IN  /\ k \in Nat
               /\ ReceivesAt(d, isn, n, fin, size, rd + k, rn, qe)
               /\ SendSide(d) = SendSide(c) /\ d.state = c.state /\ d.failed = c.failed
<1>. DEFINE k == Head(c.recv_queue).len
            d == poll_recv(c)
            q == Tail(c.recv_queue)
            p == Plus(c.reader_next, k)
<1>1. /\ IsControlBlock(c) /\ isn \in SeqNumbers /\ Positions(n, fin, size, rd, rn, qe)
      /\ Chain(c.recv_queue, rd, qe) /\ c.reader_next = At(isn, rd)
      /\ rd \in Nat /\ qe \in Nat /\ n \in Nat /\ size \in Nat /\ qe <= n
  BY Zenon DEF ReceivesAt, Side, Positions
<1>2. /\ Head(c.recv_queue) = c.recv_queue[1] /\ c.recv_queue[1] \in Bufs
      /\ Chain(q, rd + c.recv_queue[1].len, qe)
  BY <1>1, ChainTail, Zenon
<1>3. k \in Nat /\ Chain(q, rd + k, qe) /\ rd + k \in Nat
  BY <1>1, <1>2 DEF Bufs
<1>4. d = [c EXCEPT !.recv_queue = q, !.reader_next = p]
  BY Zenon DEF poll_recv
<1>. HIDE DEF k, d
<1>5. rd + k <= qe
  BY <1>1, <1>3, ChainLen, Zenon
<1>6. p = At(isn, rd + k)
  <2>1. rd \in Offsets /\ rd + k \in Offsets
    BY <1>1, <1>3, <1>5, PositionsInRange, HalfAssumption DEF Positions, Offsets
  <2>. QED  BY <2>1, <1>1, <1>3, AtMove
<1>. HIDE DEF p, q
<1>7. /\ IsControlBlock(d) /\ SendSide(d) = SendSide(c) /\ d.state = c.state /\ d.failed = c.failed
      /\ d.receive_next = c.receive_next /\ d.out_of_order = c.out_of_order
      /\ d.reader_next = p /\ d.recv_queue = q
      /\ d.receive_buffer_size = c.receive_buffer_size /\ d.out_of_order_fin = c.out_of_order_fin
  BY <1>1, <1>4, ZenonT(30) DEF IsControlBlock, Fields, SendSide
<1>8. Positions(n, fin, size, rd + k, rn, qe)
  BY <1>1, <1>3, <1>5 DEF Positions
<1>9. c.out_of_order \in Seq(StreamEntries(isn, Edge(n, rd + k + size)))
  <2>1. Edge(n, rd + size) \in Nat /\ Edge(n, rd + k + size) \in Nat
        /\ Edge(n, rd + size) <= Edge(n, rd + k + size)
    BY <1>1, <1>3 DEF Edge
  <2>2. StreamEntries(isn, Edge(n, rd + size)) \subseteq StreamEntries(isn, Edge(n, rd + k + size))
    <3>. DEFINE l1 == Edge(n, rd + size)
                l2 == Edge(n, rd + k + size)
    <3>1. l1 \in Nat /\ l2 \in Nat /\ l1 <= l2
      BY <2>1, Zenon
    <3>. HIDE DEF l1, l2
    <3>2. StreamEntries(isn, l1) \subseteq StreamEntries(isn, l2)
      BY <3>1 DEF StreamEntries, Entries, Bufs
    <3>. QED  BY <3>2, Zenon DEF l1, l2
  <2>3. c.out_of_order \in Seq(StreamEntries(isn, Edge(n, rd + size)))
    BY Zenon DEF ReceivesAt, Side
  <2>. QED  BY <2>2, <2>3, SeqMonotonic, Zenon
<1>10. /\ c.receive_buffer_size = size /\ c.receive_next = At(isn, rn) /\ Len(c.out_of_order) <= MAX_OUT_OF_ORDER
       /\ c.out_of_order_fin \subseteq {At(isn, n)}
       /\ c.out_of_order_fin # {} => fin /\ n + 1 <= rd + k + size
  <2>1. n + 1 <= rd + size => n + 1 <= rd + k + size
    BY <1>1, <1>3
  <2>. QED  BY <2>1, Zenon DEF ReceivesAt, Side
<1>11. Side(d, isn, n, fin, size, rd + k, rn, qe)
  BY <1>3, <1>6, <1>7, <1>9, <1>10, Zenon DEF Side
<1>12. StateAgrees(d, n, rn, qe)
  BY <1>7, Zenon DEF ReceivesAt, StateAgrees
<1>13. ReceivesAt(d, isn, n, fin, size, rd + k, rn, qe)
  BY <1>1, <1>7, <1>8, <1>11, <1>12, Zenon DEF ReceivesAt
<1>. QED  BY <1>3, <1>7, <1>13, Zenon DEF d, k

----------------------------------------------------------------------------
(* Sending. *)

\* transmit changes the send side, and the state after a FIN.
LEMMA TransmitFrame ==
    ASSUME NEW c, IsControlBlock(c), NEW seq, NEW buf
    PROVE  LET d == transmit(c, seq, buf)
           IN  /\ IsControlBlock(d) /\ d.failed = c.failed
               /\ KeepsReceiveSide(c, d)
               /\ SendSide(d) = << c.send_unacked, Append(c.unacked_queue, buf),
                                   Plus(c.send_next, SeqSpace(buf)), c.unsent_queue,
                                   c.user_is_done_sending >>
<1>. DEFINE seg == [tcp_header(c, seq) EXCEPT !.fin = (buf.len = 0), !.buf = buf]
            e == emit(c, seg)
            n == Plus(e.send_next, SeqSpace(buf))
            q == Append(e.unacked_queue, buf)
            d == transmit(c, seq, buf)
<1>1. seg.fin \in BOOLEAN
  BY Zenon DEF tcp_header
<1>2. d = [e EXCEPT !.send_next = n, !.unacked_queue = q, !.retransmit_deadline = TRUE]
  BY Zenon DEF transmit
<1>. HIDE DEF seg
<1>3. /\ IsControlBlock(e) /\ e.failed = c.failed
      /\ KeepsReceiveSide(c, e) /\ SendSide(e) = SendSide(c)
  BY <1>1, EmitFrame
<1>4. /\ e.send_unacked = c.send_unacked /\ e.unsent_queue = c.unsent_queue
      /\ e.user_is_done_sending = c.user_is_done_sending
      /\ n = Plus(c.send_next, SeqSpace(buf)) /\ q = Append(c.unacked_queue, buf)
  BY <1>3, Zenon DEF SendSide
<1>. HIDE DEF e, n, q, d
<1>5. /\ IsControlBlock(d) /\ d.failed = e.failed /\ d.state = e.state
      /\ ReceiveSide(d) = ReceiveSide(e)
      /\ SendSide(d) = << e.send_unacked, q, n, e.unsent_queue, e.user_is_done_sending >>
  BY <1>2, <1>3, ZenonT(30) DEF IsControlBlock, Fields, ReceiveSide, SendSide
<1>6. KeepsReceiveSide(c, d)
  BY <1>3, <1>5, Zenon DEF KeepsReceiveSide
<1>. QED  BY <1>3, <1>4, <1>5, <1>6, Zenon DEF d

\* A send that is accepted transmits the buffer, or queues it.
LEMMA SendFrame ==
    ASSUME NEW c, IsControlBlock(c), NEW buf, SendAccepts(c, buf)
    PROVE  LET d == send(c, buf)
           IN  /\ IsControlBlock(d) /\ d.failed = c.failed
               /\ KeepsReceiveSide(c, d)
               /\ \/ /\ c.unsent_queue = << >>
                     /\ SendSide(d) = << c.send_unacked, Append(c.unacked_queue, buf),
                                         Plus(c.send_next, SeqSpace(buf)), c.unsent_queue,
                                         c.user_is_done_sending >>
                  \/ SendSide(d) = << c.send_unacked, c.unacked_queue, c.send_next,
                                      Append(c.unsent_queue, buf), c.user_is_done_sending >>
<1>. DEFINE d == send(c, buf)
            t == transmit(c, c.send_next, buf)
            u == Plus(t.unsent_seq_no, SeqSpace(buf))
            v == Plus(c.unsent_seq_no, buf.len)
            q == Append(c.unsent_queue, buf)
<1>1. CASE SendsImmediately(c, buf)
  <2>1. d = [t EXCEPT !.unsent_seq_no = u] /\ c.unsent_queue = << >>
    BY <1>1, Zenon DEF send, SendsImmediately
  <2>2. /\ IsControlBlock(t) /\ t.failed = c.failed /\ KeepsReceiveSide(c, t)
        /\ SendSide(t) = << c.send_unacked, Append(c.unacked_queue, buf),
                            Plus(c.send_next, SeqSpace(buf)), c.unsent_queue,
                            c.user_is_done_sending >>
    BY TransmitFrame, Zenon
  <2>. HIDE DEF t, u, d
  <2>3. /\ IsControlBlock(d) /\ d.failed = t.failed /\ d.state = t.state
        /\ ReceiveSide(d) = ReceiveSide(t) /\ SendSide(d) = SendSide(t)
    BY <2>1, <2>2, Zenon DEF IsControlBlock, Fields, ReceiveSide, SendSide
  <2>4. KeepsReceiveSide(c, d)
    BY <2>2, <2>3, Zenon DEF KeepsReceiveSide
  <2>. QED  BY <2>1, <2>2, <2>3, <2>4, Zenon DEF d
<1>2. CASE ~ SendsImmediately(c, buf)
  <2>1. d = [c EXCEPT !.unsent_queue = q, !.unsent_seq_no = v]
    BY <1>2, Zenon DEF send
  <2>. HIDE DEF q, v, d
  <2>2. /\ IsControlBlock(d) /\ d.failed = c.failed /\ d.state = c.state
        /\ ReceiveSide(d) = ReceiveSide(c)
        /\ SendSide(d) = << c.send_unacked, c.unacked_queue, c.send_next, q,
                            c.user_is_done_sending >>
    BY <2>1, ZenonT(30) DEF IsControlBlock, Fields, ReceiveSide, SendSide
  <2>3. KeepsReceiveSide(c, d)
    BY <2>2, Zenon DEF KeepsReceiveSide
  <2>. QED  BY <2>2, <2>3, Zenon DEF d, q
<1>. QED  BY <1>1, <1>2, Zenon

\* close with room for the end-of-send marker: only its assertion on the state
\* may fail.
LEMMA CloseFrame ==
    ASSUME NEW c, IsControlBlock(c), ~ c.user_is_done_sending,
           Len(c.unsent_queue) <= UNSENT_QUEUE_CUTOFF
    PROVE  LET d == close(c)
           IN  /\ IsControlBlock(d) /\ KeepsReceiveSide(c, d)
               /\ c.state \in {"Established", "CloseWait"} => d.failed = c.failed
               /\ c.state \notin {"Established", "CloseWait"} =>
                      d.failed = c.failed \cup {"close_in_bad_state"}
               /\ \/ /\ c.unsent_queue = << >>
                     /\ SendSide(d) = << c.send_unacked, Append(c.unacked_queue, Buf(0, 0)),
                                         Plus(c.send_next, 1), c.unsent_queue, TRUE >>
                  \/ SendSide(d) = << c.send_unacked, c.unacked_queue, c.send_next,
                                      Append(c.unsent_queue, Buf(0, 0)), TRUE >>
<1>. DEFINE h == c.state \in {"Established", "CloseWait"}
            buf == Buf(0, 0)
            a == SendAccepts(c, buf)
            c1 == Fail(c, "close_in_bad_state", h)
            c2 == Fail(c1, "close_send_failed", a)
            s == send(c2, buf)
            d == close(c)
<1>1. d = [s EXCEPT !.user_is_done_sending = TRUE]
  BY Zenon DEF close
<1>2. a
  BY Zenon DEF SendAccepts
<1>3. SeqSpace(buf) = 1
  BY Zenon DEF SeqSpace, Buf
<1>. HIDE DEF h, a, buf
<1>4. /\ IsControlBlock(c1) /\ SendSide(c1) = SendSide(c)
      /\ KeepsReceiveSide(c, c1)
      /\ h => c1.failed = c.failed
      /\ ~ h => c1.failed = c.failed \cup {"close_in_bad_state"}
  BY FailFrame
<1>5. c2 = c1
  BY <1>2, Zenon DEF Fail
<1>6. SendAccepts(c2, buf)
  BY <1>4, <1>5, Zenon DEF SendAccepts, SendSide
<1>7. /\ c1.send_unacked = c.send_unacked /\ c1.unacked_queue = c.unacked_queue
      /\ c1.send_next = c.send_next /\ c1.unsent_queue = c.unsent_queue
  BY <1>4, Zenon DEF SendSide
<1>. HIDE DEF c1, c2
<1>8. /\ IsControlBlock(s) /\ s.failed = c1.failed /\ KeepsReceiveSide(c1, s)
      /\ \/ /\ c1.unsent_queue = << >>
            /\ SendSide(s) = << c1.send_unacked, Append(c1.unacked_queue, buf),
                                Plus(c1.send_next, SeqSpace(buf)), c1.unsent_queue,
                                c1.user_is_done_sending >>
         \/ SendSide(s) = << c1.send_unacked, c1.unacked_queue, c1.send_next,
                             Append(c1.unsent_queue, buf), c1.user_is_done_sending >>
  BY <1>4, <1>5, <1>6, SendFrame, Zenon
<1>. HIDE DEF s, d
<1>9. /\ IsControlBlock(d) /\ d.failed = s.failed /\ d.state = s.state
      /\ ReceiveSide(d) = ReceiveSide(s)
      /\ SendSide(d) = << s.send_unacked, s.unacked_queue, s.send_next, s.unsent_queue, TRUE >>
  BY <1>1, <1>8, ZenonT(30) DEF IsControlBlock, Fields, ReceiveSide, SendSide
<1>10. KeepsReceiveSide(c1, d)
  BY <1>8, <1>9, Zenon DEF KeepsReceiveSide
<1>11. KeepsReceiveSide(c, d)
  BY <1>4, <1>10, KeepsTransitive, Zenon
<1>12. \/ /\ c.unsent_queue = << >>
          /\ SendSide(d) = << c.send_unacked, Append(c.unacked_queue, buf),
                              Plus(c.send_next, 1), c.unsent_queue, TRUE >>
       \/ SendSide(d) = << c.send_unacked, c.unacked_queue, c.send_next,
                           Append(c.unsent_queue, buf), TRUE >>
  BY <1>3, <1>7, <1>8, <1>9, Zenon DEF SendSide
<1>13. d.failed = c1.failed
  BY <1>8, <1>9, Zenon
<1>. QED  BY <1>4, <1>9, <1>11, <1>12, <1>13, Zenon DEF h, buf, d

=============================================================================
