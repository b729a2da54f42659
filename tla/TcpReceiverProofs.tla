-------------------------- MODULE TcpReceiverProofs --------------------------
(***************************************************************************)
(* Proofs about TcpReceiver for every stream, buffer size, segment size,   *)
(* pair of initial sequence numbers, store size and window scale, as long  *)
(* as the stream and the window fit in half of the sequence number space.  *)
(***************************************************************************)
EXTENDS TcpReceiver, ControlBlockProofs

----------------------------------------------------------------------------
(* The inductive invariant. *)

\* SND.NXT before and after this end's FIN.
FinSeq == Plus(Isn, 1)
AfterFin == Plus(FinSeq, 1)

FinBuf == Buf(0, 0)

\* The send side: nothing is sent but the FIN, which is in flight,
\* acknowledged, or still to be sent.
InFlight == << FinSeq, << FinBuf >>, AfterFin, << >>, TRUE >>
Acked == << AfterFin, << >>, AfterFin, << >>, TRUE >>
Unsent == << FinSeq, << >>, FinSeq, << FinBuf >>, TRUE >>
NothingSent == << FinSeq, << >>, FinSeq, << >>, FALSE >>

Sends(c, done) ==
    IF done THEN SendSide(c) \in {InFlight, Acked, Unsent}
    ELSE SendSide(c) = NothingSent /\ c.state \in Unclosed

\* The receive side is in step with the remote's stream.
Receives(c, rd) ==
    \E rn \in 0 .. StreamLen + 1, qe \in 0 .. StreamLen :
        ReceivesAt(c, RemoteIsn, StreamLen, TRUE, BufferSize, rd, rn, qe)

Inv == /\ read \in Nat
       /\ closed \in BOOLEAN
       /\ Receives(cb, read)
       /\ Sends(cb, closed)

\* The handlers are called with an empty output.
LEMMA IdleFrame ==
    ASSUME Receives(cb, read)
    PROVE  /\ IsControlBlock(Idle) /\ Idle.state = cb.state /\ Idle.failed = cb.failed
           /\ ReceiveSide(Idle) = ReceiveSide(cb) /\ SendSide(Idle) = SendSide(cb)
           /\ Receives(Idle, read)
           /\ get_receive_window_size(Idle) = get_receive_window_size(cb)
<1>1. PICK rn \in 0 .. StreamLen + 1, qe \in 0 .. StreamLen :
          ReceivesAt(cb, RemoteIsn, StreamLen, TRUE, BufferSize, read, rn, qe)
  BY Zenon DEF Receives
<1>2. IsControlBlock(cb)
  BY <1>1, Zenon DEF ReceivesAt
<1>3. /\ IsControlBlock(Idle) /\ Idle.state = cb.state /\ Idle.failed = cb.failed
      /\ ReceiveSide(Idle) = ReceiveSide(cb) /\ SendSide(Idle) = SendSide(cb)
  BY <1>2, Zenon DEF Idle, IsControlBlock, Fields, ReceiveSide, SendSide
<1>4. KeepsReceiveSide(cb, Idle)
  BY <1>3, Zenon DEF KeepsReceiveSide
<1>5. ReceivesAt(Idle, RemoteIsn, StreamLen, TRUE, BufferSize, read, rn, qe)
  BY <1>1, <1>3, <1>4, KeepsReceivesAt, Zenon
<1>6. get_receive_window_size(Idle) = get_receive_window_size(cb)
  BY <1>3, Zenon DEF ReceiveSide, get_receive_window_size
<1>. QED  BY <1>1, <1>3, <1>5, <1>6, Zenon DEF Receives

\* The positions of the invariant lie in its bounds.
LEMMA ReceivesFrom ==
    ASSUME NEW c, NEW rd, NEW rn \in Nat, NEW qe \in Nat,
           ReceivesAt(c, RemoteIsn, StreamLen, TRUE, BufferSize, rd, rn, qe)
    PROVE  Receives(c, rd)
<1>1. rn <= StreamLen + 1 /\ qe <= StreamLen /\ StreamLen \in Nat
  BY Zenon DEF ReceivesAt, Positions
<1>2. rn \in 0 .. StreamLen + 1 /\ qe \in 0 .. StreamLen
  BY <1>1
<1>. QED  BY <1>2, Zenon DEF Receives

\* The two sequence numbers of the send side.
LEMMA FinSeqs ==
    /\ FinSeq \in SeqNumbers /\ AfterFin \in SeqNumbers
    /\ ~ Lt(FinSeq, FinSeq) /\ ~ Lt(AfterFin, AfterFin) /\ ~ Lt(AfterFin, FinSeq)
    /\ FinSeq # AfterFin /\ Minus(AfterFin, FinSeq) = 1 /\ ~ Le(AfterFin, FinSeq)
<1>1. Half > 4 /\ Half \in Nat /\ Isn \in SeqNumbers
  BY HalfAssumption, TcpReceiverAssumption
<1>. QED  BY <1>1 DEF FinSeq, AfterFin, SeqNumbers, Modulus, Plus, Minus, Lt, Le

\* remove_acknowledged_data with the FIN alone in the queue.
LEMMA RemoveFin ==
    ASSUME NEW c, IsControlBlock(c), c.unacked_queue = << FinBuf >>
    PROVE  LET d == remove_acknowledged_data(c, 1)
           IN  d.failed = c.failed /\ d.unacked_queue = << >>
<1>. DEFINE q == << FinBuf >>
            Def(f) == [i \in 0 .. Len(q) |->
                          IF i = 0 THEN 1 ELSE IF q[i].len = 0 THEN 0 ELSE f[i - 1] - q[i].len]
            left == CHOOSE f : f = Def(f)
            w == [i \in 0 .. 1 |-> IF i = 0 THEN 1 ELSE 0]
            Popped(i) == /\ left[i] = 0 \/ i = Len(q) \/ q[i + 1].len > left[i]
                         /\ \A j \in 0 .. (i - 1) : left[j] # 0 /\ q[j + 1].len <= left[j]
            popped == CHOOSE i \in 0 .. Len(q) : Popped(i)
            rest == SubSeq(q, popped + 1, Len(q))
            alone == \A i \in 1 .. popped : q[i].len = 0 => left[i - 1] = 1
            ok == left[popped] = 0 \/ rest # << >>
            c2 == Fail(Fail(c, "fin_not_last_acknowledged", alone), "unacked_queue_underrun", ok)
            kept == IF left[popped] = 0 \/ rest = << >> THEN rest
                    ELSE << adjust(Head(rest), left[popped]) >> \o Tail(rest)
<1>1. remove_acknowledged_data(c, 1) = [c2 EXCEPT !.unacked_queue = kept]
  BY DEF remove_acknowledged_data
<1>2. Len(q) = 1 /\ q[1] = FinBuf /\ FinBuf.len = 0
  BY Zenon DEF FinBuf, Buf
<1>. HIDE DEF q
<1>3. w = Def(w)
  BY <1>2
<1>4. left = Def(left)
  BY <1>3, Zenon
<1>. HIDE DEF left
<1>5. left[0] = 1 /\ left[1] = 0
  BY <1>2, <1>4
<1>6. popped = 1
  <2>1. ~ Popped(0)
    BY <1>2, <1>5
  <2>2. Popped(1)
    BY <1>2, <1>5
  <2>3. 0 .. Len(q) = {0, 1}
    BY <1>2
  <2>. HIDE DEF Popped
  <2>. QED  BY <2>1, <2>2, <2>3, Zenon
<1>. HIDE DEF popped
<1>7. rest = << >>
  BY <1>2, <1>6 DEF q
<1>8. alone /\ ok /\ kept = << >>
  BY <1>2, <1>5, <1>6, <1>7
<1>. HIDE DEF alone, ok, kept, rest
<1>9. c2 = c
  BY <1>8, Zenon DEF Fail
<1>. HIDE DEF c2
<1>. QED  BY <1>1, <1>8, <1>9, Zenon DEF IsControlBlock, Fields

\* The send side moves on by the acknowledgment of the FIN only, and that
\* acknowledgment fails no assertion.
LEMMA SendsStep ==
    ASSUME NEW c, NEW d, NEW seg, NEW done \in BOOLEAN, Sends(c, done), AcksOnly(c, d, seg),
           seg.ack_num \in {FinSeq, AfterFin}
    PROVE  Sends(d, done) /\ d.failed \cap AckFailures \subseteq c.failed
<1>1. CASE SendSide(d) = SendSide(c) /\ d.failed \cap AckFailures \subseteq c.failed
  BY <1>1, Zenon DEF Sends, AcksOnly
<1>2. CASE /\ Lt(c.send_unacked, seg.ack_num) /\ Le(seg.ack_num, c.send_next)
           /\ \E c0 : /\ IsControlBlock(c0) /\ SendSide(c0) = SendSide(c)
                      /\ c0.failed \cap AckFailures \subseteq c.failed
                      /\ SendSide(d) = SendSide(AckNewData(c0, seg))
                      /\ d.failed \cap AckFailures \subseteq AckNewData(c0, seg).failed
  <2>1. SendSide(c) = InFlight /\ seg.ack_num = AfterFin /\ done
    <3>1. SendSide(c) \in {InFlight, Acked, Unsent, NothingSent} /\ (SendSide(c) = NothingSent \/ done)
      BY Zenon DEF Sends
    <3>2. CASE SendSide(c) = InFlight
      <4>1. c.send_unacked = FinSeq
        BY <3>2, Zenon DEF SendSide, InFlight
      <4>2. done
        BY <3>1, <3>2 DEF InFlight, NothingSent
      <4>. QED  BY <1>2, <3>2, <4>1, <4>2, FinSeqs, Zenon
    <3>3. CASE SendSide(c) = Acked
      <4>1. c.send_unacked = AfterFin
        BY <3>3, Zenon DEF SendSide, Acked
      <4>. QED  BY <1>2, <4>1, FinSeqs, Zenon
    <3>4. CASE SendSide(c) \in {Unsent, NothingSent}
      <4>1. c.send_unacked = FinSeq /\ c.send_next = FinSeq
        BY <3>4, Zenon DEF SendSide, Unsent, NothingSent
      <4>. QED  BY <1>2, <4>1, FinSeqs, Zenon
    <3>. QED  BY <3>1, <3>2, <3>3, <3>4, Zenon
  <2>2. PICK c0 : /\ IsControlBlock(c0) /\ SendSide(c0) = InFlight
                  /\ c0.failed \cap AckFailures \subseteq c.failed
                  /\ SendSide(d) = SendSide(AckNewData(c0, seg))
                  /\ d.failed \cap AckFailures \subseteq AckNewData(c0, seg).failed
    BY <1>2, <2>1, Zenon
  <2>3. /\ c0.send_unacked = FinSeq /\ c0.unacked_queue = << FinBuf >> /\ c0.send_next = AfterFin
        /\ c0.unsent_queue = << >> /\ c0.user_is_done_sending = TRUE
    BY <2>2, Zenon DEF SendSide, InFlight
  <2>. DEFINE r == remove_acknowledged_data(c0, 1)
  <2>4. r.failed = c0.failed /\ r.unacked_queue = << >>
    BY <2>2, <2>3, RemoveFin, Zenon
  <2>5. Minus(seg.ack_num, c0.send_unacked) = 1
    BY <2>1, <2>3, FinSeqs, Zenon
  <2>. HIDE DEF r
  <2>6. /\ AckNewData(c0, seg).failed = r.failed
        /\ SendSide(AckNewData(c0, seg)) =
              << seg.ack_num, r.unacked_queue, c0.send_next, c0.unsent_queue,
                 c0.user_is_done_sending >>
    BY <2>2, <2>5, AckNewDataFrame, ZenonT(30) DEF r
  <2>7. SendSide(d) = Acked
    BY <2>1, <2>2, <2>3, <2>4, <2>6, Zenon DEF Acked
  <2>8. d.failed \cap AckFailures \subseteq c.failed
    BY <2>2, <2>4, <2>6, Zenon
  <2>. QED  BY <2>1, <2>7, <2>8, Zenon DEF Sends
<1>. QED  BY <1>1, <1>2, Zenon DEF AcksOnly

\* What a step of the control block keeps, and the assertions it may fail.
Steps(d, rd, done) ==
    /\ Receives(d, rd)
    /\ Sends(d, done)
    /\ "segment_outside_window" \in d.failed \ cb.failed => get_receive_window_size(cb) = 0
    /\ \/ d.failed \ cb.failed \subseteq {"segment_outside_window", "fin_is_not_next"}
       \/ cb.state = "Closed" \/ "fin_is_not_next" \in cb.failed

\* The acknowledgment numbers of the remote.
LEMMA AckNumbers ==
    ASSUME NEW c, NEW done \in BOOLEAN, Sends(c, done)
    PROVE  c.send_unacked \in {FinSeq, AfterFin} /\ c.send_next \in {FinSeq, AfterFin}
<1>1. SendSide(c) \in {InFlight, Acked, Unsent, NothingSent}
  BY Zenon DEF Sends
<1>. QED  BY <1>1, Zenon DEF SendSide, InFlight, Acked, Unsent, NothingSent

\* Outcome of receive from the lemmas on it.
LEMMA ReceiveSteps ==
    ASSUME Inv, NEW d, NEW seg, NEW rn \in Nat, NEW qe \in Nat,
           ReceivesAt(d, RemoteIsn, StreamLen, TRUE, BufferSize, read, rn, qe),
           AcksOnly(Idle, d, seg), FailsAsKnown(Idle, d),
           seg.ack_num \in {FinSeq, AfterFin}
    PROVE  Steps(d, read, closed)
<1>1. /\ Idle.state = cb.state /\ Idle.failed = cb.failed /\ SendSide(Idle) = SendSide(cb)
      /\ get_receive_window_size(Idle) = get_receive_window_size(cb)
  BY IdleFrame, Zenon DEF Inv
<1>2. Sends(Idle, closed) /\ closed \in BOOLEAN
  BY <1>1, Zenon DEF Inv, Sends
<1>3. Sends(d, closed) /\ d.failed \cap AckFailures \subseteq cb.failed
  BY <1>1, <1>2, SendsStep
<1>4. Receives(d, read)
  BY ReceivesFrom, Zenon
<1>. QED  BY <1>1, <1>3, <1>4, Zenon DEF Steps, FailsAsKnown

\* A segment of the remote, with data, a FIN or a RST.
LEMMA SegmentSteps ==
    ASSUME Inv, NEW seg, NEW o, SegmentAt(seg, RemoteIsn, StreamLen, TRUE, o),
           seg.ack_num \in {cb.send_unacked, cb.send_next}
    PROVE  Steps(receive(Idle, seg), read, closed)
<1>1. Receives(Idle, read)
  BY IdleFrame, Zenon DEF Inv
<1>2. PICK rn \in 0 .. StreamLen + 1, qe \in 0 .. StreamLen :
          ReceivesAt(Idle, RemoteIsn, StreamLen, TRUE, BufferSize, read, rn, qe)
  BY <1>1, Zenon DEF Receives
<1>. DEFINE d == receive(Idle, seg)
<1>3. /\ \E rn2 \in Nat, qe2 \in Nat :
            ReceivesAt(d, RemoteIsn, StreamLen, TRUE, BufferSize, read, rn2, qe2)
      /\ AcksOnly(Idle, d, seg) /\ FailsAsKnown(Idle, d)
  BY <1>2, ReceiveReceivesAt, Zenon
<1>4. seg.ack_num \in {FinSeq, AfterFin}
  BY AckNumbers, Zenon DEF Inv
<1>. HIDE DEF d
<1>5. PICK rn2 \in Nat, qe2 \in Nat :
            ReceivesAt(d, RemoteIsn, StreamLen, TRUE, BufferSize, read, rn2, qe2)
  BY <1>3, Zenon
<1>6. Steps(d, read, closed)
  BY <1>3, <1>4, <1>5, ReceiveSteps, Zenon
<1>. QED  BY <1>6, Zenon DEF d

\* A control block whose receive side, state and assertions stay.
LEMMA QuietSteps ==
    ASSUME Inv, NEW d, IsControlBlock(d), KeepsReceiveSide(Idle, d), d.state = cb.state,
           d.failed = cb.failed, SendSide(d) = SendSide(cb)
    PROVE  Steps(d, read, closed)
<1>1. Receives(Idle, read)
  BY IdleFrame, Zenon DEF Inv
<1>2. PICK rn \in 0 .. StreamLen + 1, qe \in 0 .. StreamLen :
          ReceivesAt(Idle, RemoteIsn, StreamLen, TRUE, BufferSize, read, rn, qe)
  BY <1>1, Zenon DEF Receives
<1>3. ReceivesAt(d, RemoteIsn, StreamLen, TRUE, BufferSize, read, rn, qe)
  BY <1>2, KeepsReceivesAt, Zenon
<1>4. Receives(d, read)
  BY <1>3, Zenon DEF Receives
<1>5. Sends(d, closed)
  BY Zenon DEF Inv, Sends
<1>. QED  BY <1>4, <1>5, Zenon DEF Steps

\* The segments of the remote.
LEMMA RemoteSegmentAt ==
    ASSUME NEW off \in Nat, NEW len \in Nat, NEW seg, IsSegment(seg),
           seg.seq = SeqAt(off), ~ seg.syn, seg.buf = Buf(off, len),
           off <= StreamLen + 1, len > 0 => off + len <= StreamLen,
           seg.fin => off + len = StreamLen
    PROVE  SegmentAt(seg, RemoteIsn, StreamLen, TRUE, off)
<1>1. SeqAt(off) = At(RemoteIsn, off)
  BY Zenon DEF SeqAt, At
<1>2. StreamLen \in Nat
  BY TcpReceiverAssumption, Zenon
<1>3. Buf(off, len) \in Bufs /\ Buf(off, len).off = off /\ Buf(off, len).len = len
  BY Zenon DEF Buf, Bufs
<1>. QED  BY <1>1, <1>2, <1>3, Zenon DEF SegmentAt

\* One lemma per action.  A segment with data, a FIN, or both.
LEMMA ReceiveSegmentSteps ==
    ASSUME Inv, NEW off \in 0 .. StreamLen, NEW len \in 0 .. Min({MaxSegment, StreamLen - off}),
           NEW fin \in BOOLEAN, ReceiveSegment(off, len, fin)
    PROVE  Steps(cb', read', closed')
<1>1. PICK ack_num \in {cb.send_unacked, cb.send_next} :
          cb' = receive(Idle, RemoteSegment(off, len, fin, ack_num))
  BY Zenon DEF ReceiveSegment
<1>2. /\ off \in Nat /\ len \in Nat /\ off <= StreamLen + 1 /\ off + len <= StreamLen
      /\ fin => off + len = StreamLen
  <2>1. StreamLen \in Nat /\ MaxSegment \in Nat /\ off \in Nat /\ off <= StreamLen
    BY TcpReceiverAssumption
  <2>2. MaxSegment \in Int /\ StreamLen - off \in Int
    BY <2>1
  <2>3. Min({MaxSegment, StreamLen - off}) <= StreamLen - off
        /\ Min({MaxSegment, StreamLen - off}) \in Int
    BY <2>2 DEF Min
  <2>4. len \in Nat /\ len <= StreamLen - off
    BY <2>1, <2>2, <2>3
  <2>. QED  BY <2>1, <2>4 DEF ReceiveSegment
<1>. DEFINE seg == RemoteSegment(off, len, fin, ack_num)
<1>3. /\ IsSegment(seg) /\ seg.seq = SeqAt(off) /\ ~ seg.syn /\ seg.buf = Buf(off, len)
      /\ seg.fin => off + len = StreamLen
      /\ seg.ack_num = ack_num
  BY <1>2, Zenon DEF RemoteSegment, IsSegment, SegmentFields
<1>. HIDE DEF seg
<1>4. SegmentAt(seg, RemoteIsn, StreamLen, TRUE, off)
  BY <1>2, <1>3, RemoteSegmentAt, Zenon
<1>5. Steps(receive(Idle, seg), read, closed)
  BY <1>1, <1>3, <1>4, SegmentSteps, Zenon
<1>. QED  BY <1>1, <1>5, Zenon DEF ReceiveSegment, seg

\* A reset.
LEMMA ReceiveResetSteps ==
    ASSUME Inv, NEW off \in 0 .. StreamLen + 1, ReceiveReset(off)
    PROVE  Steps(cb', read', closed')
<1>. DEFINE ack_num == cb.send_unacked
            len == 0
            seg == [RemoteSegment(off, 0, FALSE, ack_num) EXCEPT !.rst = TRUE]
<1>1. cb' = receive(Idle, seg)
  BY Zenon DEF ReceiveReset
<1>2. /\ IsSegment(seg) /\ seg.seq = SeqAt(off) /\ ~ seg.syn /\ seg.buf = Buf(off, len)
      /\ ~ seg.fin /\ seg.ack_num = ack_num
  BY Zenon DEF RemoteSegment, IsSegment, SegmentFields
<1>3. off \in Nat /\ off <= StreamLen + 1 /\ len \in Nat /\ ~ (len > 0)
  BY TcpReceiverAssumption
<1>. HIDE DEF seg, ack_num, len
<1>4. SegmentAt(seg, RemoteIsn, StreamLen, TRUE, off)
  BY <1>3, <1>2, RemoteSegmentAt, Zenon
<1>5. Steps(receive(Idle, seg), read, closed)
  BY <1>4, <1>2, SegmentSteps, Zenon DEF ack_num
<1>. QED  BY <1>1, <1>5, Zenon DEF ReceiveReset

\* The SYN+ACK again.
LEMMA HandshakeSteps ==
    ASSUME Inv, ReceiveHandshakeAgain
    PROVE  Steps(cb', read', closed')
<1>. DEFINE seg == [RemoteSegment(0, 0, FALSE, Plus(Isn, 1)) EXCEPT !.seq = RemoteIsn, !.syn = TRUE]
            d == receive(Idle, seg)
<1>1. cb' = d
  BY Zenon DEF ReceiveHandshakeAgain
<1>2. /\ seg.seq = RemoteIsn /\ seg.syn /\ ~ seg.fin /\ seg.buf.len = 0
      /\ seg.ack_num = FinSeq
  BY Zenon DEF RemoteSegment, Buf, FinSeq
<1>3. Receives(Idle, read)
  BY IdleFrame, Zenon DEF Inv
<1>4. PICK rn \in 0 .. StreamLen + 1, qe \in 0 .. StreamLen :
          ReceivesAt(Idle, RemoteIsn, StreamLen, TRUE, BufferSize, read, rn, qe)
  BY <1>3, Zenon DEF Receives
<1>. HIDE DEF seg
<1>5. /\ ReceivesAt(d, RemoteIsn, StreamLen, TRUE, BufferSize, read, rn, qe)
      /\ AcksOnly(Idle, d, seg) /\ FailsAsKnown(Idle, d)
  BY <1>2, <1>4, ReceiveHandshake, Zenon
<1>6. rn \in Nat /\ qe \in Nat
  BY TcpReceiverAssumption
<1>. HIDE DEF d
<1>7. Steps(d, read, closed)
  BY <1>2, <1>5, <1>6, ReceiveSteps, Zenon
<1>. QED  BY <1>1, <1>7, Zenon DEF ReceiveHandshakeAgain

\* A pop moves the application on by the first buffer of the queue.
LEMMA PopSteps ==
    ASSUME Inv, Pop
    PROVE  Steps(cb', read', closed')
<1>1. /\ Receives(Idle, read) /\ ReceiveSide(Idle) = ReceiveSide(cb) /\ SendSide(Idle) = SendSide(cb)
      /\ Idle.state = cb.state /\ Idle.failed = cb.failed
  BY IdleFrame, Zenon DEF Inv
<1>2. PICK rn \in 0 .. StreamLen + 1, qe \in 0 .. StreamLen :
          ReceivesAt(Idle, RemoteIsn, StreamLen, TRUE, BufferSize, read, rn, qe)
  BY <1>1, Zenon DEF Receives
<1>. DEFINE d == poll_recv(Idle)
            k == Head(Idle.recv_queue).len
<1>3. Idle.recv_queue = cb.recv_queue
  BY <1>1, Zenon DEF ReceiveSide
<1>4. cb' = d /\ read' = read + k /\ closed' = closed /\ Idle.recv_queue # << >>
  BY <1>3, Zenon DEF Pop
<1>5. /\ ReceivesAt(d, RemoteIsn, StreamLen, TRUE, BufferSize, read + k, rn, qe)
      /\ SendSide(d) = SendSide(Idle) /\ d.state = Idle.state /\ d.failed = Idle.failed
  BY <1>2, <1>4, PollRecvReceivesAt, Zenon
<1>. HIDE DEF d, k
<1>6. Receives(d, read + k)
  BY <1>5, Zenon DEF Receives
<1>7. Sends(d, closed)
  BY <1>1, <1>5, Zenon DEF Inv, Sends
<1>. QED  BY <1>1, <1>4, <1>5, <1>6, <1>7, Zenon DEF Steps

\* A delayed ACK.
LEMMA AckTimeoutSteps ==
    ASSUME Inv, AckTimeout
    PROVE  Steps(cb', read', closed')
<1>1. /\ IsControlBlock(Idle) /\ SendSide(Idle) = SendSide(cb)
      /\ Idle.state = cb.state /\ Idle.failed = cb.failed
  BY IdleFrame, Zenon DEF Inv
<1>2. /\ IsControlBlock(send_ack(Idle)) /\ send_ack(Idle).failed = Idle.failed
      /\ send_ack(Idle).state = Idle.state /\ SendSide(send_ack(Idle)) = SendSide(Idle)
      /\ KeepsReceiveSide(Idle, send_ack(Idle))
  BY <1>1, SendAckFrame, Zenon
<1>3. Steps(send_ack(Idle), read, closed)
  BY <1>1, <1>2, QuietSteps, Zenon
<1>. QED  BY <1>3, Zenon DEF AckTimeout

\* close sends the FIN, or queues it.
LEMMA CloseSteps ==
    ASSUME Inv, Close
    PROVE  Steps(cb', read', closed')
<1>1. /\ IsControlBlock(Idle) /\ SendSide(Idle) = SendSide(cb) /\ Receives(Idle, read)
      /\ Idle.state = cb.state /\ Idle.failed = cb.failed
  BY IdleFrame, Zenon DEF Inv
<1>2. SendSide(Idle) = NothingSent /\ cb.state \in Unclosed
  BY <1>1, Zenon DEF Inv, Sends, Close
<1>3. /\ Idle.send_unacked = FinSeq /\ Idle.unacked_queue = << >> /\ Idle.send_next = FinSeq
      /\ Idle.unsent_queue = << >> /\ Idle.user_is_done_sending = FALSE
  BY <1>2, Zenon DEF SendSide, NothingSent
<1>4. Len(Idle.unsent_queue) <= UNSENT_QUEUE_CUTOFF
  BY <1>3, ControlBlockAssumption
<1>. DEFINE d == close(Idle)
<1>5. /\ IsControlBlock(d) /\ KeepsReceiveSide(Idle, d)
      /\ Idle.state \in {"Established", "CloseWait"} => d.failed = Idle.failed
      /\ Idle.state \notin {"Established", "CloseWait"} =>
             d.failed = Idle.failed \cup {"close_in_bad_state"}
      /\ \/ SendSide(d) = << Idle.send_unacked, Append(Idle.unacked_queue, Buf(0, 0)),
                             Plus(Idle.send_next, 1), Idle.unsent_queue, TRUE >>
         \/ SendSide(d) = << Idle.send_unacked, Idle.unacked_queue, Idle.send_next,
                             Append(Idle.unsent_queue, Buf(0, 0)), TRUE >>
  BY <1>1, <1>3, <1>4, CloseFrame, Zenon
<1>. HIDE DEF d
<1>6. SendSide(d) \in {InFlight, Unsent}
  <2>1. Append(<< >>, Buf(0, 0)) = << FinBuf >>
    BY DEF FinBuf
  <2>. QED  BY <1>3, <1>5, <2>1, Zenon DEF InFlight, Unsent, AfterFin
<1>7. PICK rn \in 0 .. StreamLen + 1, qe \in 0 .. StreamLen :
          ReceivesAt(Idle, RemoteIsn, StreamLen, TRUE, BufferSize, read, rn, qe)
  BY <1>1, Zenon DEF Receives
<1>8. ReceivesAt(d, RemoteIsn, StreamLen, TRUE, BufferSize, read, rn, qe)
  BY <1>5, <1>7, KeepsReceivesAt, Zenon
<1>9. Receives(d, read)
  BY <1>8, Zenon DEF Receives
<1>10. Sends(d, TRUE)
  BY <1>6, Zenon DEF Sends
<1>11. cb' = d /\ read' = read /\ closed' = TRUE
  BY Zenon DEF Close, d
<1>12. d.failed = cb.failed \/ (cb.state = "Closed" /\ d.failed = cb.failed \cup {"close_in_bad_state"})
  BY <1>1, <1>2, <1>5, Zenon DEF Unclosed
<1>. QED  BY <1>9, <1>10, <1>11, <1>12, Zenon DEF Steps

\* The new control block.
LEMMA InitInv ==
    ASSUME Init
    PROVE  Inv
<1>. DEFINE z == 0
<1>1. cb = NewControlBlock(Plus(RemoteIsn, 1), BufferSize, Plus(Isn, 1), BufferSize)
      /\ read = z /\ closed = FALSE
  BY Zenon DEF Init
<1>2. IsControlBlock(cb)
  BY <1>1, Zenon DEF NewControlBlock, IsControlBlock, Fields
<1>3. /\ cb.receive_buffer_size = BufferSize /\ cb.recv_queue = << >> /\ cb.out_of_order = << >>
      /\ cb.out_of_order_fin = {} /\ cb.state = "Established"
      /\ cb.reader_next = Plus(RemoteIsn, 1) /\ cb.receive_next = Plus(RemoteIsn, 1)
      /\ SendSide(cb) = NothingSent
  BY <1>1, Zenon DEF NewControlBlock, SendSide, NothingSent, FinSeq
<1>4. /\ StreamLen \in Nat /\ BufferSize \in Nat /\ RemoteIsn \in SeqNumbers
      /\ StreamLen + BufferSize + 2 < Half
      /\ z \in Nat /\ z \in 0 .. StreamLen + 1 /\ z \in 0 .. StreamLen
      /\ Plus(RemoteIsn, 1) = At(RemoteIsn, z)
  BY TcpReceiverAssumption DEF At
<1>5. Positions(StreamLen, TRUE, BufferSize, z, z, z)
  BY <1>4 DEF Positions
<1>6. MAX_OUT_OF_ORDER \in Nat
  BY ControlBlockAssumption, Zenon
<1>. HIDE DEF z
<1>7. Chain(cb.recv_queue, z, z)
  BY <1>3 DEF Chain
<1>8. Side(cb, RemoteIsn, StreamLen, TRUE, BufferSize, z, z, z)
  BY <1>3, <1>4, <1>6, <1>7 DEF Side
<1>9. StateAgrees(cb, StreamLen, z, z)
  BY <1>3, Zenon DEF StateAgrees, Receiving
<1>10. ReceivesAt(cb, RemoteIsn, StreamLen, TRUE, BufferSize, z, z, z)
  BY <1>2, <1>4, <1>5, <1>8, <1>9, Zenon DEF ReceivesAt
<1>11. Receives(cb, read)
  BY <1>1, <1>4, <1>10, Zenon DEF Receives
<1>12. Sends(cb, closed)
  BY <1>1, <1>3, Zenon DEF Sends, Unclosed
<1>. QED  BY <1>1, <1>4, <1>11, <1>12, Zenon DEF Inv

\* Every step keeps the invariant and fails assertions in the known ways only.
LEMMA NextSteps ==
    ASSUME Inv, Next
    PROVE  Steps(cb', read', closed')
BY ReceiveSegmentSteps, ReceiveResetSteps, HandshakeSteps, PopSteps, AckTimeoutSteps, CloseSteps, Zenon
   DEF Next

\* Inv is inductive.
LEMMA StepsInv ==
    ASSUME Inv, Next
    PROVE  Inv'
<1>1. Steps(cb', read', closed')
  BY NextSteps, Zenon
<1>2. closed' \in BOOLEAN
  BY Zenon DEF Inv, Next, ReceiveSegment, ReceiveReset, ReceiveHandshakeAgain, Pop, AckTimeout, Close
<1>3. Receives(cb', read') /\ Sends(cb', closed')
  BY <1>1, Zenon DEF Steps
<1>4. read' \in Nat
  BY <1>3, Zenon DEF Receives, ReceivesAt, Positions
<1>. QED  BY <1>2, <1>3, <1>4, Zenon DEF Inv, Receives, Sends

\* What the invariant says of the receive queue, the window and the store.
LEMMA InvSafe ==
    ASSUME Inv
    PROVE  StreamIntegrity /\ AckedIsQueued /\ WindowNeverWraps /\ StoreHoldsStream
<1>1. PICK rn \in 0 .. StreamLen + 1, qe \in 0 .. StreamLen :
          ReceivesAt(cb, RemoteIsn, StreamLen, TRUE, BufferSize, read, rn, qe)
  BY Zenon DEF Inv, Receives
<1>2. /\ RemoteIsn \in SeqNumbers
      /\ Positions(StreamLen, TRUE, BufferSize, read, rn, qe)
      /\ Side(cb, RemoteIsn, StreamLen, TRUE, BufferSize, read, rn, qe)
      /\ StateAgrees(cb, StreamLen, rn, qe)
  BY <1>1, Zenon DEF ReceivesAt
<1>3. /\ {read, rn, qe, StreamLen, BufferSize} \subseteq Nat
      /\ read <= qe /\ qe <= rn /\ rn <= read + BufferSize
      /\ read \in Offsets /\ rn \in Offsets
  <2>1. /\ {read, rn, qe, StreamLen, BufferSize} \subseteq Nat
        /\ read <= qe /\ qe <= rn /\ rn <= read + BufferSize
    BY <1>2, Zenon DEF Positions
  <2>2. read \in Offsets /\ rn \in Offsets
    BY <1>2, PositionsInRange, Zenon
  <2>. QED  BY <2>1, <2>2, Zenon
<1>4. StreamIntegrity
  BY <1>2, Zenon DEF Side, Chain, StreamIntegrity
<1>5. WindowNeverWraps
  <2>. DEFINE fin == TRUE
  <2>1. ReceivesAt(cb, RemoteIsn, StreamLen, fin, BufferSize, read, rn, qe)
    BY <1>1, Zenon
  <2>. HIDE DEF fin
  <2>2. Minus(cb.receive_next, cb.reader_next) = rn - read
    BY <2>1, WindowAt
  <2>3. rn - read <= BufferSize
    BY <1>3
  <2>. QED  BY <2>2, <2>3, Zenon DEF WindowNeverWraps
<1>6. Offset(cb.receive_next) = rn /\ Offset(cb.reader_next) = read
  <2>. DEFINE z == 0
  <2>1. z \in Offsets /\ At(RemoteIsn, z) = Plus(RemoteIsn, 1)
    BY <1>3, HalfAssumption DEF Offsets, At
  <2>2. rn - z = rn /\ read - z = read /\ z <= rn /\ z <= read
    BY <1>3
  <2>3. cb.receive_next = At(RemoteIsn, rn) /\ cb.reader_next = At(RemoteIsn, read)
    BY <1>2, Zenon DEF Side
  <2>. HIDE DEF z
  <2>4. Minus(At(RemoteIsn, rn), At(RemoteIsn, z)) = rn - z
    BY <1>2, <1>3, <2>1, <2>2, AtCompare, ZenonT(30)
  <2>5. Minus(At(RemoteIsn, read), At(RemoteIsn, z)) = read - z
    BY <1>2, <1>3, <2>1, <2>2, AtCompare
  <2>. QED  BY <2>1, <2>2, <2>3, <2>4, <2>5, Zenon DEF Offset
<1>7. read + Queued = qe
  <2>1. Chain(cb.recv_queue, read, qe)
    BY <1>2, Zenon DEF Side
  <2>2. TotalLen(cb.recv_queue) = qe - read
    BY <1>3, <2>1, ChainLen, Zenon
  <2>. QED  BY <1>3, <2>2 DEF Queued
<1>8. AckedIsQueued
  BY <1>2, <1>3, <1>6, <1>7, Zenon DEF StateAgrees, AckedIsQueued
<1>9. StoreHoldsStream
  <2>. DEFINE lim == Edge(StreamLen, read + BufferSize)
  <2>1. /\ cb.out_of_order \in Seq(StreamEntries(RemoteIsn, lim))
        /\ Len(cb.out_of_order) <= MAX_OUT_OF_ORDER
    BY <1>2, Zenon DEF Side
  <2>2. lim \in Nat /\ lim <= read + BufferSize
    BY <1>2, PositionsInRange, Zenon
  <2>. HIDE DEF lim
  <2>3. ASSUME NEW i \in 1 .. Len(cb.out_of_order)
        PROVE  LET e == cb.out_of_order[i]
               IN  /\ e.buf.len > 0
                   /\ e.start = SeqAt(e.buf.off)
                   /\ e.buf.off + e.buf.len <= Offset(cb.reader_next) + BufferSize
    <3>. DEFINE e == cb.out_of_order[i]
    <3>1. e \in StreamEntries(RemoteIsn, lim)
      BY <2>1
    <3>. HIDE DEF e
    <3>2. /\ e.buf.len > 0 /\ e.start = At(RemoteIsn, e.buf.off)
          /\ e.buf.off + e.buf.len <= lim /\ e.buf.off \in Nat /\ e.buf.len \in Nat
      BY <3>1, Zenon DEF StreamEntries, Entries, Bufs
    <3>3. e.buf.off + e.buf.len <= Offset(cb.reader_next) + BufferSize
      BY <1>3, <1>6, <2>2, <3>2, SMTT(30)
    <3>. QED  BY <3>2, <3>3, Zenon DEF e, SeqAt, At
  <2>. QED  BY <2>1, <2>3, Zenon DEF StoreHoldsStream
<1>. QED  BY <1>4, <1>5, <1>8, <1>9, Zenon

\* Inv is an invariant of the receiver.
THEOREM Invariance == Spec => []Inv
<1>1. Inv /\ [Next]_vars => Inv'
  <2>1. ASSUME Inv, UNCHANGED vars
        PROVE  Inv'
    BY <2>1, Zenon DEF Inv, vars, Receives, Sends
  <2>. QED  BY <2>1, StepsInv, Zenon
<1>. QED  BY <1>1, InitInv, PTL DEF Spec

\* The receive queue holds the next bytes of the remote's stream, in order and
\* each of them once (receive, receive_data, store_out_of_order_segment).
THEOREM QueueIsStream == Spec => []StreamIntegrity
<1>1. Inv => StreamIntegrity
  BY InvSafe, Zenon
<1>. QED  BY <1>1, Invariance, PTL

\* What RCV.NXT acknowledges is in the receive queue.
THEOREM AcknowledgesTheQueue == Spec => []AckedIsQueued
<1>1. Inv => AckedIsQueued
  BY InvSafe, Zenon
<1>. QED  BY <1>1, Invariance, PTL

\* get_receive_window_size does not wrap.
THEOREM WindowIsBounded == Spec => []WindowNeverWraps
<1>1. Inv => WindowNeverWraps
  BY InvSafe
<1>. QED  BY <1>1, Invariance, PTL

\* The store holds bytes of the stream at their places, inside of the window.
THEOREM StoreIsStream == Spec => []StoreHoldsStream
<1>1. Inv => StoreHoldsStream
  BY InvSafe, Zenon
<1>. QED  BY <1>1, Invariance, PTL

\* The assertions of receive and close fail only from the states named.
THEOREM AssertionsFailAsKnown == Spec => FailsOnlyAsKnown
<1>. DEFINE new == cb'.failed \ cb.failed
            Known == /\ "segment_outside_window" \in new => get_receive_window_size(cb) = 0
                     /\ \/ new \subseteq {"segment_outside_window", "fin_is_not_next"}
                        \/ cb.state = "Closed" \/ "fin_is_not_next" \in cb.failed
<1>1. Inv /\ [Next]_vars => [Known]_vars
  BY NextSteps, Zenon DEF Steps
<1>2. Spec => [][Known]_vars
  BY <1>1, Invariance, PTL DEF Spec
<1>. QED  BY <1>2, Zenon DEF FailsOnlyAsKnown
=============================================================================
