---------------------------- MODULE TcpConnection ----------------------------
(***************************************************************************)
(* Two established control blocks joined by a network.                     *)
(*                                                                         *)
(* Both ends run the code of ControlBlock: the application pushes, pops    *)
(* and closes, the background tasks take their steps at any time between   *)
(* two of those, and the network delivers segments in order unless it uses *)
(* one of its Faults to lose, duplicate or reorder one.  The ARP entry of  *)
(* the peer may disappear and come back, and an ARP query may fail.        *)
(***************************************************************************)
EXTENDS ControlBlock

CONSTANTS
    IsnA, IsnB,        \* initial sequence numbers
    StreamA, StreamB,  \* bytes each application has to push
    PushSizes,         \* lengths of the buffers it pushes
    BufferSize,        \* receive_buffer_size of both ends
    Closers,           \* ends whose application closes
    Faults,            \* segments the network may lose, duplicate or reorder
    Evictions,         \* times an ARP entry may disappear
    QueryFailures,     \* ARP queries that may fail
    MaxTravelling      \* a probe is repeated only below this many segments in the network

Ends == {"a", "b"}

ASSUME TcpConnectionAssumption ==
    /\ {IsnA, IsnB} \subseteq SeqNumbers
    /\ {StreamA, StreamB, Faults, Evictions, QueryFailures, MaxTravelling} \subseteq Nat
    /\ PushSizes \subseteq Nat \ {0}
    /\ BufferSize \in Nat \ {0}
    /\ BufferSize % WindowUnit = 0
    /\ Closers \subseteq Ends
    /\ StreamA + StreamB + BufferSize + 3 < Half

VARIABLES
    cb,       \* the control block of each end
    net,      \* the segments travelling to each end
    written,  \* bytes each application has pushed
    read,     \* bytes each application has popped
    closed,   \* the ends whose application has closed
    budget    \* what is left of Faults, Evictions and QueryFailures

vars == << cb, net, written, read, closed, budget >>

app == << written, read, closed >>

Peer(e) == IF e = "a" THEN "b" ELSE "a"

Isn(e) == IF e = "a" THEN IsnA ELSE IsnB

Stream(e) == IF e = "a" THEN StreamA ELSE StreamB

Init ==
    /\ cb = [e \in Ends |-> NewControlBlock(Plus(Isn(Peer(e)), 1), BufferSize,
                                            Plus(Isn(e), 1), BufferSize)]
    /\ net = [e \in Ends |-> << >>]
    /\ written = [e \in Ends |-> 0]
    /\ read = [e \in Ends |-> 0]
    /\ closed = {}
    /\ budget = [faults |-> Faults, evictions |-> Evictions, failures |-> QueryFailures]

\* End e becomes c and what its handler sent is on its way to the peer.  A
\* handler that panics sends nothing.
Becomes(e, c, incoming) ==
    /\ cb' = [cb EXCEPT ![e] = [c EXCEPT !.out = << >>]]
    /\ net' = [net EXCEPT ![e] = incoming,
                          ![Peer(e)] = IF Panicked(c) THEN @ ELSE @ \o c.out]

Runs(e) == ~ Panicked(cb[e])

Spend(kind) == budget[kind] > 0 /\ budget' = [budget EXCEPT ![kind] = @ - 1]

----------------------------------------------------------------------------
(* The application. *)

Push(e, len) ==
    LET buf == Buf(written[e], len)
    IN  /\ Runs(e)
        /\ e \notin closed
        /\ written[e] + len <= Stream(e)
        /\ SendAccepts(cb[e], buf)
        /\ Becomes(e, send(cb[e], buf), net[e])
        /\ written' = [written EXCEPT ![e] = @ + len]
        /\ UNCHANGED << read, closed, budget >>

Pop(e) ==
    /\ Runs(e)
    /\ e \notin closed
    /\ cb[e].recv_queue # << >>
    /\ Becomes(e, poll_recv(cb[e]), net[e])
    /\ read' = [read EXCEPT ![e] = @ + Head(cb[e].recv_queue).len]
    /\ UNCHANGED << written, closed, budget >>

Close(e) ==
    /\ Runs(e)
    /\ e \in Closers \ closed
    /\ Becomes(e, close(cb[e]), net[e])
    /\ closed' = closed \cup {e}
    /\ UNCHANGED << written, read, budget >>

----------------------------------------------------------------------------
(* The background tasks. *)

AckTimeout(e) ==
    /\ Runs(e) /\ BackgroundAlive(cb[e])
    /\ cb[e].ack_deadline
    /\ Becomes(e, send_ack(cb[e]), net[e])
    /\ UNCHANGED << app, budget >>

RetransmitTimeout(e) ==
    /\ Runs(e) /\ BackgroundAlive(cb[e])
    /\ cb[e].retransmit_deadline
    /\ Becomes(e, retransmitter_timeout(cb[e]), net[e])
    /\ UNCHANGED << app, budget >>

SenderTop(e) ==
    /\ Runs(e)
    /\ SenderReady(cb[e])
    /\ Becomes(e, sender_top(cb[e]), net[e])
    /\ UNCHANGED << app, budget >>

SenderResume(e) ==
    /\ Runs(e)
    /\ SenderAwaitsArp(cb[e]) /\ cb[e].arp
    /\ Becomes(e, sender_resume(cb[e]), net[e])
    /\ UNCHANGED << app, budget >>

SenderDies(e) ==
    /\ Runs(e)
    /\ SenderAwaitsArp(cb[e]) /\ ~ cb[e].arp
    /\ Spend("failures")
    /\ Becomes(e, sender_dies(cb[e]), net[e])
    /\ UNCHANGED app

SenderWindowChanged(e) ==
    /\ Runs(e)
    /\ cb[e].task.pc = "probe" /\ cb[e].task.changed
    /\ Becomes(e, sender_window_changed(cb[e]), net[e])
    /\ UNCHANGED << app, budget >>

SenderProbeAgain(e) ==
    /\ Runs(e)
    /\ cb[e].task.pc = "probe" /\ ~ cb[e].task.changed
    /\ Len(net["a"]) + Len(net["b"]) < MaxTravelling
    /\ Becomes(e, sender_probe_again(cb[e]), net[e])
    /\ UNCHANGED << app, budget >>

----------------------------------------------------------------------------
(* The network and the ARP cache. *)

Deliver(e) ==
    /\ Runs(e)
    /\ net[e] # << >>
    /\ Becomes(e, receive(cb[e], Head(net[e])), Tail(net[e]))
    /\ UNCHANGED << app, budget >>

Lose(e) ==
    /\ net[e] # << >>
    /\ Spend("faults")
    /\ net' = [net EXCEPT ![e] = Tail(@)]
    /\ UNCHANGED << cb, app >>

Duplicate(e) ==
    /\ net[e] # << >>
    /\ Spend("faults")
    /\ net' = [net EXCEPT ![e] = Append(@, Head(@))]
    /\ UNCHANGED << cb, app >>

\* The oldest segment is overtaken by all the others.
Reorder(e) ==
    /\ Len(net[e]) > 1
    /\ Spend("faults")
    /\ net' = [net EXCEPT ![e] = Append(Tail(@), Head(@))]
    /\ UNCHANGED << cb, app >>

ArpEvict(e) ==
    /\ cb[e].arp
    /\ Spend("evictions")
    /\ cb' = [cb EXCEPT ![e].arp = FALSE]
    /\ UNCHANGED << net, app >>

ArpLearn(e) ==
    /\ ~ cb[e].arp
    /\ cb' = [cb EXCEPT ![e].arp = TRUE]
    /\ UNCHANGED << net, app, budget >>

Next == \E e \in Ends :
    \/ \E len \in PushSizes : Push(e, len)
    \/ Pop(e) \/ Close(e)
    \/ AckTimeout(e) \/ RetransmitTimeout(e)
    \/ SenderTop(e) \/ SenderResume(e) \/ SenderDies(e)
    \/ SenderWindowChanged(e) \/ SenderProbeAgain(e)
    \/ Deliver(e) \/ Lose(e) \/ Duplicate(e) \/ Reorder(e)
    \/ ArpEvict(e) \/ ArpLearn(e)

Spec == Init /\ [][Next]_vars

----------------------------------------------------------------------------
(* Properties. *)

Offset(e, seq) == Minus(seq, Plus(Isn(e), 1))

\* Bytes of the peer's stream that have reached end e.
Received(e) == read[e] + TotalLen(cb[e].recv_queue)

\* The control blocks keep their types.
TypeOK ==
    /\ \A e \in Ends :
          /\ cb[e].state \in States
          /\ {cb[e].send_unacked, cb[e].send_next, cb[e].unsent_seq_no, cb[e].reader_next,
              cb[e].receive_next} \subseteq SeqNumbers
          /\ cb[e].send_window \in 0 .. BufferSize
          /\ cb[e].out = << >>
          /\ written[e] \in 0 .. Stream(e)
          /\ read[e] \in 0 .. Stream(Peer(e))
    /\ closed \subseteq Ends

\* Each application pops the bytes its peer pushed, in order and once each,
\* whichever of the fast path, the background sender and the window probe sent
\* them and whatever the network did to the segments.
StreamIntegrity ==
    \A e \in Ends :
        LET q == cb[e].recv_queue
        IN  /\ Received(e) <= written[Peer(e)]
            /\ \A i \in 1 .. Len(q) : q[i].off = read[e] + TotalLen(SubSeq(q, 1, i - 1))

\* The two send queues hold exactly the pushed bytes that are not acknowledged
\* yet, in order: first the ones in flight, then the unsent ones.  A push, a
\* partial acknowledgment, a split by the background sender and a probe all
\* move bytes between them without losing or repeating one.
SendQueuesHoldStream ==
    \A e \in Ends :
        LET q == SelectSeq(cb[e].unacked_queue \o cb[e].unsent_queue, LAMBDA b : b.len > 0)
            inFlight == TotalLen(cb[e].unacked_queue)
        IN  /\ \A i \in 1 .. Len(q) :
                  q[i].off = written[e] - TotalLen(SubSeq(q, i, Len(q)))
            /\ TotalLen(q) = written[e] - Min({written[e], Offset(e, cb[e].send_unacked)})
            /\ SentData(cb[e]) \in {inFlight, inFlight + 1}

\* Sender::new takes the end's own number for SND.WL1, so an end whose peer
\* counts from a lower number takes none of the windows the peer advertises.
TakesWindows(e) == ~ Lt(Isn(Peer(e)), Isn(e))

\* No end that takes the windows of its peer sends beyond the peer's receive
\* buffer, except for the one byte of a window probe or the FIN.
SendsWithinWindow ==
    \A e \in Ends :
        TakesWindows(e) => Offset(e, cb[e].send_next) <= read[Peer(e)] + BufferSize + 1

\* The two ends agree on how far the connection is closed: an end has taken a
\* FIN only if its peer has sent it, and knows its own FIN to be acknowledged
\* only if its peer has taken it.
CloseAgreement ==
    \A e \in Ends :
        /\ cb[e].state \in {"CloseWait", "Closing", "TimeWait", "LastAck", "Closed"}
              => cb[Peer(e)].state \notin {"Established", "CloseWait"}
        /\ cb[e].state \in {"FinWait2", "TimeWait", "Closed"}
              => cb[Peer(e)].state \in {"CloseWait", "Closing", "TimeWait", "LastAck", "Closed"}

\* The connection is a ByteStream in each direction: every step of the code is
\* a step of the abstract one or leaves it unchanged.
EndOfStream(e) ==
    IF e \notin closed THEN "open"
    ELSE IF Offset(e, cb[e].send_unacked) = written[e] + 1 THEN "acked"
    ELSE IF Offset(e, cb[Peer(e)].receive_next) = written[e] + 1 THEN "taken"
    ELSE "closed"

Streams == INSTANCE ByteStream WITH
    MaxLen <- StreamA + StreamB,
    written <- written,
    taken <- [e \in Ends |-> Received(Peer(e))],
    acked <- [e \in Ends |-> Min({Offset(e, cb[e].send_unacked), written[e]})],
    got <- [e \in Ends |-> read[Peer(e)]],
    eof <- [e \in Ends |-> EndOfStream(e)]

IsByteStream == Streams!StreamSpec

=============================================================================
