-------------------------- MODULE TcpConnectionLive --------------------------
(***************************************************************************)
(* TcpConnection with fairness.  last names the action taken last and its  *)
(* end.  Weak fairness of an action is written out with it: the action is  *)
(* disabled again and again, or it is taken again and again.               *)
(***************************************************************************)
EXTENDS TcpConnection

VARIABLE last

liveVars == << vars, last >>

Took(name, e) == last' = << name, e >>

LiveInit == Init /\ last = << "none", "a" >>

LiveNext == \E e \in Ends :
    \/ \E len \in PushSizes : Push(e, len) /\ Took("Push", e)
    \/ Pop(e) /\ Took("Pop", e)
    \/ Close(e) /\ Took("Close", e)
    \/ AckTimeout(e) /\ Took("AckTimeout", e)
    \/ RetransmitTimeout(e) /\ Took("RetransmitTimeout", e)
    \/ SenderTop(e) /\ Took("SenderTop", e)
    \/ SenderResume(e) /\ Took("SenderResume", e)
    \/ SenderWindowChanged(e) /\ Took("SenderWindowChanged", e)
    \/ SenderProbeAgain(e) /\ Took("SenderProbeAgain", e)
    \/ Deliver(e) /\ Took("Deliver", e)
    \/ Lose(e) /\ Took("Lose", e)
    \/ ArpEvict(e) /\ Took("ArpEvict", e)
    \/ ArpLearn(e) /\ Took("ArpLearn", e)

Enabled(name, e) ==
    \/ name = "ArpLearn" /\ ~ cb[e].arp
    \/ /\ Runs(e)
       /\ \/ name = "Pop" /\ e \notin closed /\ cb[e].recv_queue # << >>
          \/ name = "AckTimeout" /\ BackgroundAlive(cb[e]) /\ cb[e].ack_deadline
          \/ name = "RetransmitTimeout" /\ BackgroundAlive(cb[e]) /\ cb[e].retransmit_deadline
          \/ name = "SenderTop" /\ SenderReady(cb[e])
          \/ name = "SenderResume" /\ SenderAwaitsArp(cb[e]) /\ cb[e].arp
          \/ name = "SenderWindowChanged" /\ cb[e].task.pc = "probe" /\ cb[e].task.changed
          \/ name = "SenderProbeAgain" /\ cb[e].task.pc = "probe" /\ ~ cb[e].task.changed
                                       /\ Len(net["a"]) + Len(net["b"]) < MaxTravelling
          \/ name = "Deliver" /\ net[e] # << >>

\* The scheduler polls every task that was woken, timers expire, the network
\* delivers what it does not lose, ARP queries are answered, and the
\* applications pop what arrives.  They need not push or close.
Fairness ==
    \A e \in Ends : \A name \in {"Pop", "AckTimeout", "RetransmitTimeout", "SenderTop",
                              "SenderResume", "SenderWindowChanged", "SenderProbeAgain",
                              "Deliver", "ArpLearn"} :
        []<>(~ Enabled(name, e)) \/ []<><<Took(name, e)>>_liveVars

FairSpec == LiveInit /\ [][LiveNext]_liveVars /\ Fairness

\* Everything an application has pushed is popped by the other one: data that
\* was sent at once, that had to wait for an ARP reply and went out through the
\* background sender, and data that both send at the same time.
PushedIsPopped ==
    \A e \in Ends : \A n \in 1 .. Stream(e) :
        written[e] = n ~> (read[Peer(e)] >= n \/ Peer(e) \in closed)

\* A close is completed: the FIN is sent, acknowledged and known to be so, and
\* once both applications have closed, both ends reach a final state, for every
\* order of the two closes and the segments of both directions.  Both hosts
\* must keep their ARP entries: a FIN or an ACK that misses one is not sent
\* later (ControlBlock::close, ControlBlock::send_ack).
Evicted == budget.evictions < Evictions
CloseCompletes ==
    /\ \A e \in Ends :
          e \in closed ~> (Evicted \/ cb[e].state \in {"FinWait2", "TimeWait", "Closed"})
    /\ closed = Ends ~>
          (Evicted \/ \A e \in Ends : cb[e].state \in {"TimeWait", "Closed"})

\* A sender that met a zero window gets out of PERSIST mode once the peer's
\* application reads, although no ACK announces the open window and probes and
\* ACKs may be lost: only the repeated probe brings the new window.
ProbingEnds == \A e \in Ends : cb[e].task.pc = "probe" ~> cb[e].task.pc # "probe"

=============================================================================
