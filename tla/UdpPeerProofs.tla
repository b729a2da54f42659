--------------------------- MODULE UdpPeerProofs ---------------------------
(***************************************************************************)
(* The tables and queues of UdpPeer stay consistent and a pop returns a    *)
(* datagram of its own port, for any number of descriptors, ports, pops    *)
(* and messages and any capacity.                                          *)
(*                                                                         *)
(* What makes PopGetsOwnPort inductive is OwnPort: all messages in a queue *)
(* are for one port, the one the queue is bound to and the one every       *)
(* operation that still holds the queue was issued for.  A queue is used   *)
(* anew only when neither a binding nor an operation refers to it.         *)
(***************************************************************************)
EXTENDS UdpPeer, TLAPS

AllFor(msgs, port) == \A i \in 1..Len(msgs) : msgs[i].for = port

OwnPort ==
    /\ \A p \in Ports : bound[p] # None => AllFor(queue[bound[p]].msgs, p)
    /\ \A o \in Pops : pop[o].pc = "pending" =>
          /\ pop[o].queue \in Queues
          /\ AllFor(queue[pop[o].queue].msgs, pop[o].port)
          /\ \A p \in Ports : bound[p] = pop[o].queue => p = pop[o].port

IInv == TypeOK /\ QueuesHoldLatest /\ TablesConsistent /\ OwnPort /\ PopGetsOwnPort

-----------------------------------------------------------------------------
(* Queues. *)

\* What is left of a queue when its first k messages are gone.
LEMMA Suffix ==
    ASSUME NEW s \in Seq(Messages), NEW k \in 0..Len(s)
    PROVE  /\ SubSeq(s, k + 1, Len(s)) \in Seq(Messages)
           /\ Len(SubSeq(s, k + 1, Len(s))) = Len(s) - k
           /\ \A i \in 1..(Len(s) - k) : SubSeq(s, k + 1, Len(s))[i] = s[i + k]
    OBVIOUS

\* Taking from the front leaves a queue as it should be.
LEMMA PopFront ==
    ASSUME NEW q \in SharedQueues, HoldsLatest(q), NEW k \in 0..Len(q.msgs)
    PROVE  /\ pop_front(q, k) \in SharedQueues
           /\ HoldsLatest(pop_front(q, k))
           /\ \A port : AllFor(q.msgs, port) => AllFor(pop_front(q, k).msgs, port)
<1> DEFINE r == pop_front(q, k)
<1>1. /\ r.msgs \in Seq(Messages) /\ Len(r.msgs) = Len(q.msgs) - k
      /\ \A i \in 1..Len(r.msgs) : r.msgs[i] = q.msgs[i + k]
      /\ r.length = q.length - k /\ r.pushed = q.pushed
      /\ r = [msgs |-> r.msgs, length |-> r.length, pushed |-> r.pushed]
    <2>1. q.msgs \in Seq(Messages)
        BY Zenon DEF SharedQueues
    <2>2. QED BY <2>1, Suffix, Zenon DEF pop_front
<1>2. q.msgs \in Seq(Messages) /\ q.length \in 0..Capacity /\ q.pushed \in 0..MaxMessages
    BY Zenon DEF SharedQueues
<1> HIDE DEF r
<1>3. r \in SharedQueues
    BY <1>1, <1>2, UdpAssumption DEF SharedQueues, HoldsLatest
<1>4. HoldsLatest(r)
    <2>1. \A i \in 1..Len(q.msgs) : q.msgs[i].n = q.pushed - Len(q.msgs) + i
        BY Zenon DEF HoldsLatest
    <2>2. ASSUME NEW i \in 1..Len(r.msgs) PROVE r.msgs[i].n = r.pushed - Len(r.msgs) + i
        <3>1. r.msgs[i] = q.msgs[i + k] /\ i + k \in 1..Len(q.msgs)
            BY <1>1, <1>2
        <3>2. q.msgs[i + k].n = q.pushed - Len(q.msgs) + (i + k)
            BY <2>1, <3>1, Zenon
        <3>3. QED BY SMTT(30), <1>1, <1>2, <3>1, <3>2
    <2>3. r.length = Len(r.msgs)
        BY <1>1, Zenon DEF HoldsLatest
    <2>4. r.length =< Capacity
        BY <1>3, UdpAssumption DEF SharedQueues
    <2>5. QED BY <2>2, <2>3, <2>4, Zenon DEF HoldsLatest
<1>5. \A port : AllFor(q.msgs, port) => AllFor(r.msgs, port)
    <2>1. \A i \in 1..Len(r.msgs) : i + k \in 1..Len(q.msgs)
        BY <1>1, <1>2
    <2>2. QED BY <1>1, <2>1, Zenon DEF AllFor
<1>6. QED BY <1>3, <1>4, <1>5, Zenon DEF r

\* push keeps the latest messages and adds one.
LEMMA PushQueue ==
    ASSUME NEW q \in SharedQueues, HoldsLatest(q), q.pushed < MaxMessages,
           NEW for \in Ports \cup Remotes
    PROVE  /\ push(q, for) \in SharedQueues
           /\ HoldsLatest(push(q, for))
           /\ AllFor(q.msgs, for) => AllFor(push(q, for).msgs, for)
<1> DEFINE msg == [n |-> q.pushed + 1, for |-> for]
           keep == Capacity \div 2 - 1
           rest == IF q.length = Capacity THEN pop_front(q, q.length - keep) ELSE q
<1>1. msg \in Messages
    BY UdpAssumption DEF Messages, SharedQueues
<1>2. /\ rest \in SharedQueues /\ HoldsLatest(rest) /\ rest.pushed = q.pushed
      /\ rest.length < Capacity
      /\ \A port : AllFor(q.msgs, port) => AllFor(rest.msgs, port)
    <2>1. CASE q.length # Capacity
        <3>1. q.length \in 0..Capacity
            BY Zenon DEF SharedQueues
        <3>2. QED BY <2>1, <3>1, UdpAssumption
    <2>2. CASE q.length = Capacity
        <3>1. /\ keep \in Nat /\ keep < Capacity /\ Len(q.msgs) = Capacity
              /\ q.length - keep \in 0..Len(q.msgs)
            BY <2>2, UdpAssumption DEF HoldsLatest
        <3>2. rest = pop_front(q, q.length - keep)
            BY <2>2, Zenon
        <3>3. rest.length = keep /\ rest.pushed = q.pushed
            BY <2>2, <3>1, <3>2, UdpAssumption DEF pop_front
        <3>4. QED BY <3>1, <3>2, <3>3, PopFront, Zenon
    <2>3. QED BY <2>1, <2>2, Zenon
<1>3. push(q, for) = [msgs |-> Append(rest.msgs, msg), length |-> rest.length + 1,
                      pushed |-> q.pushed + 1]
    BY Zenon DEF push
<1> HIDE DEF rest, msg
<1>4. /\ Append(rest.msgs, msg) \in Seq(Messages)
      /\ Len(Append(rest.msgs, msg)) = Len(rest.msgs) + 1
      /\ \A i \in 1..Len(rest.msgs) : Append(rest.msgs, msg)[i] = rest.msgs[i]
      /\ Append(rest.msgs, msg)[Len(rest.msgs) + 1] = msg
      /\ Len(rest.msgs) \in Nat
    <2>1. rest.msgs \in Seq(Messages)
        BY <1>2, Zenon DEF SharedQueues
    <2>2. QED BY <1>1, <2>1
<1>5. push(q, for) \in SharedQueues
    BY SMTT(30), <1>2, <1>3, <1>4, UdpAssumption DEF SharedQueues
<1>6. msg.n = q.pushed + 1 /\ msg.for = for
    BY Zenon DEF msg
<1>7. HoldsLatest(push(q, for))
    <2>1. rest.length = Len(rest.msgs) /\ q.pushed \in Nat
          /\ \A i \in 1..Len(rest.msgs) : rest.msgs[i].n = q.pushed - Len(rest.msgs) + i
        BY <1>2 DEF HoldsLatest, SharedQueues
    <2> DEFINE new == Append(rest.msgs, msg)
    <2>2. ASSUME NEW i \in 1..Len(new) PROVE new[i].n = (q.pushed + 1) - Len(new) + i
        <3>1. CASE i \in 1..Len(rest.msgs)
            BY <1>4, <2>1, <3>1
        <3>2. CASE i = Len(rest.msgs) + 1
            BY <1>4, <1>6, <2>1, <3>2, SMTT(30)
        <3>3. QED BY <1>4, <3>1, <3>2
    <2>3. Len(new) = rest.length + 1
        BY <1>4, <2>1, Zenon
    <2> HIDE DEF new
    <2>4. push(q, for).msgs = new /\ push(q, for).length = rest.length + 1
          /\ push(q, for).pushed = q.pushed + 1
        BY <1>3 DEF new
    <2>5. push(q, for).length =< Capacity
        BY <1>5, UdpAssumption DEF SharedQueues
    <2>6. QED BY <2>2, <2>3, <2>4, <2>5, Zenon DEF HoldsLatest
<1>8. ASSUME AllFor(q.msgs, for) PROVE AllFor(push(q, for).msgs, for)
    <2> DEFINE new == Append(rest.msgs, msg)
    <2>1. \A i \in 1..Len(rest.msgs) : rest.msgs[i].for = for
        BY <1>2, <1>8, Zenon DEF AllFor
    <2>2. ASSUME NEW i \in 1..Len(new) PROVE new[i].for = for
        <3>1. CASE i \in 1..Len(rest.msgs)
            BY <1>4, <2>1, <3>1, Zenon
        <3>2. CASE i = Len(rest.msgs) + 1
            BY <1>4, <1>6, <3>2, Zenon
        <3>3. QED BY <1>4, <3>1, <3>2
    <2> HIDE DEF new
    <2>3. push(q, for).msgs = new
        BY <1>3 DEF new
    <2>4. QED BY <2>2, <2>3, Zenon DEF AllFor
<1>9. QED BY <1>5, <1>7, <1>8, Zenon

-----------------------------------------------------------------------------
(* One lemma per action. *)

\* The new peer satisfies the invariant (UdpPeer::new).
LEMMA InitIInv == Init => IInv
<1> SUFFICES ASSUME Init PROVE IInv
    BY Zenon
<1> USE UdpAssumption DEF Init
<1>1. NewSharedQueue \in SharedQueues /\ HoldsLatest(NewSharedQueue)
    BY DEF NewSharedQueue, SharedQueues, HoldsLatest
<1>2. TypeOK
    <2>1. pop \in [Pops -> PopStates]
        BY Zenon DEF NoPop, PopStates
    <2>2. sender \in Senders
        BY Zenon DEF Senders
    <2>3. ephemeral \subseteq Ports
        BY DEF Ports
    <2>4. QED BY <1>1, <2>1, <2>2, <2>3 DEF TypeOK
<1>3. QueuesHoldLatest
    BY <1>1, Zenon DEF QueuesHoldLatest
<1>4. TablesConsistent
    BY DEF TablesConsistent, Ports
<1>5. OwnPort /\ PopGetsOwnPort
    BY Zenon DEF OwnPort, PopGetsOwnPort, NoPop
<1>6. QED BY <1>2, <1>3, <1>4, <1>5, Zenon DEF IInv

\* The address of one socket is set.
LEMMA LocalUpdate ==
    ASSUME TypeOK, NEW qd \in QDs, NEW p \in 0..LAST_PRIVATE_PORT,
           local' = [local EXCEPT ![qd] = p]
    PROVE  /\ local' \in [QDs -> 0..LAST_PRIVATE_PORT]
           /\ local'[qd] = p
           /\ \A d \in QDs \ {qd} : local'[d] = local[d]
           /\ \A d \in sockets : d # qd => local'[d] = local[d]
<1>1. local \in [QDs -> 0..LAST_PRIVATE_PORT] /\ sockets \subseteq QDs
    BY Zenon DEF TypeOK
<1>2. QED BY <1>1, Zenon

\* socket adds a descriptor without an address.
LEMMA SocketStep == ASSUME IInv, NEW qd \in QDs, Socket(qd) PROVE IInv'
<1> USE DEF IInv
<1>1. /\ qd \notin sockets /\ sockets' = sockets \cup {qd}
      /\ local' = [local EXCEPT ![qd] = 0]
      /\ file_table' = file_table \cup {qd}
      /\ UNCHANGED <<ephemeral, bound, queue, pop, send_queue, sender, resolved, failed>>
    BY Zenon DEF Socket
<1>2. /\ local' \in [QDs -> 0..LAST_PRIVATE_PORT]
      /\ local'[qd] = 0
      /\ \A d \in sockets : local'[d] = local[d]
    <2>1. 0 \in 0..LAST_PRIVATE_PORT
        BY UdpAssumption
    <2>2. QED BY <1>1, <2>1, LocalUpdate, Zenon
<1>3. TypeOK'
    BY <1>1, <1>2, Zenon DEF TypeOK
<1>4. QueuesHoldLatest' /\ OwnPort' /\ PopGetsOwnPort'
    BY <1>1, Zenon DEF QueuesHoldLatest, OwnPort, PopGetsOwnPort
<1>5. TablesConsistent'
    <2>1. \A p \in Ports : p # 0
        BY DEF Ports
    <2>2. \A p \in Ports : (\E d \in sockets' : local'[d] = p) <=> (\E d \in sockets : local[d] = p)
        BY <1>1, <1>2, <2>1, Zenon
    <2>3. \A d1, d2 \in sockets' : local'[d1] = local'[d2] /\ local'[d1] # 0 => d1 = d2
        <3>1. \A d1, d2 \in sockets : local[d1] = local[d2] /\ local[d1] # 0 => d1 = d2
            BY Zenon DEF TablesConsistent
        <3>2. QED BY <1>1, <1>2, <3>1
    <2>4. QED BY <1>1, <2>2, <2>3, Zenon DEF TablesConsistent
<1>6. QED BY <1>3, <1>4, <1>5, Zenon

\* bind, with a port of its own choice too: the entry and the socket meet.
LEMMA BindStep ==
    ASSUME IInv, NEW qd \in QDs, NEW port \in 0..LAST_PRIVATE_PORT, Bind(qd, port)
    PROVE  IInv'
<1> USE UdpAssumption DEF IInv
<1>0. PICK p \in Bindable(port) :
        /\ port # 0 => bound[port] = None
        /\ UNCHANGED <<file_table, sockets, pop, send_queue, sender, resolved>>
        /\ \/ /\ qd \in sockets /\ local[qd] = 0
              /\ local' = [local EXCEPT ![qd] = p]
              /\ ephemeral' = IF bound[p] = None THEN ephemeral \ {p} ELSE ephemeral
              /\ \E q \in Queues : /\ Unused(q)
                                   /\ bound' = [bound EXCEPT ![p] = q]
                                   /\ queue' = [queue EXCEPT ![q] = NewSharedQueue]
              /\ failed' = IF bound[p] # None THEN failed \cup {"address in use"} ELSE failed
           \/ /\ ephemeral' = IF is_private(p) THEN ephemeral \cup {p} ELSE ephemeral
              /\ UNCHANGED <<local, bound, queue, failed>>
    BY Zenon DEF Bind
<1>1. p \in Ports /\ bound[p] = None
    <2>1. CASE port = 0
        BY <2>1, Zenon DEF Bindable, TypeOK, TablesConsistent
    <2>2. CASE port # 0
        <3>1. p = port
            BY <2>2, Zenon DEF Bindable
        <3>2. port \in Ports
            BY <2>2 DEF Ports
        <3>3. QED BY <1>0, <2>2, <3>1, <3>2, Zenon
    <2>3. QED BY <2>1, <2>2, Zenon
<1>2. CASE /\ ephemeral' = IF is_private(p) THEN ephemeral \cup {p} ELSE ephemeral
           /\ UNCHANGED <<local, bound, queue, failed>>
    <2>1. ephemeral' \subseteq ephemeral \cup {p}
        BY <1>2, Zenon
    <2>2. TypeOK'
        BY <1>0, <1>1, <1>2, <2>1, Zenon DEF TypeOK
    <2>3. \A r \in ephemeral' : bound[r] = None
        BY <1>1, <2>1, Zenon DEF TablesConsistent
    <2>4. TablesConsistent'
        BY <1>0, <1>2, <2>3, Zenon DEF TablesConsistent
    <2>5. QED BY <1>0, <1>2, <2>2, <2>4, Zenon DEF QueuesHoldLatest, OwnPort, PopGetsOwnPort
<1>3. CASE /\ qd \in sockets /\ local[qd] = 0
           /\ local' = [local EXCEPT ![qd] = p]
           /\ ephemeral' = IF bound[p] = None THEN ephemeral \ {p} ELSE ephemeral
           /\ \E q \in Queues : /\ Unused(q)
                                /\ bound' = [bound EXCEPT ![p] = q]
                                /\ queue' = [queue EXCEPT ![q] = NewSharedQueue]
           /\ failed' = IF bound[p] # None THEN failed \cup {"address in use"} ELSE failed
    <2>1. PICK q \in Queues : /\ Unused(q)
                              /\ bound' = [bound EXCEPT ![p] = q]
                              /\ queue' = [queue EXCEPT ![q] = NewSharedQueue]
        BY <1>3, Zenon
    <2>2. NewSharedQueue \in SharedQueues /\ HoldsLatest(NewSharedQueue)
          /\ NewSharedQueue.msgs = << >>
        BY DEF NewSharedQueue, SharedQueues, HoldsLatest
    <2>3. /\ bound' \in [Ports -> Queues \cup {None}]
          /\ bound'[p] = q /\ q # None
          /\ \A r \in Ports \ {p} : bound'[r] = bound[r] /\ bound[r] # q
        BY <1>1, <2>1, Zenon DEF TypeOK, Unused
    <2>4. /\ queue' \in [Queues -> SharedQueues]
          /\ queue'[q] = NewSharedQueue
          /\ \A r \in Queues \ {q} : queue'[r] = queue[r]
        BY <2>1, <2>2, Zenon DEF TypeOK
    <2>5. /\ local' \in [QDs -> 0..LAST_PRIVATE_PORT]
          /\ local'[qd] = p
          /\ \A d \in QDs \ {qd} : local'[d] = local[d]
        <3>1. p \in 0..LAST_PRIVATE_PORT
            BY <1>1 DEF Ports
        <3>2. QED BY <1>3, <3>1, LocalUpdate, Zenon
    <2>6. failed' = failed /\ ephemeral' = ephemeral \ {p}
        BY <1>1, <1>3, Zenon
    <2>7. TypeOK'
        BY <1>0, <2>3, <2>4, <2>5, <2>6, Zenon DEF TypeOK
    <2>8. QueuesHoldLatest'
        BY <1>0, <2>2, <2>4, Zenon DEF QueuesHoldLatest
    <2>9. TablesConsistent'
        <3>1. \A r \in Ports : (bound'[r] # None) <=> (\E d \in sockets' : local'[d] = r)
            <4>1. \A d \in sockets : d \in QDs
                BY Zenon DEF TypeOK
            <4>2. \A r \in Ports \ {p} : (bound'[r] # None) <=> (\E d \in sockets' : local'[d] = r)
                <5>1. \A r \in Ports \ {p} : (\E d \in sockets : local'[d] = r)
                                               <=> (\E d \in sockets : local[d] = r)
                    <6>1. \A r \in Ports : r # 0
                        BY DEF Ports
                    <6>2. QED BY <1>3, <2>5, <4>1, <6>1, Zenon
                <5>2. QED BY <1>0, <2>3, <5>1, Zenon DEF TablesConsistent
            <4>3. QED BY <1>0, <1>3, <2>3, <2>5, <4>2, Zenon
        <3>2. \A d1, d2 \in sockets' : local'[d1] = local'[d2] /\ local'[d1] # 0 => d1 = d2
            <4>1. \A d \in sockets : d # qd => local[d] # p
                BY <1>1, Zenon DEF TablesConsistent
            <4>2. \A d \in sockets : d \in QDs
                BY Zenon DEF TypeOK
            <4>3. \A d1, d2 \in sockets : local[d1] = local[d2] /\ local[d1] # 0 => d1 = d2
                BY Zenon DEF TablesConsistent
            <4>4. sockets' = sockets
                BY <1>0, Zenon
            <4>5. QED BY <2>5, <4>1, <4>2, <4>3, <4>4, ZenonT(30)
        <3>3. \A p1, p2 \in Ports : bound'[p1] = bound'[p2] /\ bound'[p1] # None => p1 = p2
            <4>1. \A p1, p2 \in Ports : bound[p1] = bound[p2] /\ bound[p1] # None => p1 = p2
                BY Zenon DEF TablesConsistent
            <4>2. QED BY <2>3, <4>1, Zenon
        <3>4. \A r \in ephemeral' : bound'[r] = None
            BY <2>3, <2>6, Zenon DEF TablesConsistent, TypeOK
        <3>5. QED BY <2>6, <3>1, <3>2, <3>3, <3>4, Zenon DEF TablesConsistent
    <2>10. OwnPort'
        <3>1. \A r \in Ports : bound'[r] # None => AllFor(queue'[bound'[r]].msgs, r)
            <4>1. AllFor(queue'[q].msgs, p)
                BY <2>2, <2>4 DEF AllFor
            <4>2. \A r \in Ports \ {p} : bound[r] # None => bound[r] \in Queues \ {q}
                BY <2>3, Zenon DEF TypeOK
            <4>3. QED BY <2>3, <2>4, <4>1, <4>2 DEF OwnPort
        <3>2. ASSUME NEW o \in Pops, pop[o].pc = "pending"
              PROVE  /\ pop[o].queue \in Queues
                     /\ AllFor(queue'[pop[o].queue].msgs, pop[o].port)
                     /\ \A r \in Ports : bound'[r] = pop[o].queue => r = pop[o].port
            <4>1. pop[o].queue \in Queues \ {q}
                BY <2>1, <3>2, Zenon DEF OwnPort, Unused
            <4>2. QED BY <3>2, <4>1, <2>3, <2>4 DEF OwnPort
        <3>3. QED BY <1>0, <3>1, <3>2, Zenon DEF OwnPort
    <2>11. PopGetsOwnPort'
        BY <1>0, Zenon DEF PopGetsOwnPort
    <2>12. QED BY <2>7, <2>8, <2>9, <2>10, <2>11, Zenon
<1>4. QED BY <1>0, <1>2, <1>3, Zenon

\* close takes the entry that the socket names, with its queue.
LEMMA CloseStep == ASSUME IInv, NEW qd \in QDs, Close(qd) PROVE IInv'
<1> USE UdpAssumption DEF IInv
<1>1. /\ qd \in sockets
      /\ sockets' = sockets \ {qd}
      /\ local' = [local EXCEPT ![qd] = 0]
      /\ bound' = [p \in Ports |-> IF p = local[qd] THEN None ELSE bound[p]]
      /\ file_table' \subseteq file_table
      /\ UNCHANGED <<ephemeral, queue, pop, send_queue, sender, resolved, failed>>
    BY Zenon DEF Close
<1>2. /\ local' \in [QDs -> 0..LAST_PRIVATE_PORT]
      /\ \A d \in sockets' : d \in sockets /\ d # qd /\ local'[d] = local[d]
      /\ bound' \in [Ports -> Queues \cup {None}]
      /\ \A p \in Ports : bound'[p] = IF p = local[qd] THEN None ELSE bound[p]
    <2>1. /\ local' \in [QDs -> 0..LAST_PRIVATE_PORT]
          /\ \A d \in sockets : d # qd => local'[d] = local[d]
        <3>1. 0 \in 0..LAST_PRIVATE_PORT
            OBVIOUS
        <3>2. QED BY <1>1, <3>1, LocalUpdate, Zenon
    <2>2. bound \in [Ports -> Queues \cup {None}]
        BY Zenon DEF TypeOK
    <2>3. QED BY <1>1, <2>1, <2>2, Zenon
<1>3. TypeOK'
    BY <1>1, <1>2, Zenon DEF TypeOK
<1>4. QueuesHoldLatest' /\ PopGetsOwnPort'
    BY <1>1, Zenon DEF QueuesHoldLatest, PopGetsOwnPort
<1>5. TablesConsistent'
    <2>1. \A p \in Ports : (bound'[p] # None) <=> (\E d \in sockets' : local'[d] = p)
        <3>1. ASSUME NEW p \in Ports, p = local[qd]
              PROVE  (bound'[p] # None) <=> (\E d \in sockets' : local'[d] = p)
            <4>1. p # 0
                BY DEF Ports
            <4>2. \A d \in sockets : local[d] = local[qd] => d = qd
                BY <1>1, <3>1, <4>1, Zenon DEF TablesConsistent
            <4>3. QED BY <1>2, <3>1, <4>2, Zenon
        <3>2. ASSUME NEW p \in Ports, p # local[qd]
              PROVE  (bound'[p] # None) <=> (\E d \in sockets' : local'[d] = p)
            <4>1. bound'[p] = bound[p]
                BY <1>2, <3>2, Zenon
            <4>2. (\E d \in sockets' : local'[d] = p) <=> (\E d \in sockets : local[d] = p)
                BY <1>1, <1>2, <3>2, Zenon
            <4>3. QED BY <4>1, <4>2, Zenon DEF TablesConsistent
        <3>3. QED BY <3>1, <3>2, Zenon
    <2>2. \A d1, d2 \in sockets' : local'[d1] = local'[d2] /\ local'[d1] # 0 => d1 = d2
        <3>1. \A d1, d2 \in sockets : local[d1] = local[d2] /\ local[d1] # 0 => d1 = d2
            BY Zenon DEF TablesConsistent
        <3>2. QED BY <1>2, <3>1, Zenon
    <2>3. \A p1, p2 \in Ports : bound'[p1] = bound'[p2] /\ bound'[p1] # None => p1 = p2
        <3>1. \A p1, p2 \in Ports : bound[p1] = bound[p2] /\ bound[p1] # None => p1 = p2
            BY Zenon DEF TablesConsistent
        <3>2. QED BY <1>2, <3>1, Zenon
    <2>4. \A p \in ephemeral' : bound'[p] = None
        BY <1>1, <1>2, Zenon DEF TablesConsistent, TypeOK
    <2>5. QED BY <1>1, <2>1, <2>2, <2>3, <2>4, Zenon DEF TablesConsistent
<1>6. OwnPort'
    <2>1. \A p \in Ports : bound'[p] # None => bound'[p] = bound[p]
        BY <1>2, Zenon
    <2>2. \A p \in Ports : bound'[p] # None => AllFor(queue[bound'[p]].msgs, p)
        BY <2>1, Zenon DEF OwnPort
    <2>3. ASSUME NEW o \in Pops, pop[o].pc = "pending", NEW p \in Ports, bound'[p] = pop[o].queue
          PROVE  p = pop[o].port
        BY <2>1, <2>3 DEF OwnPort
    <2>4. QED BY <1>1, <2>2, <2>3, Zenon DEF OwnPort
<1>7. QED BY <1>3, <1>4, <1>5, <1>6, Zenon

\* push appends to the send queue and may first drop its oldest messages.
LEMMA PushtoStep ==
    ASSUME IInv, NEW qd \in QDs, NEW remote \in Remotes, Pushto(qd, remote)
    PROVE  IInv'
<1> USE DEF IInv
<1>1. /\ UNCHANGED <<file_table, sockets, local, ephemeral, bound, queue, pop, sender, resolved>>
      /\ \/ send_queue' = push(send_queue, remote) /\ UNCHANGED failed
         \/ failed' = failed \cup {"BorrowMutError"} /\ UNCHANGED send_queue
    BY Zenon DEF Pushto
<1>2. send_queue' \in SharedQueues /\ HoldsLatest(send_queue')
    <2>1. send_queue \in SharedQueues /\ HoldsLatest(send_queue) /\ send_queue.pushed < MaxMessages
        BY Zenon DEF TypeOK, QueuesHoldLatest, Pushto
    <2>2. /\ push(send_queue, remote) \in SharedQueues
          /\ HoldsLatest(push(send_queue, remote))
        BY <2>1, PushQueue, Zenon
    <2>3. QED BY <1>1, <2>1, <2>2, Zenon
<1>3. failed' \subseteq failed \cup {"BorrowMutError"}
    BY <1>1, Zenon
<1>4. TypeOK'
    BY <1>1, <1>2, <1>3, Zenon DEF TypeOK, Panics
<1>5. QueuesHoldLatest'
    BY <1>1, <1>2, Zenon DEF QueuesHoldLatest
<1>6. TablesConsistent'
    BY <1>1, <1>3, Zenon DEF TablesConsistent
<1>7. OwnPort' /\ PopGetsOwnPort'
    BY <1>1, Zenon DEF OwnPort, PopGetsOwnPort
<1>8. QED BY <1>4, <1>5, <1>6, <1>7, Zenon

\* pop issues an operation that holds the queue of the port it found.
LEMMA PopStep == ASSUME IInv, NEW o \in Pops, NEW qd \in QDs, Pop(o, qd) PROVE IInv'
<1> DEFINE p == local[qd]
           new == [pc |-> "pending", qd |-> qd, queue |-> bound[p], port |-> p, msg |-> NoMessage]
<1> USE UdpAssumption DEF IInv
<1>1. UNCHANGED <<file_table, sockets, local, ephemeral, bound, queue, send_queue, sender, resolved>>
    BY Zenon DEF Pop
<1>2. CASE /\ qd \in sockets /\ p # 0 /\ bound[p] # None
           /\ pop' = [pop EXCEPT ![o] = new]
           /\ UNCHANGED failed
    <2>1. p \in Ports /\ bound[p] \in Queues
        <3>1. p \in 0..LAST_PRIVATE_PORT
            BY Zenon DEF TypeOK
        <3>2. p \in Ports
            BY <1>2, <3>1 DEF Ports
        <3>3. QED BY <1>2, <3>2, Zenon DEF TypeOK
    <2>2. new \in PopStates
        BY <2>1, Zenon DEF PopStates
    <2>3. /\ new.pc = "pending" /\ new.queue = bound[p] /\ new.port = p
        BY Zenon
    <2> HIDE DEF new, p
    <2>4. /\ pop' \in [Pops -> PopStates]
          /\ pop'[o] = new
          /\ \A r \in Pops \ {o} : pop'[r] = pop[r]
        BY <1>2, <2>2, Zenon DEF TypeOK
    <2>5. TypeOK'
        BY <1>1, <1>2, <2>4, Zenon DEF TypeOK
    <2>6. QueuesHoldLatest' /\ TablesConsistent'
        BY <1>1, <1>2, Zenon DEF QueuesHoldLatest, TablesConsistent
    <2>7. OwnPort'
        <3>1. /\ AllFor(queue[bound[p]].msgs, p)
              /\ \A r \in Ports : bound[r] = bound[p] => r = p
            BY <1>2, <2>1, Zenon DEF OwnPort, TablesConsistent
        <3>2. QED BY SMTT(30), <1>1, <2>1, <2>3, <2>4, <3>1 DEF OwnPort
    <2>8. PopGetsOwnPort'
        BY <2>3, <2>4, Zenon DEF PopGetsOwnPort
    <2>9. QED BY <2>5, <2>6, <2>7, <2>8, Zenon
<1>3. CASE failed' = failed \cup {"invalid queue descriptor"} /\ UNCHANGED pop
    <2>1. TypeOK'
        BY <1>1, <1>3, Zenon DEF TypeOK, Panics
    <2>2. TablesConsistent'
        BY <1>1, <1>3, Zenon DEF TablesConsistent
    <2>3. QED BY <1>1, <1>3, <2>1, <2>2, Zenon DEF QueuesHoldLatest, OwnPort, PopGetsOwnPort
<1>4. ~ (qd \in sockets /\ p # 0 /\ bound[p] = None)
    <2>1. local[qd] \in 0..LAST_PRIVATE_PORT
        BY Zenon DEF TypeOK
    <2>2. p # 0 => p \in Ports
        BY <2>1 DEF Ports
    <2>3. QED BY <2>2, Zenon DEF TablesConsistent
<1>5. QED BY <1>2, <1>3, <1>4, Zenon DEF Pop

\* A pop that is polled takes the oldest message of its queue.
LEMMA PollPopStep == ASSUME IInv, NEW o \in Pops, PollPop(o) PROVE IInv'
<1> DEFINE q == pop[o].queue
           msg == Head(queue[q].msgs)
<1> USE UdpAssumption DEF IInv
<1>1. /\ pop[o].pc = "pending" /\ queue[q].msgs # << >>
      /\ pop' = [pop EXCEPT ![o] = [pc |-> "done", qd |-> @.qd, queue |-> None,
                                    port |-> @.port, msg |-> msg]]
      /\ queue' = [queue EXCEPT ![q] = try_pop(@)]
      /\ UNCHANGED <<file_table, sockets, local, ephemeral, bound, send_queue, sender,
                     resolved, failed>>
    BY Zenon DEF PollPop
<1>2. q \in Queues /\ queue[q] \in SharedQueues /\ HoldsLatest(queue[q])
    BY <1>1, Zenon DEF OwnPort, TypeOK, QueuesHoldLatest
<1>3. queue[q].msgs \in Seq(Messages)
    BY <1>2, Zenon DEF SharedQueues
<1>4. msg \in Messages /\ msg = queue[q].msgs[1] /\ 1 \in 1..Len(queue[q].msgs)
      /\ 1 \in 0..Len(queue[q].msgs)
    <2> DEFINE m == queue[q].msgs
    <2>1. m \in Seq(Messages) /\ m # << >>
        BY <1>1, <1>3, Zenon
    <2> HIDE DEF m
    <2>2. Head(m) \in Messages /\ Head(m) = m[1] /\ 1 \in 1..Len(m) /\ 1 \in 0..Len(m)
        BY <2>1
    <2>3. QED BY <2>2, Zenon DEF m
<1>5. msg.for = pop[o].port
    BY <1>1, <1>4 DEF OwnPort, AllFor
<1> HIDE DEF msg, q
<1>6. /\ try_pop(queue[q]) \in SharedQueues /\ HoldsLatest(try_pop(queue[q]))
      /\ \A port : AllFor(queue[q].msgs, port) => AllFor(try_pop(queue[q]).msgs, port)
    BY <1>2, <1>4, PopFront, Zenon DEF try_pop
<1>7. /\ queue' \in [Queues -> SharedQueues]
      /\ \A r \in Queues : HoldsLatest(queue'[r])
      /\ \A r \in Queues : \A port : AllFor(queue[r].msgs, port) => AllFor(queue'[r].msgs, port)
    <2>1. queue \in [Queues -> SharedQueues] /\ \A r \in Queues : HoldsLatest(queue[r])
        BY Zenon DEF TypeOK, QueuesHoldLatest
    <2>2. /\ queue'[q] = try_pop(queue[q])
          /\ \A r \in Queues \ {q} : queue'[r] = queue[r]
          /\ queue' \in [Queues -> SharedQueues]
        BY <1>1, <1>2, <1>6, <2>1, Zenon
    <2>3. QED BY <1>2, <1>6, <2>1, <2>2, Zenon
<1>8. /\ pop' \in [Pops -> PopStates]
      /\ pop'[o].pc = "done" /\ pop'[o].msg = msg /\ pop'[o].port = pop[o].port
      /\ \A r \in Pops \ {o} : pop'[r] = pop[r]
    <2> DEFINE new == [pc |-> "done", qd |-> pop[o].qd, queue |-> None, port |-> pop[o].port,
                       msg |-> msg]
    <2>1. pop \in [Pops -> PopStates] /\ pop[o] \in PopStates
        BY Zenon DEF TypeOK
    <2>2. new \in PopStates
        BY <1>4, <2>1, Zenon DEF PopStates
    <2>3. pop' = [pop EXCEPT ![o] = new]
        BY <1>1, Zenon
    <2>4. new.pc = "done" /\ new.msg = msg /\ new.port = pop[o].port
        BY Zenon
    <2> HIDE DEF new
    <2>5. QED BY <2>1, <2>2, <2>3, <2>4, Zenon
<1>9. TypeOK'
    BY <1>1, <1>7, <1>8, Zenon DEF TypeOK
<1>10. QueuesHoldLatest' /\ TablesConsistent'
    BY <1>1, <1>7, ZenonT(30) DEF QueuesHoldLatest, TablesConsistent
<1>11. OwnPort'
    <2>1. \A p \in Ports : bound[p] # None => AllFor(queue'[bound[p]].msgs, p)
        BY <1>7, Zenon DEF OwnPort, TypeOK
    <2>2. ASSUME NEW r \in Pops, pop'[r].pc = "pending"
          PROVE  /\ pop'[r].queue \in Queues
                 /\ AllFor(queue'[pop'[r].queue].msgs, pop'[r].port)
                 /\ \A p \in Ports : bound[p] = pop'[r].queue => p = pop'[r].port
        <3>1. pop'[r] = pop[r]
            BY <1>8, <2>2, Zenon
        <3>2. QED BY <1>7, <2>2, <3>1, Zenon DEF OwnPort
    <2>3. QED BY <1>1, <2>1, <2>2, Zenon DEF OwnPort
<1>12. PopGetsOwnPort'
    BY <1>5, <1>8, Zenon DEF PopGetsOwnPort
<1>13. QED BY <1>9, <1>10, <1>11, <1>12, Zenon

\* do_receive adds to the queue of the port, if some socket is bound to it.
LEMMA ReceiveStep == ASSUME IInv, NEW port \in Ports, Receive(port) PROVE IInv'
<1> DEFINE q == bound[port]
<1> USE UdpAssumption DEF IInv
<1>1. /\ q # None /\ queue[q].pushed < MaxMessages
      /\ queue' = [queue EXCEPT ![q] = push(@, port)]
      /\ UNCHANGED <<file_table, sockets, local, ephemeral, bound, pop, send_queue, sender,
                     resolved, failed>>
    BY Zenon DEF Receive
<1>2. q \in Queues /\ queue[q] \in SharedQueues /\ HoldsLatest(queue[q])
    BY <1>1, Zenon DEF TypeOK, QueuesHoldLatest
<1>3. AllFor(queue[q].msgs, port) /\ \A p \in Ports : bound[p] = q => p = port
    BY <1>1, Zenon DEF OwnPort, TablesConsistent
<1> HIDE DEF q
<1>4. /\ push(queue[q], port) \in SharedQueues
      /\ HoldsLatest(push(queue[q], port))
      /\ AllFor(push(queue[q], port).msgs, port)
    BY <1>1, <1>2, <1>3, PushQueue, Zenon
<1>5. /\ queue' \in [Queues -> SharedQueues]
      /\ AllFor(queue'[q].msgs, port)
      /\ \A r \in Queues : HoldsLatest(queue'[r])
      /\ \A r \in Queues \ {q} : queue'[r] = queue[r]
    <2>1. queue \in [Queues -> SharedQueues] /\ \A r \in Queues : HoldsLatest(queue[r])
        BY Zenon DEF TypeOK, QueuesHoldLatest
    <2>2. QED BY <1>1, <1>2, <1>4, <2>1, Zenon
<1>6. TypeOK'
    BY <1>1, <1>5, Zenon DEF TypeOK
<1>7. QueuesHoldLatest' /\ TablesConsistent' /\ PopGetsOwnPort'
    BY <1>1, <1>5, ZenonT(30) DEF QueuesHoldLatest, TablesConsistent, PopGetsOwnPort
<1>8. OwnPort'
    <2>1. ASSUME NEW p \in Ports, bound[p] # None PROVE AllFor(queue'[bound[p]].msgs, p)
        <3>1. bound[p] \in Queues
            BY <2>1, Zenon DEF TypeOK
        <3>2. QED BY <1>3, <1>5, <2>1, <3>1, Zenon DEF OwnPort
    <2>2. ASSUME NEW o \in Pops, pop[o].pc = "pending"
          PROVE  AllFor(queue'[pop[o].queue].msgs, pop[o].port)
        <3>1. pop[o].queue = q => pop[o].port = port
            BY <2>2, Zenon DEF OwnPort, q
        <3>2. QED BY <1>5, <2>2, <3>1, Zenon DEF OwnPort
    <2>3. QED BY <1>1, <2>1, <2>2, Zenon DEF OwnPort
<1>9. QED BY <1>6, <1>7, <1>8, Zenon

\* The steps of the background task: it only takes from the send queue.
LEMMA DrainStep ==
    ASSUME IInv, Drain,
           UNCHANGED <<file_table, sockets, local, ephemeral, bound, queue, pop, resolved, failed>>
    PROVE  IInv'
<1> DEFINE msgs == send_queue.msgs
<1> USE UdpAssumption DEF IInv
<1>1. send_queue \in SharedQueues /\ HoldsLatest(send_queue) /\ msgs \in Seq(Messages)
    BY Zenon DEF TypeOK, QueuesHoldLatest, SharedQueues
<1>2. PICK taken \in 0..Len(msgs) :
        /\ send_queue' = pop_front(send_queue, taken)
        /\ \/ sender' = [pc |-> "pop", msg |-> NoMessage]
           \/ taken \in 1..Len(msgs) /\ sender' = [pc |-> "query", msg |-> msgs[taken]]
    <2>1. PICK sent \in 0..Len(msgs) :
            LET taken == IF sent = Len(msgs) THEN sent ELSE sent + 1
            IN  /\ send_queue' = pop_front(send_queue, taken)
                /\ sender' = IF taken = sent THEN [pc |-> "pop", msg |-> NoMessage]
                             ELSE [pc |-> "query", msg |-> msgs[taken]]
        BY Zenon DEF Drain
    <2>2. CASE sent = Len(msgs)
        BY <2>1, <2>2, Zenon
    <2>3. CASE sent # Len(msgs)
        <3>1. sent + 1 \in 1..Len(msgs) /\ sent + 1 \in 0..Len(msgs) /\ sent + 1 # sent
            BY <1>1, <2>3
        <3>2. QED BY <2>1, <2>3, <3>1, Zenon
    <2>4. QED BY <2>2, <2>3, Zenon
<1>3. send_queue' \in SharedQueues /\ HoldsLatest(send_queue')
    BY <1>1, <1>2, PopFront, Zenon
<1>4. sender' \in Senders
    <2>1. \A i \in 1..Len(msgs) : msgs[i] \in Messages
        BY <1>1
    <2>2. QED BY <1>2, <2>1 DEF Senders
<1>5. TypeOK'
    BY <1>3, <1>4, Zenon DEF TypeOK
<1>6. QueuesHoldLatest' /\ TablesConsistent'
    BY <1>3, Zenon DEF QueuesHoldLatest, TablesConsistent
<1>7. OwnPort' /\ PopGetsOwnPort'
    BY Zenon DEF OwnPort, PopGetsOwnPort
<1>8. QED BY <1>5, <1>6, <1>7, Zenon

\* The answers of ARP touch nothing the invariant is about.
LEMMA ArpStep ==
    ASSUME IInv, NEW remote \in Remotes, ArpLearn(remote) \/ ArpEvict(remote)
    PROVE  IInv'
<1>1. /\ UNCHANGED <<file_table, sockets, local, ephemeral, bound, queue, pop, send_queue, sender, failed>>
      /\ resolved' \subseteq resolved \cup {remote}
    BY Zenon DEF ArpLearn, ArpEvict
<1>2. TypeOK'
    BY <1>1, Zenon DEF IInv, TypeOK
<1>3. QED BY <1>1, <1>2, ZenonT(30) DEF IInv, QueuesHoldLatest, TablesConsistent, OwnPort, PopGetsOwnPort
-----------------------------------------------------------------------------
\* IInv is inductive.
LEMMA NextIInv == IInv /\ [Next]_vars => IInv'
<1> SUFFICES ASSUME IInv, [Next]_vars PROVE IInv'
    BY Zenon
<1>1. CASE UNCHANGED vars
    BY <1>1, ZenonT(30) DEF vars, IInv, TypeOK, QueuesHoldLatest, TablesConsistent, OwnPort, PopGetsOwnPort
<1>2. CASE SenderPops
    BY <1>2, DrainStep, Zenon DEF SenderPops
<1>3. CASE \E ok \in BOOLEAN : SenderQueryEnds(ok)
    BY <1>3, DrainStep, Zenon DEF SenderQueryEnds
<1>4. QED BY <1>1, <1>2, <1>3, SocketStep, CloseStep, BindStep, PushtoStep, PopStep, PollPopStep,
             ReceiveStep, ArpStep, Zenon DEF Next

\* Every reachable state satisfies the inductive invariant.
THEOREM Invariance == Spec => []IInv
    BY InitIInv, NextIInv, PTL DEF Spec

\* The structures of UdpPeer keep their shapes, and no queue exceeds its
\* capacity.
THEOREM TypeCorrect == Spec => []TypeOK
<1>1. IInv => TypeOK
    BY Zenon DEF IInv
<1>2. QED BY <1>1, Invariance, PTL

\* However pushes that overflow, pops and the background task follow each
\* other, a queue holds the latest messages without a gap.
THEOREM QueuesLoseOldest == Spec => []QueuesHoldLatest
<1>1. IInv => QueuesHoldLatest
    BY Zenon DEF IInv
<1>2. QED BY <1>1, Invariance, PTL

\* The table of sockets, the table of bindings and the pool of ports agree:
\* the unwrap of udp/peer.rs:312 never fails.
THEOREM TablesAgree == Spec => []TablesConsistent
<1>1. IInv => TablesConsistent
    BY Zenon DEF IInv
<1>2. QED BY <1>1, Invariance, PTL

\* A pop returns a datagram of the port its socket had when it was issued,
\* whatever became of the socket, its descriptor and its port since.
THEOREM PopsReturnOwn == Spec => []PopGetsOwnPort
<1>1. IInv => PopGetsOwnPort
    BY Zenon DEF IInv
<1>2. QED BY <1>1, Invariance, PTL
=============================================================================
