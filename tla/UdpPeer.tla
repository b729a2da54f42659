------------------------------ MODULE UdpPeer ------------------------------
(***************************************************************************)
(* The UDP peer of one host (udp/peer.rs), its shared queues               *)
(* (udp/queue.rs), the pop operations (udp/futures/pop.rs), the task that  *)
(* sends the datagrams whose remote is not in the ARP cache, and the calls *)
(* of lib.rs that book and free descriptors.                               *)
(*                                                                         *)
(* A shared queue outlives its socket as long as a pop operation holds it, *)
(* so queues have names of their own.  The n-th message that was ever      *)
(* pushed to a queue carries the number n, and the port or the remote it   *)
(* is for.  One local IP address, so a local address is a port.            *)
(***************************************************************************)
EXTENDS Integers, Sequences

CONSTANTS
    QDs,                 \* descriptors the file table can hand out
    Remotes,             \* remote addresses
    Queues,              \* receive queues
    Pops,                \* pop operations outstanding at once
    None,                \* no queue, no message
    FIRST_PRIVATE_PORT,
    LAST_PRIVATE_PORT,
    Capacity,            \* RECV_QUEUE_MAX_SIZE and SEND_QUEUE_MAX_SIZE
    MaxMessages          \* bound: messages pushed to one queue

ASSUME UdpAssumption ==
    /\ None \notin Queues \cup Remotes
    /\ FIRST_PRIVATE_PORT \in Nat \ {0}
    /\ LAST_PRIVATE_PORT \in Nat
    /\ FIRST_PRIVATE_PORT =< LAST_PRIVATE_PORT
    /\ Capacity \in Nat \ {0, 1}
    /\ MaxMessages \in Nat

VARIABLES
    file_table,  \* descriptors in use
    sockets,     \* descriptors of the open sockets
    local,       \* their addresses; 0 is Option::None
    ephemeral,   \* ports in the pool
    bound,       \* port -> receive queue
    queue,       \* the receive queues
    pop,         \* the pop operations
    send_queue,  \* datagrams that wait for an address
    sender,      \* the background task
    resolved,    \* remotes in the ARP cache
    failed       \* panics and should-not-happen branches reached

vars == <<file_table, sockets, local, ephemeral, bound, queue, pop, send_queue, sender,
          resolved, failed>>

Ports == 1..LAST_PRIVATE_PORT
Messages == [n : 1..MaxMessages, for : Ports \cup Remotes]
NoMessage == [n |-> 0, for |-> None]

\* pushed counts the messages ever pushed.
SharedQueues == [msgs : Seq(Messages), length : 0..Capacity, pushed : 0..MaxMessages]
NewSharedQueue == [msgs |-> <<>>, length |-> 0, pushed |-> 0]

\* port: where the socket was bound when the operation was issued.
PopStates == [pc : {"idle", "pending", "done"}, qd : QDs \cup {None}, queue : Queues \cup {None},
              port : Ports \cup {0}, msg : Messages \cup {NoMessage}]
NoPop == [pc |-> "idle", qd |-> None, queue |-> None, port |-> 0, msg |-> NoMessage]

\* pc: not polled yet, in SharedQueue::pop, in ArpPeer::query.
Senders == [pc : {"start", "pop", "query"}, msg : Messages \cup {NoMessage}]

Panics == {"invalid queue descriptor", "unwrap of a missing queue", "BorrowMutError"}
Running == failed \cap Panics = {}
-----------------------------------------------------------------------------
(* Shared queues.                                                          *)

\* k messages taken from the front, one try_pop after the other.
pop_front(q, k) == [msgs |-> SubSeq(q.msgs, k + 1, Len(q.msgs)), length |-> q.length - k,
                    pushed |-> q.pushed]

try_pop(q) == pop_front(q, 1)

\* Mutant: a full queue loses what came last.
push_drops_newest(q, for) ==
    LET msg == [n |-> q.pushed + 1, for |-> for]
        keep == Capacity \div 2 - 1
        rest == IF q.length = Capacity
                THEN [q EXCEPT !.msgs = SubSeq(@, 1, keep), !.length = keep]
                ELSE q
    IN  [msgs |-> Append(rest.msgs, msg), length |-> rest.length + 1, pushed |-> q.pushed + 1]

\* A full queue is emptied from the front to less than half of its capacity.
push(q, for) ==
    LET msg == [n |-> q.pushed + 1, for |-> for]
        keep == Capacity \div 2 - 1
        rest == IF q.length = Capacity THEN pop_front(q, q.length - keep) ELSE q
    IN  [msgs |-> Append(rest.msgs, msg), length |-> rest.length + 1, pushed |-> q.pushed + 1]

Init ==
    /\ file_table = {}
    /\ sockets = {}
    /\ local = [qd \in QDs |-> 0]
    /\ ephemeral = FIRST_PRIVATE_PORT..(LAST_PRIVATE_PORT - 1)
    /\ bound = [p \in Ports |-> None]
    /\ queue = [q \in Queues |-> NewSharedQueue]
    /\ pop = [o \in Pops |-> NoPop]
    /\ send_queue = NewSharedQueue
    /\ sender = [pc |-> "start", msg |-> NoMessage]
    /\ resolved = {}
    /\ failed = {}
-----------------------------------------------------------------------------
(* Calls of the application.                                               *)

Socket(qd) ==
    /\ Running
    /\ qd \notin file_table /\ qd \notin sockets
    /\ file_table' = file_table \cup {qd}
    /\ sockets' = sockets \cup {qd}
    /\ local' = [local EXCEPT ![qd] = 0]
    /\ UNCHANGED <<ephemeral, bound, queue, pop, send_queue, sender, resolved, failed>>

is_private(port) == port >= FIRST_PRIVATE_PORT

\* The ports do_bind may settle on: 0 is the wildcard, served from the pool.
Bindable(port) ==
    IF port = 0 THEN ephemeral ELSE {p \in {port} : is_private(p) => p \in ephemeral}

\* A queue nobody refers to: where SharedQueue::new is allocated.
Unused(q) == /\ \A p \in Ports : bound[p] # q
             /\ \A o \in Pops : pop[o].queue # q

\* A socket that is bound already keeps its address and the port goes back.
Bind(qd, port) ==
    /\ Running
    /\ qd \in file_table
    /\ port # 0 => bound[port] = None
    /\ \E p \in Bindable(port) :
         \/ /\ qd \in sockets /\ local[qd] = 0
            /\ local' = [local EXCEPT ![qd] = p]
            /\ ephemeral' = IF bound[p] = None THEN ephemeral \ {p} ELSE ephemeral
            /\ \E q \in Queues : /\ Unused(q)
                                 /\ bound' = [bound EXCEPT ![p] = q]
                                 /\ queue' = [queue EXCEPT ![q] = NewSharedQueue]
            /\ failed' = IF bound[p] # None THEN failed \cup {"address in use"} ELSE failed
         \/ /\ qd \notin sockets \/ local[qd] # 0
            /\ ephemeral' = IF is_private(p) THEN ephemeral \cup {p} ELSE ephemeral
            /\ UNCHANGED <<local, bound, queue, failed>>
    /\ UNCHANGED <<file_table, sockets, pop, send_queue, sender, resolved>>

\* Mutant: the binding stays when its socket goes.
Close_keeps_binding(qd) ==
    /\ Running
    /\ qd \in file_table /\ qd \in sockets
    /\ sockets' = sockets \ {qd}
    /\ local' = [local EXCEPT ![qd] = 0]
    /\ file_table' = IF local[qd] # 0 THEN file_table \ {qd} ELSE file_table
    /\ UNCHANGED <<ephemeral, bound, queue, pop, send_queue, sender, resolved, failed>>

\* The socket leaves the table first; without a binding the call then fails
\* and the descriptor is not given back.
Close(qd) ==
    /\ Running
    /\ qd \in file_table /\ qd \in sockets
    /\ sockets' = sockets \ {qd}
    /\ local' = [local EXCEPT ![qd] = 0]
    /\ bound' = [p \in Ports |-> IF p = local[qd] THEN None ELSE bound[p]]
    /\ file_table' = IF local[qd] # 0 /\ bound[local[qd]] # None THEN file_table \ {qd} ELSE file_table
    /\ UNCHANGED <<ephemeral, queue, pop, send_queue, sender, resolved, failed>>

\* do_pushto of a datagram that cannot be sent at once; one that can leaves
\* the host and the state as it is.  The queue that is full is popped, which
\* fails while the background task is inside SharedQueue::pop.
Pushto(qd, remote) ==
    /\ Running
    /\ qd \in file_table /\ qd \in sockets /\ local[qd] # 0
    /\ remote \notin resolved
    /\ send_queue.pushed < MaxMessages
    /\ IF send_queue.length = Capacity /\ sender.pc = "pop"
       THEN failed' = failed \cup {"BorrowMutError"} /\ UNCHANGED send_queue
       ELSE send_queue' = push(send_queue, remote) /\ UNCHANGED failed
    /\ UNCHANGED <<file_table, sockets, local, ephemeral, bound, queue, pop, sender, resolved>>

\* InetStack::pop: the operation takes hold of the queue of the socket.
Pop(o, qd) ==
    /\ Running
    /\ qd \in file_table /\ pop[o].pc # "pending"
    /\ \/ /\ qd \in sockets /\ local[qd] # 0 /\ bound[local[qd]] # None
          /\ pop' = [pop EXCEPT ![o] = [pc |-> "pending", qd |-> qd, queue |-> bound[local[qd]],
                                        port |-> local[qd], msg |-> NoMessage]]
          /\ UNCHANGED failed
       \/ /\ qd \in sockets /\ local[qd] # 0 /\ bound[local[qd]] = None
          /\ failed' = failed \cup {"unwrap of a missing queue"}
          /\ UNCHANGED pop
       \/ /\ qd \notin sockets \/ local[qd] = 0
          /\ failed' = failed \cup {"invalid queue descriptor"}
          /\ UNCHANGED pop
    /\ UNCHANGED <<file_table, sockets, local, ephemeral, bound, queue, send_queue, sender, resolved>>
-----------------------------------------------------------------------------
(* The scheduler and the network.                                          *)

\* Mutant: the queue is looked up anew by the descriptor.
PollPop_by_descriptor(o) ==
    LET q == bound[local[pop[o].qd]]
    IN  /\ Running
        /\ pop[o].pc = "pending" /\ local[pop[o].qd] # 0
        /\ q # None /\ queue[q].msgs # <<>>
        /\ pop' = [pop EXCEPT ![o] = [pc |-> "done", qd |-> @.qd, queue |-> None,
                                      port |-> @.port, msg |-> Head(queue[q].msgs)]]
        /\ queue' = [queue EXCEPT ![q] = try_pop(@)]
        /\ UNCHANGED <<file_table, sockets, local, ephemeral, bound, send_queue, sender,
                       resolved, failed>>

\* A pop operation asks to be polled again as long as its queue is empty.
PollPop(o) ==
    LET q == pop[o].queue
    IN  /\ Running
        /\ pop[o].pc = "pending" /\ queue[q].msgs # <<>>
        /\ pop' = [pop EXCEPT ![o] = [pc |-> "done", qd |-> @.qd, queue |-> None,
                                      port |-> @.port, msg |-> Head(queue[q].msgs)]]
        /\ queue' = [queue EXCEPT ![q] = try_pop(@)]
        /\ UNCHANGED <<file_table, sockets, local, ephemeral, bound, send_queue, sender,
                       resolved, failed>>

\* A datagram for a port that is bound; others are refused (ENOTCONN).
Receive(port) ==
    LET q == bound[port]
    IN  /\ Running
        /\ q # None /\ queue[q].pushed < MaxMessages
        /\ queue' = [queue EXCEPT ![q] = push(@, port)]
        /\ UNCHANGED <<file_table, sockets, local, ephemeral, bound, pop, send_queue, sender,
                       resolved, failed>>

\* The background task after it is done with a datagram: it sends from the
\* front of the queue whatever it finds an address for, until it has to wait
\* for an address or for a datagram.
Drain ==
    LET msgs == send_queue.msgs
    IN  \E sent \in 0..Len(msgs) :
          LET taken == IF sent = Len(msgs) THEN sent ELSE sent + 1
          IN  /\ \A i \in 1..sent : msgs[i].for \in resolved
              /\ sent < Len(msgs) => msgs[sent + 1].for \notin resolved
              /\ send_queue' = pop_front(send_queue, taken)
              /\ sender' = IF taken = sent THEN [pc |-> "pop", msg |-> NoMessage]
                           ELSE [pc |-> "query", msg |-> msgs[taken]]

\* The task is polled: for the first time, or with a datagram in the queue.
SenderPops ==
    /\ Running
    /\ sender.pc = "start" \/ (sender.pc = "pop" /\ send_queue.msgs # <<>>)
    /\ Drain
    /\ UNCHANGED <<file_table, sockets, local, ephemeral, bound, queue, pop, resolved, failed>>

\* Mutant: a query that failed is issued again for the same datagram.
SenderQueryEnds_retries(ok) ==
    /\ Running
    /\ sender.pc = "query"
    /\ ok => sender.msg.for \in resolved
    /\ IF ok THEN Drain ELSE UNCHANGED <<send_queue, sender>>
    /\ UNCHANGED <<file_table, sockets, local, ephemeral, bound, queue, pop, resolved, failed>>

\* The ARP query is answered and the datagram sent, or it fails and the
\* datagram is dropped.
SenderQueryEnds(ok) ==
    /\ Running
    /\ sender.pc = "query"
    /\ ok => sender.msg.for \in resolved
    /\ Drain
    /\ UNCHANGED <<file_table, sockets, local, ephemeral, bound, queue, pop, resolved, failed>>

ArpLearn(remote) ==
    /\ Running
    /\ remote \notin resolved
    /\ resolved' = resolved \cup {remote}
    /\ UNCHANGED <<file_table, sockets, local, ephemeral, bound, queue, pop, send_queue, sender, failed>>

ArpEvict(remote) ==
    /\ Running
    /\ remote \in resolved
    /\ resolved' = resolved \ {remote}
    /\ UNCHANGED <<file_table, sockets, local, ephemeral, bound, queue, pop, send_queue, sender, failed>>

Next ==
    \/ \E qd \in QDs : Socket(qd) \/ Close(qd)
    \/ \E qd \in QDs, port \in 0..LAST_PRIVATE_PORT : Bind(qd, port)
    \/ \E qd \in QDs, remote \in Remotes : Pushto(qd, remote)
    \/ \E qd \in QDs, o \in Pops : Pop(o, qd)
    \/ \E o \in Pops : PollPop(o)
    \/ \E port \in Ports : Receive(port)
    \/ SenderPops
    \/ \E ok \in BOOLEAN : SenderQueryEnds(ok)
    \/ \E remote \in Remotes : ArpLearn(remote) \/ ArpEvict(remote)

Spec == Init /\ [][Next]_vars

\* The scheduler polls the background task when it can go on, and an ARP query
\* ends (Arp!QueryCompletes).
FairSpec ==
    /\ Spec
    /\ WF_vars(SenderPops)
    /\ WF_vars(\E ok \in BOOLEAN : SenderQueryEnds(ok))
-----------------------------------------------------------------------------
(* Properties.                                                             *)

\* The variables have the shapes of the structures they stand for, and the
\* length of a queue stays within its capacity.
TypeOK ==
    /\ file_table \subseteq QDs
    /\ sockets \subseteq QDs
    /\ local \in [QDs -> 0..LAST_PRIVATE_PORT]
    /\ ephemeral \subseteq Ports
    /\ bound \in [Ports -> Queues \cup {None}]
    /\ queue \in [Queues -> SharedQueues]
    /\ pop \in [Pops -> PopStates]
    /\ send_queue \in SharedQueues
    /\ sender \in Senders
    /\ resolved \subseteq Remotes
    /\ failed \subseteq Panics \cup {"address in use"}

\* The table of sockets, the table of bindings and the pool agree: a port has
\* a queue exactly if one open socket is bound to it, no two ports share one,
\* and a port that is bound is not in the pool.  So the unwrap of
\* udp/peer.rs:312 and the error of udp/peer.rs:234 are never reached.
TablesConsistent ==
    /\ \A p \in Ports : (bound[p] # None) <=> (\E qd \in sockets : local[qd] = p)
    /\ \A q1, q2 \in sockets : local[q1] = local[q2] /\ local[q1] # 0 => q1 = q2
    /\ \A p1, p2 \in Ports : bound[p1] = bound[p2] /\ bound[p1] # None => p1 = p2
    /\ \A p \in ephemeral : bound[p] = None
    /\ failed \cap {"unwrap of a missing queue", "address in use"} = {}

\* A queue holds the messages that were pushed last, in order and without a
\* gap, its length counter agrees, and it stays within its capacity: overflow
\* (udp/queue.rs:72-76) and the two ways to pop lose only from the front.
HoldsLatest(q) ==
    /\ q.length = Len(q.msgs)
    /\ q.length =< Capacity
    /\ \A i \in 1..Len(q.msgs) : q.msgs[i].n = q.pushed - Len(q.msgs) + i
QueuesHoldLatest == HoldsLatest(send_queue) /\ \A q \in Queues : HoldsLatest(queue[q])

\* A pop operation returns a datagram for the port its socket had when the
\* operation was issued, though the socket may be closed, and its descriptor
\* and its port be in use again, by the time the operation is polled.
PopGetsOwnPort == \A o \in Pops : pop[o].pc = "done" => pop[o].msg.for = pop[o].port

\* A datagram that waits for an address leaves the queue and the hands of the
\* background task: it is sent, or dropped because the query failed or the
\* queue was full (udp/peer.rs:158-182).
QueuedLeaves ==
    \A n \in 1..MaxMessages :
        LET Waits == sender.msg.n = n \/ \E i \in 1..Len(send_queue.msgs) : send_queue.msgs[i].n = n
        IN  Waits ~> (~ Waits \/ ~ Running)
=============================================================================
