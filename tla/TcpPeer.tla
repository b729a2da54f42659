------------------------------ MODULE TcpPeer ------------------------------
(***************************************************************************)
(* The socket tables of one host: the TCP peer (tcp/peer.rs), the passive  *)
(* and the active open (tcp/passive_open.rs, tcp/active_open.rs), the pool *)
(* of ephemeral ports (ip/ephemeral.rs) and the calls of lib.rs that       *)
(* allocate and free queue descriptors.  The remote hosts are the          *)
(* environment: any header may arrive at any time.  Established            *)
(* connections are only keys here; TcpConnection models what is behind     *)
(* them.  One local IP address, so a local address is a port.              *)
(*                                                                         *)
(* A HashMap is a total function whose absent entries have a value of      *)
(* their own.  A future that waits is named by the descriptor it works     *)
(* for: the connecting socket, or the descriptor booked by accept.         *)
(***************************************************************************)
EXTENDS Integers, Sequences, FiniteSets

CONSTANTS
    QDs,                   \* descriptors the file table can hand out
    Remotes,               \* remote addresses
    None,                  \* no remote address, no waker, a failed handshake
    FIRST_PRIVATE_PORT,
    LAST_PRIVATE_PORT,
    Backlogs,              \* backlogs the application asks for
    MaxAccepts             \* bound: accept operations outstanding at once

ASSUME PeerAssumption ==
    /\ None \notin Remotes \cup QDs
    /\ FIRST_PRIVATE_PORT \in Nat \ {0}
    /\ LAST_PRIVATE_PORT \in Nat
    /\ FIRST_PRIVATE_PORT =< LAST_PRIVATE_PORT
    /\ Backlogs \subseteq Nat \ {0}
    /\ MaxAccepts \in Nat

VARIABLES
    file_table,   \* descriptors in use
    sockets,      \* QDesc -> Socket
    ephemeral,    \* ports in the pool
    passive,      \* local address -> PassiveSocket
    connecting,   \* (local, remote) -> ActiveOpenSocket
    established,  \* keys of the established sockets
    accepts,      \* accept operations not yet taken by the application
    connects,     \* descriptors of the connect operations that are pending
    woken,        \* futures the scheduler has been told to poll
    failed        \* assertions and panics reached

tables == <<file_table, sockets, ephemeral, passive, connecting, established>>
vars == <<tables, accepts, connects, woken, failed>>

Ports == 1..LAST_PRIVATE_PORT
Keys == Ports \X Remotes

\* local = 0 is the unbound socket (Option::None in the code).
Sockets == [state : {"None", "Inactive", "Listening", "Connecting", "Established"},
            local : 0..LAST_PRIVATE_PORT, remote : Remotes \cup {None}]
NoSocket == [state |-> "None", local |-> 0, remote |-> None]

\* waiting: inflight entries whose SYN+ACK task is still running.
PassiveSockets == [open : BOOLEAN, inflight : SUBSET Remotes, waiting : SUBSET Remotes,
                   ready : Seq(Remotes \cup {None}), endpoints : SUBSET Remotes,
                   waker : QDs \cup {None}, max_backlog : Nat]
NewPassive(backlog) == [open |-> TRUE, inflight |-> {}, waiting |-> {}, ready |-> <<>>,
                        endpoints |-> {}, waker |-> None, max_backlog |-> backlog]
NoPassive == [open |-> FALSE, inflight |-> {}, waiting |-> {}, ready |-> <<>>,
              endpoints |-> {}, waker |-> None, max_backlog |-> 0]

\* timer: the task that sends the SYN and waits is still running.
ActiveOpens == [result : {"absent", "none", "ok", "err"}, timer : BOOLEAN, waker : QDs \cup {None}]
NoActiveOpen == [result |-> "absent", timer |-> FALSE, waker |-> None]
NewActiveOpen == [result |-> "none", timer |-> TRUE, waker |-> None]

Accepts == [qd : QDs, new_qd : QDs, failed : BOOLEAN]

\* Branches that stop the process.
Panics == {"sockets/local inconsistency", "duplicate queue descriptor in sockets table",
           "duplicate queue descriptor in established sockets table", "endpoints.remove",
           "endpoints.insert", "established.insert", "ARP query control flow"}
Running == failed \cap Panics = {}
Fail(name, reached) == failed' = IF reached THEN failed \cup {name} ELSE failed

Wake(waker) == woken' = woken \cup ({waker} \ {None})
-----------------------------------------------------------------------------
(* Ephemeral ports.  The pool is a shuffled vector, popped from the end.   *)

NewEphemeralPorts == FIRST_PRIVATE_PORT..(LAST_PRIVATE_PORT - 1)
is_private(port) == port >= FIRST_PRIVATE_PORT
alloc_port(port) == IF is_private(port) THEN ephemeral \ {port} ELSE ephemeral
free_port(pool, port) == IF is_private(port) THEN pool \cup {port} ELSE pool

Init ==
    /\ file_table = {}
    /\ sockets = [qd \in QDs |-> NoSocket]
    /\ ephemeral = NewEphemeralPorts
    /\ passive = [p \in Ports |-> NoPassive]
    /\ connecting = [k \in Keys |-> NoActiveOpen]
    /\ established = {}
    /\ accepts = {}
    /\ connects = {}
    /\ woken = {}
    /\ failed = {}
-----------------------------------------------------------------------------
(* Calls of the application.                                               *)

Socket(qd) ==
    /\ Running
    /\ qd \notin file_table
    /\ file_table' = IF sockets[qd].state = "None" THEN file_table \cup {qd} ELSE file_table
    /\ sockets' = [sockets EXCEPT ![qd] = IF @.state = "None" THEN [@ EXCEPT !.state = "Inactive"] ELSE @]
    /\ UNCHANGED <<ephemeral, passive, connecting, established, accepts, connects, woken, failed>>

\* Mutant: sockets that only were bound are overlooked.
Bound_in_use(port) ==
    \E q \in QDs : sockets[q].state \notin {"None", "Inactive"} /\ sockets[q].local = port

\* Some socket is already bound to the port.
Bound(port) == \E q \in QDs : sockets[q].state # "None" /\ sockets[q].local = port

\* The ports bind may settle on: 0 is the wildcard, served from the pool, and
\* a private port has to be in the pool.
Bindable(port) ==
    IF port = 0 THEN ephemeral
    ELSE {p \in {port} : is_private(p) => p \in ephemeral}

Bind(qd, port) ==
    /\ Running
    /\ qd \in file_table
    /\ port # 0 => ~ Bound(port)
    /\ \E p \in Bindable(port) :
         LET unbound == sockets[qd].state = "Inactive" /\ sockets[qd].local = 0
         IN  /\ sockets' = [sockets EXCEPT ![qd].local = IF unbound THEN p ELSE @]
             /\ ephemeral' = IF unbound THEN alloc_port(p) ELSE free_port(alloc_port(p), p)
    /\ UNCHANGED <<file_table, passive, connecting, established, accepts, connects, woken, failed>>

Listen(qd, backlog) ==
    LET local == sockets[qd].local
    IN  /\ Running /\ qd \in file_table
        /\ sockets[qd].state = "Inactive" /\ local # 0
        /\ ~ passive[local].open
        /\ passive' = [passive EXCEPT ![local] = NewPassive(backlog)]
        /\ sockets' = [sockets EXCEPT ![qd].state = "Listening"]
        /\ UNCHANGED <<file_table, ephemeral, connecting, established, accepts, connects, woken, failed>>

\* Mutant: the descriptor is looked up when accept is called but not booked.
Accept_unbooked(qd, new_qd) ==
    /\ Running
    /\ qd \in file_table
    /\ new_qd \notin file_table
    /\ Cardinality(accepts) < MaxAccepts
    /\ accepts' = accepts \cup {[qd |-> qd, new_qd |-> new_qd, failed |-> FALSE]}
    /\ Wake(new_qd)
    /\ UNCHANGED <<tables, connects, failed>>

\* The descriptor of the connection to come is booked when accept is called.
Accept(qd, new_qd) ==
    /\ Running
    /\ qd \in file_table
    /\ new_qd \notin file_table
    /\ Cardinality(accepts) < MaxAccepts
    /\ file_table' = file_table \cup {new_qd}
    /\ accepts' = accepts \cup {[qd |-> qd, new_qd |-> new_qd, failed |-> FALSE]}
    /\ Wake(new_qd)
    /\ UNCHANGED <<sockets, ephemeral, passive, connecting, established, connects, failed>>

\* The new entry replaces one that is already there; the replaced entry is
\* dropped with its task and its waker, and the call then fails.
Connect(qd, remote) ==
    /\ Running
    /\ qd \in file_table
    /\ sockets[qd].state = "Inactive"
    /\ \E p \in IF sockets[qd].local = 0 THEN ephemeral ELSE {sockets[qd].local} :
         LET leaked == connecting[<<p, remote>>].result # "absent"
         IN  /\ ephemeral' = IF sockets[qd].local = 0 THEN ephemeral \ {p} ELSE ephemeral
             /\ sockets' = [sockets EXCEPT ![qd] = [state |-> "Connecting", local |-> p, remote |-> remote]]
             /\ connecting' = [connecting EXCEPT ![<<p, remote>>] = NewActiveOpen]
             /\ connects' = IF leaked THEN connects ELSE connects \cup {qd}
             /\ IF leaked THEN UNCHANGED woken ELSE Wake(qd)
    /\ UNCHANGED <<file_table, passive, established, accepts, failed>>

\* The socket leaves the table first; only an established one can be closed,
\* and in the other cases the descriptor is not given back.
Close(qd) ==
    LET s == sockets[qd]
    IN  /\ Running /\ qd \in file_table
        /\ s.state # "None"
        /\ sockets' = [sockets EXCEPT ![qd] = NoSocket]
        /\ file_table' = IF s.state = "Established" /\ <<s.local, s.remote>> \in established
                         THEN file_table \ {qd} ELSE file_table
        /\ UNCHANGED <<ephemeral, passive, connecting, established, accepts, connects, woken, failed>>

\* wait2 or wait_any2 takes the result of a failed accept.
TakeFailedAccept(a) ==
    /\ Running /\ a \in accepts /\ a.failed
    /\ accepts' = accepts \ {a}
    /\ file_table' = file_table \ {a.new_qd}
    /\ UNCHANGED <<sockets, ephemeral, passive, connecting, established, connects, woken, failed>>
-----------------------------------------------------------------------------
(* Futures.  The scheduler polls a future that was woken; it may poll it   *)
(* at any other time as well.                                              *)

AcceptFails(a) ==
    /\ accepts' = (accepts \ {a}) \cup {[a EXCEPT !.failed = TRUE]}
    /\ woken' = woken \ {a.new_qd}

\* ReadySockets::poll with an entry, then the rest of poll_accept.
AcceptReady(a, local) ==
    LET p == passive[local]
        remote == Head(p.ready)
        key == <<local, remote>>
    IN  /\ passive' = [passive EXCEPT ![local].ready = Tail(p.ready),
                                      ![local].endpoints = @ \ {remote}]
        /\ \/ /\ remote = None
              /\ AcceptFails(a)
              /\ UNCHANGED <<sockets, established, failed>>
           \/ /\ remote # None
              /\ sockets' = [sockets EXCEPT ![a.new_qd] =
                    [state |-> "Established", local |-> local, remote |-> remote]]
              /\ established' = established \cup {key}
              /\ accepts' = accepts \ {a}
              /\ woken' = woken \ {a.new_qd}
              /\ failed' = failed \cup
                   {name \in Panics :
                      \/ name = "endpoints.remove" /\ remote \notin p.endpoints
                      \/ name = "duplicate queue descriptor in sockets table"
                         /\ sockets[a.new_qd].state # "None"
                      \/ name = "duplicate queue descriptor in established sockets table"
                         /\ key \in established}

PollAccept(a) ==
    LET s == sockets[a.qd]
    IN  /\ Running /\ a \in accepts /\ ~ a.failed
        /\ \/ /\ s.state # "Listening"
              /\ AcceptFails(a)
              /\ UNCHANGED <<sockets, passive, established, failed>>
           \/ /\ s.state = "Listening" /\ ~ passive[s.local].open
              /\ Fail("sockets/local inconsistency", TRUE)
              /\ UNCHANGED <<sockets, passive, established, accepts, woken>>
           \/ /\ s.state = "Listening" /\ passive[s.local].open
              /\ passive[s.local].ready = <<>>
              /\ passive' = [passive EXCEPT ![s.local].waker = a.new_qd]
              /\ woken' = woken \ {a.new_qd}
              /\ UNCHANGED <<sockets, established, accepts, failed>>
           \/ /\ s.state = "Listening" /\ passive[s.local].open
              /\ passive[s.local].ready # <<>>
              /\ AcceptReady(a, s.local)
        /\ UNCHANGED <<file_table, ephemeral, connecting, connects>>

\* poll_connect_finished.
PollConnect(qd) ==
    LET s == sockets[qd]
        key == <<s.local, s.remote>>
        result == connecting[key].result
        Done == connects' = connects \ {qd} /\ woken' = woken \ {qd}
    IN  /\ Running /\ qd \in connects
        /\ \/ /\ s.state = "Connecting" => result = "absent"
              /\ Done
              /\ UNCHANGED <<sockets, connecting, established, failed>>
           \/ /\ s.state = "Connecting" /\ result = "none"
              /\ connecting' = [connecting EXCEPT ![key].waker = qd]
              /\ woken' = woken \ {qd}
              /\ UNCHANGED <<sockets, established, connects, failed>>
           \/ /\ s.state = "Connecting" /\ result = "err"
              /\ connecting' = [connecting EXCEPT ![key] = NoActiveOpen]
              /\ Done
              /\ UNCHANGED <<sockets, established, failed>>
           \/ /\ s.state = "Connecting" /\ result = "ok"
              /\ connecting' = [connecting EXCEPT ![key] = NoActiveOpen]
              /\ Fail("established.insert", key \in established)
              /\ established' = established \cup {key}
              /\ sockets' = [sockets EXCEPT ![qd].state = "Established"]
              /\ Done
        /\ UNCHANGED <<file_table, ephemeral, passive, accepts>>
-----------------------------------------------------------------------------
(* Segments and timers.  valid: the header acknowledges the SYN or SYN+ACK *)
(* this host sent for the connection.                                      *)

Headers == [syn : BOOLEAN, ack : BOOLEAN, rst : BOOLEAN, valid : BOOLEAN]

\* Mutant: the result is set and the waker forgotten.
SetResult_silently(key, result, timer) ==
    /\ connecting' = [connecting EXCEPT ![key] = [result |-> result, timer |-> timer, waker |-> None]]
    /\ UNCHANGED woken

\* ActiveOpenSocket::set_result, and the end of its background task.
SetResult(key, result, timer) ==
    /\ connecting' = [connecting EXCEPT ![key] = [result |-> result, timer |-> timer, waker |-> None]]
    /\ Wake(connecting[key].waker)

\* ActiveOpenSocket::receive; resolved: the ARP cache knows the remote.
ReceiveConnecting(key, h, resolved) ==
    /\ Running
    /\ key \notin established
    /\ connecting[key].result # "absent"
    /\ h.ack /\ h.valid
    /\ \/ /\ h.rst
          /\ SetResult(key, "err", connecting[key].timer)
          /\ UNCHANGED failed
       \/ /\ ~ h.rst /\ h.syn /\ ~ resolved
          /\ Fail("ARP query control flow", TRUE)
          /\ UNCHANGED <<connecting, woken>>
       \/ /\ ~ h.rst /\ h.syn /\ resolved
          /\ SetResult(key, "ok", connecting[key].timer)
          /\ UNCHANGED failed
    /\ UNCHANGED <<file_table, sockets, ephemeral, passive, established, accepts, connects>>

\* Mutants: the endpoint is not recorded, or nobody is woken.
CompleteHandshake_unrecorded(local, remote, h) ==
    LET p == passive[local]
    IN  /\ remote \notin p.endpoints /\ remote \in p.inflight
        /\ h.ack /\ h.valid
        /\ passive' = [passive EXCEPT ![local] = [p EXCEPT
              !.inflight = @ \ {remote}, !.waiting = @ \ {remote},
              !.ready = Append(@, remote), !.waker = None]]
        /\ Wake(p.waker) /\ UNCHANGED failed

CompleteHandshake_silently(local, remote, h) ==
    LET p == passive[local]
    IN  /\ remote \notin p.endpoints /\ remote \in p.inflight
        /\ h.ack /\ h.valid
        /\ passive' = [passive EXCEPT ![local] = [p EXCEPT
              !.inflight = @ \ {remote}, !.waiting = @ \ {remote},
              !.ready = Append(@, remote), !.endpoints = @ \cup {remote}]]
        /\ UNCHANGED <<woken, failed>>

\* PassiveSocket::receive for a connection in flight, and push_ok.
CompleteHandshake(local, remote, h) ==
    LET p == passive[local]
    IN  /\ remote \notin p.endpoints /\ remote \in p.inflight
        /\ h.ack /\ h.valid
        /\ passive' = [passive EXCEPT ![local] = [p EXCEPT
              !.inflight = @ \ {remote}, !.waiting = @ \ {remote},
              !.ready = Append(@, remote), !.endpoints = @ \cup {remote}, !.waker = None]]
        /\ Fail("endpoints.insert", remote \in p.endpoints)
        /\ Wake(p.waker)

\* Mutant: the connections that wait for accept are not counted.
StartHandshake_inflight_only(local, remote, h) ==
    LET p == passive[local]
    IN  /\ remote \notin p.endpoints /\ remote \notin p.inflight
        /\ h.syn /\ ~ h.ack /\ ~ h.rst
        /\ Cardinality(p.inflight) < p.max_backlog
        /\ passive' = [passive EXCEPT ![local].inflight = @ \cup {remote},
                                      ![local].waiting = @ \cup {remote}]
        /\ UNCHANGED <<woken, failed>>

\* PassiveSocket::receive for a new connection.
StartHandshake(local, remote, h) ==
    LET p == passive[local]
    IN  /\ remote \notin p.endpoints /\ remote \notin p.inflight
        /\ h.syn /\ ~ h.ack /\ ~ h.rst
        /\ Cardinality(p.inflight) + Len(p.ready) < p.max_backlog
        /\ passive' = [passive EXCEPT ![local].inflight = @ \cup {remote},
                                      ![local].waiting = @ \cup {remote}]
        /\ UNCHANGED <<woken, failed>>

\* Mutant: a listener is asked before the established connections.
ReceivePassive_first(local, remote, h) ==
    /\ Running
    /\ passive[local].open
    /\ CompleteHandshake(local, remote, h) \/ StartHandshake(local, remote, h)
    /\ UNCHANGED <<file_table, sockets, ephemeral, connecting, established, accepts, connects>>

\* Inner::receive below the connecting table.  Without a passive socket a
\* reset is sent, which leaves the tables as they are.
ReceivePassive(local, remote, h) ==
    /\ Running
    /\ <<local, remote>> \notin established
    /\ connecting[<<local, remote>>].result = "absent"
    /\ passive[local].open
    /\ CompleteHandshake(local, remote, h) \/ StartHandshake(local, remote, h)
    /\ UNCHANGED <<file_table, sockets, ephemeral, connecting, established, accepts, connects>>

\* The last wait of ActiveOpenSocket::background runs out.
ConnectTimeout(key) ==
    /\ Running
    /\ connecting[key].timer
    /\ SetResult(key, "err", FALSE)
    /\ UNCHANGED <<file_table, sockets, ephemeral, passive, established, accepts, connects, failed>>

\* The last wait of PassiveSocket::background runs out: push_err.
HandshakeTimeout(local, remote) ==
    LET p == passive[local]
    IN  /\ Running /\ remote \in p.waiting
        /\ passive' = [passive EXCEPT ![local] = [p EXCEPT
              !.waiting = @ \ {remote}, !.ready = Append(@, None), !.waker = None]]
        /\ Wake(p.waker)
        /\ UNCHANGED <<file_table, sockets, ephemeral, connecting, established, accepts, connects, failed>>
-----------------------------------------------------------------------------
Application ==
    \/ \E qd \in QDs : Socket(qd) \/ Close(qd)
    \/ \E qd \in QDs, port \in 0..LAST_PRIVATE_PORT : Bind(qd, port)
    \/ \E qd \in QDs, backlog \in Backlogs : Listen(qd, backlog)
    \/ \E qd, new_qd \in QDs : Accept(qd, new_qd)
    \/ \E qd \in QDs, remote \in Remotes : Connect(qd, remote)
    \/ \E a \in accepts : TakeFailedAccept(a)

Scheduler ==
    \/ \E a \in accepts : PollAccept(a)
    \/ \E qd \in QDs : PollConnect(qd)
    \/ \E key \in Keys : ConnectTimeout(key)
    \/ \E local \in Ports, remote \in Remotes : HandshakeTimeout(local, remote)

Network ==
    \/ \E key \in Keys, h \in Headers, resolved \in BOOLEAN : ReceiveConnecting(key, h, resolved)
    \/ \E local \in Ports, remote \in Remotes, h \in Headers : ReceivePassive(local, remote, h)

Next == Application \/ Scheduler \/ Network
Spec == Init /\ [][Next]_vars
-----------------------------------------------------------------------------
(* Properties.                                                             *)

\* The variables have the shapes of the structures they stand for.
TypeOK ==
    /\ file_table \subseteq QDs
    /\ sockets \in [QDs -> Sockets]
    /\ ephemeral \subseteq Ports
    /\ passive \in [Ports -> PassiveSockets]
    /\ connecting \in [Keys -> ActiveOpens]
    /\ established \subseteq Keys
    /\ accepts \subseteq Accepts
    /\ connects \subseteq QDs
    /\ woken \subseteq QDs
    /\ failed \subseteq Panics

\* The assertions and panics with which peer.rs and passive_open.rs guard
\* the consistency of their tables (peer.rs:260, 276, 281, 540 and
\* passive_open.rs:87, 110) are never reached.  The panic on a missing ARP
\* entry (active_open.rs:146) is about another table and is left out.
TablesConsistent == failed \cap (Panics \ {"ARP query control flow"}) = {}

\* No two sockets share a local address unless both serve connections of one
\* listener: what the address check of bind and the pool of ephemeral ports
\* are for.
AddressesExclusive ==
    \A q1, q2 \in QDs :
        (q1 # q2 /\ sockets[q1].local = sockets[q2].local /\ sockets[q1].local # 0)
        => \/ sockets[q1].state = "Established" /\ sockets[q2].state \in {"Established", "Listening"}
           \/ sockets[q2].state = "Established" /\ sockets[q1].state = "Listening"

\* Two descriptors never refer to one connection: an established connection
\* stays in the table when its descriptor is closed, and neither accept nor
\* connect hands it out a second time.
OneDescriptorPerConnection ==
    \A q1, q2 \in QDs :
        (q1 # q2 /\ sockets[q1].state = "Established" /\ sockets[q2].state = "Established")
        => <<sockets[q1].local, sockets[q1].remote>> # <<sockets[q2].local, sockets[q2].remote>>

\* A descriptor is in the file table as long as a socket or an accept
\* operation uses it, and the one booked by accept is nobody else's until
\* the operation has completed and its failure was taken (lib.rs:250, 490).
DescriptorsHeld ==
    /\ \A qd \in QDs : sockets[qd].state # "None" => qd \in file_table
    /\ \A a \in accepts : a.new_qd \in file_table /\ sockets[a.new_qd].state = "None"
    /\ \A a, b \in accepts : a.new_qd = b.new_qd => a = b

\* The connections in flight and those waiting for accept stay within the
\* backlog (passive_open.rs:229), timed out handshakes included.
PendingWithinBacklog ==
    \A local \in Ports :
        Cardinality(passive[local].inflight) + Cardinality(passive[local].endpoints)
            =< passive[local].max_backlog

\* What the scheduler guarantees: a future that was woken is polled, and a
\* timer that is waited for runs out.
Fairness ==
    /\ \A qd \in QDs :
         /\ WF_vars(qd \in woken /\ PollConnect(qd))
         /\ WF_vars(qd \in woken /\ \E a \in accepts : a.new_qd = qd /\ PollAccept(a))
    /\ \A key \in Keys : WF_vars(ConnectTimeout(key))

FairSpec == Spec /\ Fairness

\* A connect operation on a socket that is not closed completes, with a
\* connection or with an error: whichever of the SYN+ACK, a reset and the
\* timeout comes last wakes the future that waits for the result.
ConnectCompletes ==
    \A qd \in QDs :
        (qd \in connects) ~> (qd \notin connects \/ sockets[qd].state = "None" \/ ~ Running)

\* An accept operation waiting on a listening socket gets a connection that
\* is ready, unless the socket is closed or another accept takes it
\* (lib.rs:230-236).
Unserved(qd) ==
    \E a \in accepts : /\ a.new_qd = qd /\ ~ a.failed
                       /\ sockets[a.qd].state = "Listening"
                       /\ passive[sockets[a.qd].local].ready # <<>>
AcceptServed == \A qd \in QDs : Unserved(qd) ~> (~ Unserved(qd) \/ ~ Running)
=============================================================================
