--------------------------- MODULE TcpPeerProofs ---------------------------
(***************************************************************************)
(* The socket tables of TcpPeer stay consistent, for every set of          *)
(* descriptors, remote addresses, ports and backlogs.                      *)
(*                                                                         *)
(* TablesConsistent is not inductive: that the insertions never meet an    *)
(* existing entry follows from who may own a local address, from which     *)
(* connections a listener may still hand out, and from the precedence of   *)
(* the established table when a segment is routed.  The conjuncts of IInv  *)
(* say so, one per table or pair of tables.                                *)
(***************************************************************************)
EXTENDS TcpPeer, FiniteSetTheorems, TLAPS

Key(qd) == <<sockets[qd].local, sockets[qd].remote>>

\* The fields of a socket that its state gives a meaning.
SocketShapes ==
    \A qd \in QDs :
        /\ sockets[qd].state = "None" => sockets[qd].local = 0
        /\ sockets[qd].state \in {"Listening", "Connecting", "Established"} => sockets[qd].local # 0
        /\ sockets[qd].state \in {"Connecting", "Established"} => sockets[qd].remote \in Remotes

\* A port in the pool is nobody's.
PoolFree ==
    /\ ephemeral \subseteq NewEphemeralPorts
    /\ \A qd \in QDs : sockets[qd].local \notin ephemeral

\* endpoints holds the remotes of the connections in ready, each of which is
\* there once, and none of them is still in flight.
Sound(p) ==
    /\ p.inflight \cap p.endpoints = {}
    /\ \A i \in 1..Len(p.ready) : p.ready[i] # None => p.ready[i] \in p.endpoints
    /\ \A i, j \in 1..Len(p.ready) : (p.ready[i] = p.ready[j] /\ p.ready[i] # None) => i = j

ReadySound == \A local \in Ports : Sound(passive[local])

\* A listening socket has its passive entry, and nothing that entry still
\* holds is established.
ListeningBacked ==
    \A qd \in QDs : sockets[qd].state = "Listening" =>
        LET p == passive[sockets[qd].local]
        IN  /\ p.open
            /\ \A r \in p.inflight \cup p.endpoints : <<sockets[qd].local, r>> \notin established

\* The connection a connecting socket is about to get is not established yet.
ConnectingFresh ==
    \A qd \in QDs : (sockets[qd].state = "Connecting" /\ connecting[Key(qd)].result = "ok")
                    => Key(qd) \notin established

\* An established socket has its entry.
EstablishedBacked ==
    \A qd \in QDs : sockets[qd].state = "Established" => Key(qd) \in established

IInv ==
    /\ TypeOK
    /\ SocketShapes
    /\ PoolFree
    /\ DescriptorsHeld
    /\ AddressesExclusive
    /\ ReadySound
    /\ ListeningBacked
    /\ ConnectingFresh
    /\ EstablishedBacked
    /\ OneDescriptorPerConnection
    /\ TablesConsistent
-----------------------------------------------------------------------------
(* Facts about the tables.                                                 *)

\* An address a socket takes without sharing it stays exclusive.
LEMMA ExclusiveAfter ==
    ASSUME AddressesExclusive, NEW qd \in QDs,
           \A q \in QDs : q # qd => sockets'[q] = sockets[q],
           \A q \in QDs : q # qd => sockets'[qd].local = 0 \/ sockets[q].local # sockets'[qd].local
    PROVE  AddressesExclusive'
<1>. SUFFICES ASSUME NEW q1 \in QDs, NEW q2 \in QDs, q1 # q2,
                     sockets'[q1].local = sockets'[q2].local, sockets'[q1].local # 0
              PROVE  \/ /\ sockets'[q1].state = "Established"
                        /\ sockets'[q2].state \in {"Established", "Listening"}
                     \/ sockets'[q2].state = "Established" /\ sockets'[q1].state = "Listening"
  BY Zenon DEF AddressesExclusive
<1>1. CASE q1 = qd
  BY <1>1, Zenon
<1>2. CASE q2 = qd
  BY <1>2, Zenon
<1>3. CASE q1 # qd /\ q2 # qd
  BY <1>3 DEF AddressesExclusive
<1>. QED  BY <1>1, <1>2, <1>3, Zenon

\* A socket that is not established, or has a connection of its own, does not
\* come to share one.
LEMMA OneDescriptorAfter ==
    ASSUME OneDescriptorPerConnection, NEW qd \in QDs,
           \A q \in QDs : q # qd => sockets'[q] = sockets[q],
           \A q \in QDs : (q # qd /\ sockets'[qd].state = "Established" /\ sockets[q].state = "Established")
                           => <<sockets[q].local, sockets[q].remote>> # <<sockets'[qd].local, sockets'[qd].remote>>
    PROVE  OneDescriptorPerConnection'
<1>. SUFFICES ASSUME NEW q1 \in QDs, NEW q2 \in QDs, q1 # q2,
                     sockets'[q1].state = "Established", sockets'[q2].state = "Established"
              PROVE  <<sockets'[q1].local, sockets'[q1].remote>> # <<sockets'[q2].local, sockets'[q2].remote>>
  BY Zenon DEF OneDescriptorPerConnection
<1>1. CASE q1 = qd
  BY <1>1, Zenon
<1>2. CASE q2 = qd
  BY <1>2, Zenon
<1>3. CASE q1 # qd /\ q2 # qd
  BY <1>3, ZenonT(30) DEF OneDescriptorPerConnection
<1>. QED  BY <1>1, <1>2, <1>3, Zenon

\* The tables start empty.
LEMMA InitIInv == Init => IInv
<1>. SUFFICES ASSUME Init PROVE IInv
  BY Zenon
<1>1. NoSocket \in Sockets /\ NoSocket.state = "None" /\ NoSocket.local = 0
  BY PeerAssumption DEF NoSocket, Sockets
<1>2. \A qd \in QDs : sockets[qd] = NoSocket
  BY Zenon DEF Init
<1>3. \A p \in Ports : passive[p] = NoPassive
  BY Zenon DEF Init
<1>4. NoPassive \in PassiveSockets
  BY DEF NoPassive, PassiveSockets
<1>5. NoActiveOpen \in ActiveOpens
  BY Zenon DEF NoActiveOpen, ActiveOpens
<1>6. NewEphemeralPorts \subseteq Ports /\ 0 \notin NewEphemeralPorts
  BY PeerAssumption DEF NewEphemeralPorts, Ports
<1>7. TypeOK
  BY <1>1, <1>4, <1>5, <1>6, Zenon DEF Init, TypeOK
<1>8. SocketShapes /\ PoolFree /\ DescriptorsHeld /\ AddressesExclusive
  BY <1>1, <1>2, <1>6, Zenon DEF Init, SocketShapes, PoolFree, DescriptorsHeld, AddressesExclusive
<1>9. ReadySound
  BY <1>3 DEF ReadySound, Sound, NoPassive
<1>10. ListeningBacked /\ ConnectingFresh /\ EstablishedBacked /\ OneDescriptorPerConnection
  BY <1>1, <1>2, Zenon DEF ListeningBacked, ConnectingFresh, EstablishedBacked, OneDescriptorPerConnection
<1>11. TablesConsistent
  BY Zenon DEF Init, TablesConsistent
<1>. QED  BY <1>7, <1>8, <1>9, <1>10, <1>11, Zenon DEF IInv

\* socket hands out a descriptor nobody uses, or finds it in the table.
LEMMA SocketStep ==
    ASSUME IInv, NEW qd \in QDs, Socket(qd)
    PROVE  IInv'
<1>. USE DEF IInv
<1>1. sockets[qd].state = "None" /\ sockets[qd].local = 0 /\ sockets[qd] \in Sockets
  BY Zenon DEF Socket, DescriptorsHeld, SocketShapes, TypeOK
<1>2. /\ sockets'[qd] = [sockets[qd] EXCEPT !.state = "Inactive"]
      /\ \A q \in QDs : q # qd => sockets'[q] = sockets[q]
      /\ file_table' = file_table \cup {qd}
  BY <1>1, Zenon DEF Socket, TypeOK
<1>3. /\ sockets'[qd].state = "Inactive" /\ sockets'[qd].local = 0
      /\ sockets'[qd] \in Sockets
  BY <1>1, <1>2, Zenon DEF Sockets
<1>4. TypeOK'
  BY <1>1, <1>2, <1>3, Zenon DEF Socket, TypeOK
<1>5. SocketShapes' /\ PoolFree'
  BY <1>2, <1>3, PeerAssumption DEF Socket, SocketShapes, PoolFree, NewEphemeralPorts
<1>6. DescriptorsHeld'
  BY <1>2, <1>3 DEF Socket, DescriptorsHeld, TypeOK, Accepts
<1>7. AddressesExclusive'
  BY <1>2, <1>3, ExclusiveAfter, Zenon
<1>10. OneDescriptorPerConnection'
  BY <1>2, <1>3, OneDescriptorAfter, Zenon
<1>8. ReadySound' /\ TablesConsistent'
  BY Zenon DEF Socket, ReadySound, TablesConsistent
<1>9. ListeningBacked' /\ EstablishedBacked' /\ ConnectingFresh'
  BY <1>2, <1>3 DEF Socket, ListeningBacked, EstablishedBacked, ConnectingFresh, Key
<1>. QED  BY <1>4, <1>5, <1>6, <1>7, <1>8, <1>9, <1>10, Zenon

\* bind takes an address no socket has and a private port out of the pool.
LEMMA BindStep ==
    ASSUME IInv, NEW qd \in QDs, NEW port \in 0..LAST_PRIVATE_PORT, Bind(qd, port)
    PROVE  IInv'
<1>. USE DEF IInv
<1>1. PICK p \in Bindable(port) :
        LET unbound == sockets[qd].state = "Inactive" /\ sockets[qd].local = 0
        IN  /\ sockets' = [sockets EXCEPT ![qd].local = IF unbound THEN p ELSE @]
            /\ ephemeral' = IF unbound THEN alloc_port(p) ELSE free_port(alloc_port(p), p)
  BY Zenon DEF Bind
<1>2. /\ p \in Ports
      /\ p >= FIRST_PRIVATE_PORT => p \in ephemeral
      /\ \A q \in QDs : sockets[q].local # p
  <2>1. CASE port = 0
    <3>1. p \in ephemeral
      BY <2>1, Zenon DEF Bindable
    <3>. QED  BY <3>1, PeerAssumption, Zenon DEF PoolFree, NewEphemeralPorts, TypeOK, Ports
  <2>2. CASE port # 0
    <3>1. p = port /\ (p >= FIRST_PRIVATE_PORT => p \in ephemeral)
      BY <2>2, Zenon DEF Bindable, is_private
    <3>2. \A q \in QDs : sockets[q].local # p
      BY <2>2, <3>1, Zenon DEF Bind, Bound, SocketShapes
    <3>. QED  BY <2>2, <3>1, <3>2, PeerAssumption DEF Ports
  <2>. QED  BY <2>1, <2>2, Zenon
<1>3. CASE ~ (sockets[qd].state = "Inactive" /\ sockets[qd].local = 0)
  <2>1. ephemeral' = ephemeral
    BY <1>1, <1>2, <1>3, Zenon DEF alloc_port, free_port, is_private
  <2>2. sockets' = sockets
    BY <1>1, <1>3, Zenon DEF TypeOK, Sockets
  <2>3. TypeOK' /\ SocketShapes' /\ PoolFree' /\ DescriptorsHeld' /\ AddressesExclusive'
    BY <2>1, <2>2, ZenonT(30) DEF Bind, TypeOK, SocketShapes, PoolFree, DescriptorsHeld, AddressesExclusive
  <2>4. ReadySound' /\ ListeningBacked' /\ ConnectingFresh' /\ EstablishedBacked'
    BY <2>2, Zenon DEF Bind, ReadySound, ListeningBacked, ConnectingFresh, EstablishedBacked, Key
  <2>5. OneDescriptorPerConnection' /\ TablesConsistent'
    BY <2>2, Zenon DEF Bind, OneDescriptorPerConnection, TablesConsistent
  <2>. QED  BY <2>3, <2>4, <2>5, Zenon
<1>4. CASE sockets[qd].state = "Inactive" /\ sockets[qd].local = 0
  <2>1. ephemeral' = ephemeral \ {p}
    BY <1>1, <1>2, <1>4 DEF alloc_port, is_private, PoolFree, NewEphemeralPorts
  <2>2. /\ sockets'[qd] = [sockets[qd] EXCEPT !.local = p]
        /\ \A q \in QDs : q # qd => sockets'[q] = sockets[q]
        /\ sockets[qd] \in Sockets
    BY <1>1, <1>4, Zenon DEF TypeOK
  <2>3. /\ sockets'[qd].state = "Inactive" /\ sockets'[qd].local = p
        /\ sockets'[qd] \in Sockets
    BY <1>2, <1>4, <2>2 DEF Sockets, Ports
  <2>4. TypeOK'
    BY <1>1, <2>1, <2>2, <2>3, Zenon DEF Bind, TypeOK
  <2>5. SocketShapes'
    BY <2>2, <2>3, Zenon DEF SocketShapes
  <2>6. PoolFree'
    BY <2>1, <2>2, <2>3, Zenon DEF PoolFree
  <2>7. DescriptorsHeld'
    BY <1>4, <2>2, <2>3, Zenon DEF Bind, DescriptorsHeld, TypeOK, Accepts
  <2>8. AddressesExclusive'
    BY <1>2, <2>2, <2>3, ExclusiveAfter, Zenon
  <2>9. ListeningBacked' /\ ConnectingFresh' /\ EstablishedBacked'
    BY <2>2, <2>3, ZenonT(30) DEF Bind, ListeningBacked, ConnectingFresh, EstablishedBacked, Key
  <2>10. OneDescriptorPerConnection'
    BY <2>2, <2>3, OneDescriptorAfter, Zenon
  <2>11. ReadySound' /\ TablesConsistent'
    BY Zenon DEF Bind, ReadySound, TablesConsistent
  <2>. QED  BY <2>4, <2>5, <2>6, <2>7, <2>8, <2>9, <2>10, <2>11, Zenon
<1>. QED  BY <1>3, <1>4, Zenon

\* listen puts an empty passive socket behind a bound address.
LEMMA ListenStep ==
    ASSUME IInv, NEW qd \in QDs, NEW backlog \in Backlogs, Listen(qd, backlog)
    PROVE  IInv'
<1>. DEFINE local == sockets[qd].local
<1>. USE DEF IInv
<1>1. local \in Ports /\ sockets[qd] \in Sockets
  BY PeerAssumption DEF Listen, TypeOK, Sockets, Ports
<1>2. /\ sockets'[qd] = [sockets[qd] EXCEPT !.state = "Listening"]
      /\ \A q \in QDs : q # qd => sockets'[q] = sockets[q]
  BY Zenon DEF Listen, TypeOK
<1>3. /\ sockets'[qd].state = "Listening" /\ sockets'[qd].local = local
      /\ sockets'[qd] \in Sockets
  BY <1>1, <1>2, Zenon DEF Sockets
<1>4. /\ passive'[local] = NewPassive(backlog)
      /\ \A l \in Ports : l # local => passive'[l] = passive[l]
  BY <1>1, Zenon DEF Listen, TypeOK
<1>5. NewPassive(backlog) \in PassiveSockets
  <2>1. backlog \in Nat
    BY PeerAssumption, Zenon
  <2>. QED  BY <2>1 DEF NewPassive, PassiveSockets
<1>6. /\ NewPassive(backlog).open
      /\ NewPassive(backlog).inflight = {} /\ NewPassive(backlog).endpoints = {}
      /\ NewPassive(backlog).ready = <<>>
  BY Zenon DEF NewPassive
<1>7. TypeOK'
  BY <1>2, <1>3, <1>4, <1>5, Zenon DEF Listen, TypeOK
<1>8. SocketShapes' /\ PoolFree'
  BY <1>2, <1>3 DEF Listen, SocketShapes, PoolFree
<1>9. DescriptorsHeld'
  BY <1>2, <1>3, Zenon DEF Listen, DescriptorsHeld, TypeOK, Accepts
<1>10. AddressesExclusive'
  BY <1>2, <1>3 DEF Listen, AddressesExclusive
<1>11. ReadySound'
  <2>1. Sound(NewPassive(backlog))
    BY <1>6 DEF Sound
  <2>. QED  BY <1>4, <2>1, Zenon DEF ReadySound
<1>12. ListeningBacked'
  <2>. SUFFICES ASSUME NEW q \in QDs, sockets'[q].state = "Listening"
                PROVE  LET p == passive'[sockets'[q].local]
                       IN  /\ p.open
                           /\ \A r \in p.inflight \cup p.endpoints :
                                <<sockets'[q].local, r>> \notin established'
    BY Zenon DEF ListeningBacked
  <2>1. CASE q = qd
    BY <1>3, <1>4, <1>6, <2>1, Zenon
  <2>2. CASE q # qd
    <3>1. sockets[q].local # local /\ sockets[q].local \in Ports
      BY <1>1, <1>2, <2>2, PeerAssumption DEF Listen, AddressesExclusive, SocketShapes, TypeOK, Sockets, Ports
    <3>. QED  BY <1>2, <1>4, <2>2, <3>1 DEF Listen, ListeningBacked
  <2>. QED  BY <2>1, <2>2, Zenon
<1>13. ConnectingFresh' /\ EstablishedBacked'
  BY <1>2, <1>3 DEF Listen, ConnectingFresh, EstablishedBacked, Key
<1>14. OneDescriptorPerConnection'
  BY <1>2, <1>3, OneDescriptorAfter, Zenon
<1>15. TablesConsistent'
  BY Zenon DEF Listen, TablesConsistent
<1>. QED  BY <1>7, <1>8, <1>9, <1>10, <1>11, <1>12, <1>13, <1>14, <1>15, Zenon

\* accept books a descriptor that was free.
LEMMA AcceptStep ==
    ASSUME IInv, NEW qd \in QDs, NEW new_qd \in QDs, Accept(qd, new_qd)
    PROVE  IInv'
<1>. USE DEF IInv
<1>. DEFINE new == [qd |-> qd, new_qd |-> new_qd, failed |-> FALSE]
<1>0. new \in Accepts /\ new.new_qd = new_qd /\ accepts' = accepts \cup {new}
  BY Zenon DEF Accept, Accepts
<1>. HIDE DEF new
<1>1. TypeOK'
  BY <1>0, Zenon DEF Accept, Wake, TypeOK
<1>2. DescriptorsHeld'
  <2>1. \A b \in accepts : b.new_qd # new_qd
    BY Zenon DEF Accept, DescriptorsHeld
  <2>2. sockets[new_qd].state = "None"
    BY Zenon DEF Accept, DescriptorsHeld
  <2>. QED  BY <1>0, <2>1, <2>2, Zenon DEF Accept, DescriptorsHeld
<1>3. SocketShapes' /\ PoolFree' /\ AddressesExclusive' /\ OneDescriptorPerConnection'
  BY ZenonT(30) DEF Accept, SocketShapes, PoolFree, AddressesExclusive, OneDescriptorPerConnection
<1>4. ReadySound' /\ ListeningBacked' /\ ConnectingFresh' /\ EstablishedBacked' /\ TablesConsistent'
  BY Zenon DEF Accept, ReadySound, ListeningBacked, ConnectingFresh, EstablishedBacked, TablesConsistent, Key
<1>. QED  BY <1>1, <1>2, <1>3, <1>4, Zenon

\* connect takes the socket's own address or one from the pool.
LEMMA ConnectStep ==
    ASSUME IInv, NEW qd \in QDs, NEW remote \in Remotes, Connect(qd, remote)
    PROVE  IInv'
<1>. USE DEF IInv
<1>1. PICK p \in IF sockets[qd].local = 0 THEN ephemeral ELSE {sockets[qd].local} :
        LET leaked == connecting[<<p, remote>>].result # "absent"
        IN  /\ ephemeral' = IF sockets[qd].local = 0 THEN ephemeral \ {p} ELSE ephemeral
            /\ sockets' = [sockets EXCEPT ![qd] =
                 [state |-> "Connecting", local |-> p, remote |-> remote]]
            /\ connecting' = [connecting EXCEPT ![<<p, remote>>] = NewActiveOpen]
            /\ UNCHANGED failed
            /\ connects' = IF leaked THEN connects ELSE connects \cup {qd}
            /\ IF leaked THEN UNCHANGED woken ELSE Wake(qd)
  BY Zenon DEF Connect
<1>. DEFINE key == <<p, remote>>
            new == [state |-> "Connecting", local |-> p, remote |-> remote]
<1>2. p \in Ports /\ sockets[qd].state = "Inactive"
  <2>1. sockets[qd].local \in 0..LAST_PRIVATE_PORT
    BY Zenon DEF TypeOK, Sockets
  <2>2. CASE sockets[qd].local = 0
    BY <2>2, Zenon DEF Connect, TypeOK
  <2>3. CASE sockets[qd].local # 0
    <3>1. p = sockets[qd].local
      BY <2>3, Zenon
    <3>2. p \in Ports
      BY <2>1, <2>3, <3>1, PeerAssumption DEF Ports
    <3>. QED  BY <3>2, Zenon DEF Connect
  <2>. QED  BY <2>2, <2>3, Zenon
<1>3. \A q \in QDs : q # qd => sockets[q].local # p
  BY <1>1, <1>2, Zenon DEF PoolFree, AddressesExclusive, Ports
<1>4. /\ sockets'[qd] = new
      /\ \A q \in QDs : q # qd => sockets'[q] = sockets[q]
      /\ new \in Sockets
      /\ new.state = "Connecting" /\ new.local = p /\ new.remote = remote
  <2>1. new \in Sockets
    BY <1>2, PeerAssumption DEF Sockets, Ports
  <2>. QED  BY <1>1, <2>1, Zenon DEF TypeOK
<1>. HIDE DEF new
<1>5. /\ key \in Keys
      /\ connecting'[key] = NewActiveOpen
      /\ \A k \in Keys : k # key => connecting'[k] = connecting[k]
      /\ NewActiveOpen \in ActiveOpens /\ NewActiveOpen.result = "none"
  BY <1>1, <1>2, Zenon DEF TypeOK, Keys, NewActiveOpen, ActiveOpens
<1>6. TypeOK'
  <2>1. sockets' \in [QDs -> Sockets]
    BY <1>1, <1>4, Zenon DEF TypeOK
  <2>2. connecting' \in [Keys -> ActiveOpens]
    BY <1>1, <1>5, Zenon DEF TypeOK
  <2>3. ephemeral' \subseteq Ports
    BY <1>1, Zenon DEF TypeOK
  <2>4. woken' \subseteq QDs /\ connects' \subseteq QDs
    BY <1>1, Zenon DEF TypeOK, Wake
  <2>5. failed' \subseteq Panics
    BY <1>1, Zenon DEF TypeOK
  <2>. QED  BY <2>1, <2>2, <2>3, <2>4, <2>5, Zenon DEF Connect, TypeOK
<1>7. SocketShapes'
  BY <1>2, <1>4 DEF SocketShapes, Ports
<1>8. PoolFree'
  <2>1. CASE sockets[qd].local = 0
    <3>1. ephemeral' = ephemeral \ {p}
      BY <1>1, <2>1, Zenon
    <3>. QED  BY <1>4, <3>1, Zenon DEF PoolFree
  <2>2. CASE sockets[qd].local # 0
    <3>1. ephemeral' = ephemeral /\ p = sockets[qd].local
      BY <1>1, <2>2, Zenon
    <3>. QED  BY <1>4, <3>1, Zenon DEF PoolFree
  <2>. QED  BY <2>1, <2>2, Zenon
<1>9. DescriptorsHeld'
  BY <1>2, <1>4 DEF Connect, DescriptorsHeld, TypeOK, Accepts
<1>10. AddressesExclusive'
  BY <1>3, <1>4, ExclusiveAfter, Zenon
<1>11. OneDescriptorPerConnection'
  BY <1>4, OneDescriptorAfter, Zenon
<1>12. ReadySound'
  BY Zenon DEF Connect, ReadySound
<1>13. ListeningBacked'
  BY <1>4 DEF Connect, ListeningBacked
<1>16. EstablishedBacked'
  BY <1>4, Zenon DEF Connect, EstablishedBacked, Key
<1>14. ConnectingFresh'
  <2>. SUFFICES ASSUME NEW q \in QDs, sockets'[q].state = "Connecting",
                       connecting'[Key(q)'].result = "ok"
                PROVE  Key(q)' \notin established'
    BY Zenon DEF ConnectingFresh, Key
  <2>1. q # qd
    BY <1>4, <1>5, Zenon DEF Key
  <2>2. Key(q)' = Key(q) /\ Key(q) \in Keys /\ Key(q) # key
    <3>1. sockets[q].local \in Ports /\ sockets[q].remote \in Remotes
      BY <1>4, <2>1, PeerAssumption DEF Ports, TypeOK, Sockets, SocketShapes
    <3>. QED  BY <1>3, <1>4, <2>1, <3>1, Zenon DEF Key, Keys
  <2>3. sockets[q].state = "Connecting" /\ connecting[Key(q)].result = "ok"
    BY <1>4, <1>5, <2>1, <2>2, Zenon
  <2>. QED  BY <2>2, <2>3, Zenon DEF Connect, ConnectingFresh
<1>15. TablesConsistent'
  BY <1>1, Zenon DEF TablesConsistent
<1>. QED  BY <1>6, <1>7, <1>8, <1>9, <1>10, <1>11, <1>12, <1>13, <1>14, <1>15, <1>16, Zenon

\* close forgets the socket; its connection and its port stay taken.
LEMMA CloseStep ==
    ASSUME IInv, NEW qd \in QDs, Close(qd)
    PROVE  IInv'
<1>. USE DEF IInv
<1>1. /\ sockets'[qd] = NoSocket
      /\ \A q \in QDs : q # qd => sockets'[q] = sockets[q]
      /\ NoSocket \in Sockets /\ NoSocket.state = "None" /\ NoSocket.local = 0
  BY PeerAssumption DEF Close, TypeOK, NoSocket, Sockets
<1>2. TypeOK'
  BY <1>1, Zenon DEF Close, TypeOK
<1>3. SocketShapes'
  BY <1>1, Zenon DEF SocketShapes
<1>4. PoolFree'
  BY <1>1, PeerAssumption DEF Close, PoolFree, NewEphemeralPorts
<1>5. DescriptorsHeld'
  BY <1>1, Zenon DEF Close, DescriptorsHeld, TypeOK, Accepts
<1>6. AddressesExclusive'
  BY <1>1, ExclusiveAfter, Zenon
<1>7. OneDescriptorPerConnection'
  BY <1>1, OneDescriptorAfter, Zenon
<1>8. ListeningBacked' /\ ConnectingFresh' /\ EstablishedBacked'
  <2>1. UNCHANGED <<passive, connecting, established>>
    BY Zenon DEF Close
  <2>2. ListeningBacked'
    BY <1>1, <2>1, Zenon DEF ListeningBacked
  <2>3. ConnectingFresh'
    BY <1>1, <2>1, Zenon DEF ConnectingFresh, Key
  <2>4. EstablishedBacked'
    BY <1>1, <2>1, Zenon DEF EstablishedBacked, Key
  <2>. QED  BY <2>2, <2>3, <2>4, Zenon
<1>9. ReadySound' /\ TablesConsistent'
  BY Zenon DEF Close, ReadySound, TablesConsistent
<1>. QED  BY <1>2, <1>3, <1>4, <1>5, <1>6, <1>7, <1>8, <1>9, Zenon

\* A failed accept gives its descriptor back once.
LEMMA TakeFailedAcceptStep ==
    ASSUME IInv, NEW a \in accepts, TakeFailedAccept(a)
    PROVE  IInv'
<1>. USE DEF IInv
<1>1. TypeOK'
  BY Zenon DEF TakeFailedAccept, TypeOK
<1>2. DescriptorsHeld'
  BY Zenon DEF TakeFailedAccept, DescriptorsHeld, TypeOK, Accepts
<1>3. SocketShapes' /\ PoolFree' /\ AddressesExclusive' /\ OneDescriptorPerConnection'
  BY Zenon DEF TakeFailedAccept, SocketShapes, PoolFree, AddressesExclusive, OneDescriptorPerConnection
<1>4. ReadySound' /\ ListeningBacked' /\ TablesConsistent'
  BY Zenon DEF TakeFailedAccept, ReadySound, ListeningBacked, TablesConsistent
<1>5. ConnectingFresh' /\ EstablishedBacked'
  BY Zenon DEF TakeFailedAccept, ConnectingFresh, EstablishedBacked, Key
<1>. QED  BY <1>1, <1>2, <1>3, <1>4, <1>5, Zenon

\* Bookkeeping on passive sockets that leaves the connections they hold alone.
LEMMA SamePassive ==
    ASSUME ReadySound, ListeningBacked,
           \A l \in Ports : /\ passive'[l].open = passive[l].open
                            /\ passive'[l].inflight = passive[l].inflight
                            /\ passive'[l].endpoints = passive[l].endpoints
                            /\ passive'[l].ready = passive[l].ready,
           TypeOK, SocketShapes, sockets' = sockets, established' = established
    PROVE  ReadySound' /\ ListeningBacked'
<1>1. ReadySound'
  BY DEF ReadySound, Sound
<1>2. \A q \in QDs : sockets[q].state = "Listening" => sockets[q].local \in Ports
  BY PeerAssumption DEF TypeOK, SocketShapes, Sockets, Ports
<1>3. ListeningBacked'
  BY <1>2, Zenon DEF ListeningBacked
<1>. QED  BY <1>1, <1>3, Zenon

\* A failed accept keeps its descriptor until its result is taken.
LEMMA FailedAcceptHeld ==
    ASSUME DescriptorsHeld, TypeOK, NEW a \in accepts, AcceptFails(a),
           file_table' = file_table, sockets' = sockets
    PROVE  DescriptorsHeld' /\ accepts' \subseteq Accepts /\ woken' \subseteq QDs
<1>. DEFINE b == [a EXCEPT !.failed = TRUE]
<1>1. b \in Accepts /\ b.new_qd = a.new_qd /\ accepts' = (accepts \ {a}) \cup {b}
  BY Zenon DEF AcceptFails, TypeOK, Accepts
<1>. HIDE DEF b
<1>2. DescriptorsHeld'
  BY <1>1 DEF DescriptorsHeld
<1>. QED  BY <1>1, <1>2, Zenon DEF AcceptFails, TypeOK

\* A connection is handed over: an entry of ready, and its endpoint, go.
LEMMA ReadyPopped ==
    ASSUME TypeOK, ReadySound, NEW local \in Ports, passive[local].ready # <<>>,
           passive' = [passive EXCEPT ![local].ready = Tail(passive[local].ready),
                                      ![local].endpoints = @ \ {Head(passive[local].ready)}]
    PROVE  /\ passive' \in [Ports -> PassiveSockets]
           /\ ReadySound'
           /\ Head(passive[local].ready) \in Remotes \cup {None}
           /\ Head(passive[local].ready) # None => Head(passive[local].ready) \in passive[local].endpoints
           /\ \A l \in Ports : l # local => passive'[l] = passive[l]
           /\ passive'[local].open = passive[local].open
           /\ passive'[local].inflight = passive[local].inflight
           /\ passive'[local].endpoints = passive[local].endpoints \ {Head(passive[local].ready)}
<1>. DEFINE p == passive[local]
            new == [[p EXCEPT !.ready = Tail(p.ready)] EXCEPT !.endpoints = @ \ {Head(p.ready)}]
<1>1. p \in PassiveSockets
  BY Zenon DEF TypeOK
<1>2. /\ p.ready \in Seq(Remotes \cup {None}) /\ p.endpoints \subseteq Remotes
      /\ p.inflight \subseteq Remotes /\ p.open \in BOOLEAN
  BY <1>1, Zenon DEF PassiveSockets
<1>3. passive'[local] = new /\ \A l \in Ports : l # local => passive'[l] = passive[l]
  BY Zenon DEF TypeOK
<1>4. new.ready = Tail(p.ready) /\ new.endpoints = p.endpoints \ {Head(p.ready)}
      /\ new.inflight = p.inflight /\ new.open = p.open /\ new \in PassiveSockets
  <2>1. Tail(p.ready) \in Seq(Remotes \cup {None})
    BY <1>2
  <2>2. [p EXCEPT !.ready = Tail(p.ready)] \in PassiveSockets
    BY <1>1, <2>1, Zenon DEF PassiveSockets
  <2>3. new \in PassiveSockets
    BY <1>2, <2>2, Zenon DEF PassiveSockets
  <2>. QED  BY <1>1, <2>3, Zenon DEF PassiveSockets
<1>5. Head(p.ready) \in Remotes \cup {None} /\ Head(p.ready) = p.ready[1] /\ Len(p.ready) \in Nat \ {0}
  BY <1>2
<1>6. /\ Len(new.ready) = Len(p.ready) - 1
      /\ \A i \in 1..Len(new.ready) : new.ready[i] = p.ready[i + 1] /\ i + 1 \in 1..Len(p.ready)
  BY <1>2, <1>4, <1>5
<1>. HIDE DEF new
<1>7. /\ p.inflight \cap p.endpoints = {}
      /\ \A i \in 1..Len(p.ready) : p.ready[i] # None => p.ready[i] \in p.endpoints
      /\ \A i, j \in 1..Len(p.ready) : (p.ready[i] = p.ready[j] /\ p.ready[i] # None) => i = j
  BY Zenon DEF ReadySound, Sound
<1>8. \A i \in 1..Len(new.ready) : new.ready[i] # None => new.ready[i] \in new.endpoints
  <2>. SUFFICES ASSUME NEW i \in 1..Len(new.ready), new.ready[i] # None
                PROVE  new.ready[i] \in new.endpoints
    BY Zenon
  <2>1. new.ready[i] = p.ready[i + 1] /\ i + 1 \in 1..Len(p.ready)
    BY <1>6, Zenon
  <2>2. i + 1 # 1 /\ 1 \in 1..Len(p.ready)
    BY <1>5, <1>6
  <2>3. p.ready[i + 1] \in p.endpoints
    BY <1>7, <2>1, Zenon
  <2>4. p.ready[i + 1] # Head(p.ready)
    BY <1>5, <1>7, <2>1, <2>2, Zenon
  <2>. QED  BY <1>4, <2>1, <2>3, <2>4, Zenon
<1>9. \A i, j \in 1..Len(new.ready) : (new.ready[i] = new.ready[j] /\ new.ready[i] # None) => i = j
  <2>. SUFFICES ASSUME NEW i \in 1..Len(new.ready), NEW j \in 1..Len(new.ready),
                       new.ready[i] = new.ready[j], new.ready[i] # None
                PROVE  i = j
    BY Zenon
  <2>1. p.ready[i + 1] = p.ready[j + 1] /\ p.ready[i + 1] # None
        /\ i + 1 \in 1..Len(p.ready) /\ j + 1 \in 1..Len(p.ready)
    BY <1>6, Zenon
  <2>2. i + 1 = j + 1
    BY <1>7, <2>1, Zenon
  <2>. QED  BY <1>5, <1>6, <2>2
<1>10. ReadySound'
  <2>1. Sound(new)
    BY <1>4, <1>7, <1>8, <1>9, Zenon DEF Sound
  <2>. QED  BY <1>3, <2>1, Zenon DEF ReadySound
<1>11. Head(p.ready) # None => Head(p.ready) \in p.endpoints
  BY <1>5, <1>7
<1>12. passive' \in [Ports -> PassiveSockets]
  BY <1>3, <1>4, Zenon DEF TypeOK
<1>. QED  BY <1>3, <1>4, <1>5, <1>10, <1>11, <1>12, Zenon

\* The conjuncts that a step on one passive socket alone leaves alone.
LEMMA OnlyPassive ==
    ASSUME IInv, UNCHANGED <<file_table, sockets, ephemeral, connecting, established, accepts, connects, failed>>,
           NEW local \in Ports, NEW p \in PassiveSockets, Sound(p),
           passive' = [passive EXCEPT ![local] = p], p.open = passive[local].open,
           \A r \in p.inflight \cup p.endpoints :
              r \in passive[local].inflight \cup passive[local].endpoints \/ <<local, r>> \notin established,
           woken' \subseteq QDs
    PROVE  IInv'
<1>. USE DEF IInv
<1>1. passive'[local] = p /\ \A l \in Ports : l # local => passive'[l] = passive[l]
  BY Zenon DEF TypeOK
<1>2. TypeOK'
  BY <1>1, Zenon DEF TypeOK
<1>3. SocketShapes' /\ PoolFree' /\ AddressesExclusive' /\ OneDescriptorPerConnection' /\ DescriptorsHeld'
  BY DEF SocketShapes, PoolFree, AddressesExclusive, OneDescriptorPerConnection, DescriptorsHeld
<1>4. ReadySound'
  BY <1>1, Zenon DEF ReadySound
<1>5. ListeningBacked'
  <2>1. \A q \in QDs : sockets[q].state = "Listening" => sockets[q].local \in Ports
    BY PeerAssumption DEF TypeOK, SocketShapes, Sockets, Ports
  <2>. QED  BY <1>1, <2>1 DEF ListeningBacked
<1>6. ConnectingFresh' /\ EstablishedBacked' /\ TablesConsistent'
  BY Zenon DEF ConnectingFresh, EstablishedBacked, TablesConsistent, Key
<1>. QED  BY <1>2, <1>3, <1>4, <1>5, <1>6, Zenon

\* The socket tables when poll_accept turns a ready connection of the
\* listener lq into the established socket nq.
LEMMA HandOver ==
    ASSUME IInv, NEW lq \in QDs, NEW nq \in QDs, NEW local \in Ports, NEW remote \in Remotes,
           sockets[lq].state = "Listening", sockets[lq].local = local,
           sockets[nq].state = "None", remote \in passive[local].endpoints,
           sockets' = [sockets EXCEPT ![nq] =
                         [state |-> "Established", local |-> local, remote |-> remote]],
           established' = established \cup {<<local, remote>>},
           ephemeral' = ephemeral, connecting' = connecting,
           \A l \in Ports : l # local => passive'[l] = passive[l],
           passive'[local].open = passive[local].open,
           passive'[local].inflight = passive[local].inflight,
           passive'[local].endpoints = passive[local].endpoints \ {remote}
    PROVE  /\ sockets' \in [QDs -> Sockets] /\ <<local, remote>> \in Keys
           /\ SocketShapes' /\ PoolFree' /\ AddressesExclusive' /\ OneDescriptorPerConnection'
           /\ ListeningBacked' /\ ConnectingFresh' /\ EstablishedBacked'
<1>. USE DEF IInv
<1>. DEFINE key == <<local, remote>>
            new == [state |-> "Established", local |-> local, remote |-> remote]
<1>1. new \in Sockets /\ key \in Keys /\ local # 0
  BY PeerAssumption DEF Sockets, Ports, Keys
<1>2. /\ sockets'[nq].state = "Established"
      /\ sockets'[nq].local = local
      /\ sockets'[nq].remote = remote
      /\ sockets' \in [QDs -> Sockets]
      /\ \A q \in QDs : q # nq => sockets'[q] = sockets[q]
  BY <1>1, Zenon DEF TypeOK
<1>3. key \notin established /\ remote \notin passive[local].inflight
  BY Zenon DEF ListeningBacked, ReadySound, Sound
<1>4. \A q \in QDs : (q # nq /\ sockets[q].local = local)
                     => sockets[q].state \in {"Listening", "Established"}
  <2>. SUFFICES ASSUME NEW q \in QDs, q # nq, sockets[q].local = local
                PROVE  sockets[q].state \in {"Listening", "Established"}
    BY Zenon
  <2>1. CASE q = lq
    BY <2>1, Zenon
  <2>2. CASE q # lq
    BY <1>1, <2>2 DEF AddressesExclusive
  <2>. QED  BY <2>1, <2>2, Zenon
<1>5. SocketShapes'
  BY <1>1, <1>2, Zenon DEF SocketShapes
<1>6. PoolFree'
  BY <1>2, Zenon DEF PoolFree
<1>7. AddressesExclusive'
  <2>. SUFFICES ASSUME NEW q1 \in QDs, NEW q2 \in QDs, q1 # q2,
                       sockets'[q1].local = sockets'[q2].local, sockets'[q1].local # 0
                PROVE  \/ /\ sockets'[q1].state = "Established"
                          /\ sockets'[q2].state \in {"Established", "Listening"}
                       \/ sockets'[q2].state = "Established" /\ sockets'[q1].state = "Listening"
    BY DEF AddressesExclusive
  <2>1. CASE q1 = nq
    BY <1>2, <1>4, <2>1, Zenon
  <2>2. CASE q2 = nq
    BY <1>2, <1>4, <2>2, Zenon
  <2>3. CASE q1 # nq /\ q2 # nq
    BY <1>2, <2>3 DEF AddressesExclusive
  <2>. QED  BY <2>1, <2>2, <2>3, Zenon
<1>8. OneDescriptorPerConnection'
  <2>1. \A q \in QDs : sockets[q].state = "Established"
                       => <<sockets[q].local, sockets[q].remote>> # key
    BY <1>3, Zenon DEF EstablishedBacked, Key
  <2>. QED  BY <1>2, <2>1, OneDescriptorAfter
<1>9. ListeningBacked'
  <2>. SUFFICES ASSUME NEW q \in QDs, sockets'[q].state = "Listening"
                PROVE  /\ passive'[sockets'[q].local].open
                       /\ \A r \in passive'[sockets'[q].local].inflight
                                     \cup passive'[sockets'[q].local].endpoints :
                            <<sockets'[q].local, r>> \notin established'
    BY Zenon DEF ListeningBacked
  <2>1. /\ sockets'[q] = sockets[q] /\ sockets[q].state = "Listening"
        /\ sockets[q].local \in Ports
    BY <1>2, PeerAssumption DEF TypeOK, SocketShapes, Sockets, Ports
  <2>2. /\ passive[sockets[q].local].open
        /\ \A r \in passive[sockets[q].local].inflight \cup passive[sockets[q].local].endpoints :
             <<sockets[q].local, r>> \notin established
    BY <2>1, Zenon DEF ListeningBacked
  <2>3. CASE sockets[q].local # local
    <3>1. passive'[sockets[q].local] = passive[sockets[q].local]
      BY <2>1, <2>3, Zenon
    <3>2. \A r : <<sockets[q].local, r>> # key
      BY <2>3, Zenon
    <3>. QED  BY <2>1, <2>2, <3>1, <3>2
  <2>4. CASE sockets[q].local = local
    <3>1. \A r \in passive'[local].inflight \cup passive'[local].endpoints :
            r # remote /\ r \in passive[local].inflight \cup passive[local].endpoints
      BY <1>3, Zenon
    <3>. QED  BY <2>1, <2>2, <2>4, <3>1
  <2>. QED  BY <2>3, <2>4, Zenon
<1>10. ConnectingFresh'
  <2>1. \A q \in QDs : (q # nq /\ sockets[q].state = "Connecting") => Key(q) # key
    BY <1>4, Zenon DEF Key
  <2>2. \A q \in QDs : q # nq => Key(q)' = Key(q)
    BY <1>2, Zenon DEF Key
  <2>. QED  BY <1>2, <2>1, <2>2 DEF ConnectingFresh
<1>11. EstablishedBacked'
  <2>1. Key(nq)' = key
    BY <1>2, Zenon DEF Key
  <2>2. \A q \in QDs : q # nq => Key(q)' = Key(q)
    BY <1>2 DEF Key
  <2>. QED  BY <1>2, <2>1, <2>2, ZenonT(30) DEF EstablishedBacked
<1>. QED  BY <1>1, <1>2, <1>5, <1>6, <1>7, <1>8, <1>9, <1>10, <1>11, Zenon

\* A poll that fails the accept changes no table.
LEMMA AcceptFailsStep ==
    ASSUME IInv, NEW a \in accepts, AcceptFails(a),
           UNCHANGED <<file_table, ephemeral, connecting, connects, sockets, established, failed>>,
           ReadySound', ListeningBacked', passive' \in [Ports -> PassiveSockets]
    PROVE  IInv'
<1>. USE DEF IInv
<1>1. DescriptorsHeld' /\ accepts' \subseteq Accepts /\ woken' \subseteq QDs
  BY FailedAcceptHeld, Zenon
<1>2. TypeOK'
  BY <1>1, Zenon DEF TypeOK
<1>3. SocketShapes' /\ PoolFree' /\ AddressesExclusive' /\ OneDescriptorPerConnection'
  BY ZenonT(30) DEF SocketShapes, PoolFree, AddressesExclusive, OneDescriptorPerConnection
<1>4. ConnectingFresh' /\ EstablishedBacked' /\ TablesConsistent'
  BY Zenon DEF ConnectingFresh, EstablishedBacked, TablesConsistent, Key
<1>. QED  BY <1>1, <1>2, <1>3, <1>4, Zenon

\* A poll that finds an entry in ready.
LEMMA AcceptReadyStep ==
    ASSUME IInv, NEW a \in accepts, NEW local \in Ports,
           sockets[a.qd].state = "Listening", sockets[a.qd].local = local,
           passive[local].ready # <<>>, AcceptReady(a, local),
           UNCHANGED <<file_table, ephemeral, connecting, connects>>
    PROVE  IInv'
<1>1. a.qd \in QDs /\ a.new_qd \in QDs /\ a \in Accepts
  BY Zenon DEF IInv, TypeOK, Accepts
<1>2. PICK remote : remote = Head(passive[local].ready)
  BY Zenon
<1>3. passive' = [passive EXCEPT ![local].ready = Tail(passive[local].ready),
                                 ![local].endpoints = @ \ {Head(passive[local].ready)}]
  BY Zenon DEF AcceptReady
<1>4. /\ passive' \in [Ports -> PassiveSockets]
      /\ ReadySound'
      /\ remote \in Remotes \cup {None}
      /\ remote # None => remote \in passive[local].endpoints
      /\ \A l \in Ports : l # local => passive'[l] = passive[l]
      /\ passive'[local].open = passive[local].open
      /\ passive'[local].inflight = passive[local].inflight
      /\ passive'[local].endpoints = passive[local].endpoints \ {remote}
  BY <1>2, <1>3, ReadyPopped, Zenon DEF IInv
<1>5. CASE remote = None
  <2>1. AcceptFails(a) /\ UNCHANGED <<sockets, established, failed>>
    BY <1>2, <1>5, Zenon DEF AcceptReady
  <2>2. \A q \in QDs : sockets[q].state = "Listening" => sockets[q].local \in Ports
    BY PeerAssumption DEF IInv, TypeOK, SocketShapes, Sockets, Ports
  <2>3. ListeningBacked'
    BY <1>4, <2>1, <2>2, ZenonT(30) DEF IInv, ListeningBacked
  <2>. QED  BY <1>4, <2>1, <2>3, AcceptFailsStep, Zenon
<1>6. CASE remote # None
  <2>1. /\ sockets' = [sockets EXCEPT ![a.new_qd] =
             [state |-> "Established", local |-> local, remote |-> remote]]
        /\ established' = established \cup {<<local, remote>>}
        /\ accepts' = accepts \ {a}
        /\ woken' = woken \ {a.new_qd}
        /\ failed' = failed \cup
             {name \in Panics :
                \/ name = "endpoints.remove" /\ remote \notin passive[local].endpoints
                \/ name = "duplicate queue descriptor in sockets table"
                   /\ sockets[a.new_qd].state # "None"
                \/ name = "duplicate queue descriptor in established sockets table"
                   /\ <<local, remote>> \in established}
    BY <1>2, <1>6, Zenon DEF AcceptReady
  <2>2. remote \in Remotes /\ remote \in passive[local].endpoints /\ <<local, remote>> \notin established
    BY <1>1, <1>4, <1>6, Zenon DEF IInv, ListeningBacked
  <2>3. sockets[a.new_qd].state = "None" /\ a.new_qd # a.qd /\ a.new_qd \in file_table
    BY Zenon DEF IInv, DescriptorsHeld
  <2>4. failed' = failed
    BY <2>1, <2>2, <2>3, Zenon
  <2>5. /\ sockets' \in [QDs -> Sockets] /\ <<local, remote>> \in Keys
        /\ SocketShapes' /\ PoolFree' /\ AddressesExclusive' /\ OneDescriptorPerConnection'
        /\ ListeningBacked' /\ ConnectingFresh' /\ EstablishedBacked'
    BY <1>1, <1>4, <2>1, <2>2, <2>3, HandOver, ZenonT(30)
  <2>6. TypeOK'
    BY <1>4, <2>1, <2>4, <2>5, Zenon DEF IInv, TypeOK
  <2>7. DescriptorsHeld'
    <3>1. \A q \in QDs : q # a.new_qd => sockets'[q] = sockets[q]
      BY <2>1, Zenon DEF IInv, TypeOK
    <3>2. \A b \in accepts' : b \in accepts /\ b.new_qd # a.new_qd /\ b.new_qd \in QDs
      BY <2>1, Zenon DEF IInv, DescriptorsHeld, TypeOK, Accepts
    <3>. QED  BY <2>3, <3>1, <3>2, Zenon DEF IInv, DescriptorsHeld
  <2>8. TablesConsistent'
    BY <2>4, Zenon DEF IInv, TablesConsistent
  <2>. QED  BY <1>4, <2>5, <2>6, <2>7, <2>8, Zenon DEF IInv
<1>. QED  BY <1>5, <1>6, Zenon

\* poll_accept, by its four branches.
LEMMA PollAcceptStep ==
    ASSUME IInv, NEW a \in accepts, PollAccept(a)
    PROVE  IInv'
<1>1. a.qd \in QDs /\ a.new_qd \in QDs
  BY Zenon DEF IInv, TypeOK, Accepts
<1>2. PICK local : local = sockets[a.qd].local
  BY Zenon
<1>3. sockets[a.qd].state = "Listening" => local \in Ports
  BY <1>1, <1>2, PeerAssumption DEF IInv, TypeOK, SocketShapes, Sockets, Ports
<1>4. UNCHANGED <<file_table, ephemeral, connecting, connects>>
  BY Zenon DEF PollAccept
<1>5. CASE sockets[a.qd].state # "Listening"
  <2>1. AcceptFails(a) /\ UNCHANGED <<sockets, passive, established, failed>>
    BY <1>5, Zenon DEF PollAccept
  <2>2. ReadySound' /\ ListeningBacked' /\ passive' \in [Ports -> PassiveSockets]
    BY <2>1, SamePassive, Zenon DEF IInv, TypeOK
  <2>. QED  BY <1>4, <2>1, <2>2, AcceptFailsStep, Zenon
<1>6. CASE sockets[a.qd].state = "Listening" /\ ~ passive[local].open
  BY <1>1, <1>2, <1>6, Zenon DEF IInv, ListeningBacked
<1>7. CASE sockets[a.qd].state = "Listening" /\ passive[local].open /\ passive[local].ready = <<>>
  <2>. DEFINE new == [passive[local] EXCEPT !.waker = a.new_qd]
  <2>1. /\ passive' = [passive EXCEPT ![local] = new]
        /\ woken' = woken \ {a.new_qd}
        /\ UNCHANGED <<sockets, established, accepts, failed>>
    BY <1>2, <1>7, Zenon DEF PollAccept
  <2>2. passive[local] \in PassiveSockets /\ Sound(passive[local])
    BY <1>3, <1>7, Zenon DEF IInv, TypeOK, ReadySound
  <2>3. /\ new \in PassiveSockets
        /\ new.open = passive[local].open /\ new.inflight = passive[local].inflight
        /\ new.endpoints = passive[local].endpoints /\ new.ready = passive[local].ready
    BY <1>1, <2>2, Zenon DEF PassiveSockets
  <2>. HIDE DEF new
  <2>4. Sound(new)
    BY <2>2, <2>3, Zenon DEF Sound
  <2>5. woken' \subseteq QDs
    BY <2>1, Zenon DEF IInv, TypeOK
  <2>. QED  BY <1>3, <1>4, <1>7, <2>1, <2>3, <2>4, <2>5, OnlyPassive, Zenon
<1>8. CASE sockets[a.qd].state = "Listening" /\ passive[local].open /\ passive[local].ready # <<>>
  <2>1. AcceptReady(a, local)
    BY <1>2, <1>8, Zenon DEF PollAccept
  <2>. QED  BY <1>2, <1>3, <1>4, <1>8, <2>1, AcceptReadyStep, Zenon
<1>. QED  BY <1>5, <1>6, <1>7, <1>8, Zenon

\* An entry of the connecting table changes; a connection it brings is new.
LEMMA ConnectingChanged ==
    ASSUME TypeOK, SocketShapes, ConnectingFresh, NEW key \in Keys, NEW e \in ActiveOpens,
           connecting' = [connecting EXCEPT ![key] = e],
           e.result = "ok" => (key \notin established \/ connecting[key].result = "ok"),
           sockets' = sockets, established' = established
    PROVE  connecting' \in [Keys -> ActiveOpens] /\ ConnectingFresh'
<1>1. /\ connecting' \in [Keys -> ActiveOpens]
      /\ connecting'[key] = e
      /\ \A k \in Keys : k # key => connecting'[k] = connecting[k]
  BY Zenon DEF TypeOK
<1>2. \A q \in QDs : sockets[q].state = "Connecting" => Key(q) \in Keys /\ Key(q)' = Key(q)
  BY PeerAssumption DEF TypeOK, SocketShapes, Sockets, Keys, Ports, Key
<1>3. ConnectingFresh'
  <2>. SUFFICES ASSUME NEW q \in QDs, sockets'[q].state = "Connecting",
                       connecting'[Key(q)'].result = "ok"
                PROVE  Key(q)' \notin established'
    BY Zenon DEF ConnectingFresh
  <2>1. sockets[q].state = "Connecting" /\ Key(q) \in Keys /\ Key(q)' = Key(q)
    BY <1>2, Zenon
  <2>2. CASE Key(q) = key
    BY <1>1, <2>1, <2>2, Zenon DEF ConnectingFresh
  <2>3. CASE Key(q) # key
    BY <1>1, <2>1, <2>3, Zenon DEF ConnectingFresh
  <2>. QED  BY <2>2, <2>3, Zenon
<1>. QED  BY <1>1, <1>3, Zenon

\* The conjuncts that a step on the connecting table alone leaves alone.
LEMMA OnlyConnecting ==
    ASSUME IInv, UNCHANGED <<file_table, sockets, ephemeral, passive, established, accepts>>,
           connecting' \in [Keys -> ActiveOpens], ConnectingFresh', connects' \subseteq QDs,
           woken' \subseteq QDs, failed' \subseteq Panics, TablesConsistent'
    PROVE  IInv'
<1>. USE DEF IInv
<1>1. TypeOK'
  BY Zenon DEF TypeOK
<1>2. SocketShapes' /\ PoolFree' /\ AddressesExclusive' /\ OneDescriptorPerConnection' /\ DescriptorsHeld'
  BY DEF SocketShapes, PoolFree, AddressesExclusive, OneDescriptorPerConnection, DescriptorsHeld
<1>3. ReadySound' /\ ListeningBacked' /\ EstablishedBacked'
  BY Zenon DEF ReadySound, ListeningBacked, EstablishedBacked, Key
<1>. QED  BY <1>1, <1>2, <1>3, Zenon

\* A timeout sets a result in the connecting table.
LEMMA ConnectTimeoutStep ==
    ASSUME IInv, NEW key \in Keys, ConnectTimeout(key)
    PROVE  IInv'
<1>. DEFINE e == [result |-> "err", timer |-> FALSE, waker |-> None]
<1>1. e \in ActiveOpens /\ e.result # "ok"
  BY Zenon DEF ActiveOpens
<1>2. connecting' = [connecting EXCEPT ![key] = e]
  BY Zenon DEF ConnectTimeout, SetResult
<1>3. woken' \subseteq QDs
  BY Zenon DEF ConnectTimeout, SetResult, Wake, IInv, TypeOK, ActiveOpens
<1>. HIDE DEF e
<1>4. connecting' \in [Keys -> ActiveOpens] /\ ConnectingFresh'
  BY <1>1, <1>2, ConnectingChanged, Zenon DEF ConnectTimeout, IInv
<1>5. TablesConsistent' /\ failed' \subseteq Panics /\ connects' \subseteq QDs
  BY Zenon DEF ConnectTimeout, IInv, TablesConsistent, TypeOK
<1>. QED  BY <1>3, <1>4, <1>5, OnlyConnecting, Zenon DEF ConnectTimeout

\* So does a segment for a connecting socket.
LEMMA ReceiveConnectingStep ==
    ASSUME IInv, NEW key \in Keys, NEW h \in Headers, NEW resolved \in BOOLEAN,
           ReceiveConnecting(key, h, resolved)
    PROVE  IInv'
<1>1. /\ UNCHANGED <<file_table, sockets, ephemeral, passive, established, accepts, connects>>
      /\ key \notin established /\ connects' \subseteq QDs
  BY Zenon DEF ReceiveConnecting, IInv, TypeOK
<1>2. ASSUME NEW result \in {"err", "ok"}, SetResult(key, result, connecting[key].timer), UNCHANGED failed
      PROVE  IInv'
  <2>. DEFINE e == [result |-> result, timer |-> connecting[key].timer, waker |-> None]
  <2>1. e \in ActiveOpens /\ connecting' = [connecting EXCEPT ![key] = e]
    BY <1>2, Zenon DEF SetResult, ActiveOpens, IInv, TypeOK
  <2>2. woken' \subseteq QDs
    BY <1>2, Zenon DEF SetResult, Wake, IInv, TypeOK, ActiveOpens
  <2>. HIDE DEF e
  <2>3. connecting' \in [Keys -> ActiveOpens] /\ ConnectingFresh'
    BY <1>1, <2>1, ConnectingChanged, Zenon DEF IInv
  <2>4. TablesConsistent' /\ failed' \subseteq Panics
    BY <1>2, Zenon DEF IInv, TablesConsistent, TypeOK
  <2>. QED  BY <1>1, <2>2, <2>3, <2>4, OnlyConnecting, Zenon
<1>3. ASSUME Fail("ARP query control flow", TRUE), UNCHANGED <<connecting, woken>>
      PROVE  IInv'
  <2>1. connecting' \in [Keys -> ActiveOpens] /\ woken' \subseteq QDs
    BY <1>3, Zenon DEF IInv, TypeOK
  <2>2. ConnectingFresh'
    BY <1>1, <1>3, Zenon DEF IInv, ConnectingFresh, Key
  <2>3. TablesConsistent' /\ failed' \subseteq Panics
    BY <1>3, Zenon DEF Fail, IInv, TablesConsistent, TypeOK, Panics
  <2>. QED  BY <1>1, <2>1, <2>2, <2>3, OnlyConnecting, Zenon
<1>. QED  BY <1>2, <1>3, Zenon DEF ReceiveConnecting

\* poll_connect_finished turns a connecting socket into an established one.
LEMMA PollConnectStep ==
    ASSUME IInv, NEW qd \in QDs, PollConnect(qd)
    PROVE  IInv'
<1>. DEFINE s == sockets[qd]
            key == <<s.local, s.remote>>
<1>1. UNCHANGED <<file_table, ephemeral, passive, accepts>> /\ woken' \subseteq QDs /\ connects' \subseteq QDs
  BY Zenon DEF PollConnect, IInv, TypeOK
<1>2. s.state = "Connecting" => key \in Keys /\ s.local \in Ports /\ s.remote \in Remotes
  BY PeerAssumption DEF IInv, TypeOK, SocketShapes, Sockets, Keys, Ports
<1>3. NoActiveOpen \in ActiveOpens /\ NoActiveOpen.result = "absent"
  BY Zenon DEF NoActiveOpen, ActiveOpens
<1>4. ASSUME UNCHANGED <<sockets, established, failed>>,
             connecting' \in [Keys -> ActiveOpens], ConnectingFresh'
      PROVE  IInv'
  <2>1. TablesConsistent' /\ failed' \subseteq Panics
    BY <1>4, Zenon DEF IInv, TablesConsistent, TypeOK
  <2>. QED  BY <1>1, <1>4, <2>1, OnlyConnecting, Zenon
<1>5. CASE UNCHANGED <<sockets, connecting, established, failed>>
  <2>1. connecting' \in [Keys -> ActiveOpens] /\ ConnectingFresh'
    BY <1>5, Zenon DEF IInv, TypeOK, ConnectingFresh, Key
  <2>. QED  BY <1>4, <1>5, <2>1, Zenon
<1>6. CASE /\ s.state = "Connecting" /\ connecting[key].result = "none"
           /\ connecting' = [connecting EXCEPT ![key].waker = qd]
           /\ UNCHANGED <<sockets, established, failed>>
  <2>. DEFINE e == [connecting[key] EXCEPT !.waker = qd]
  <2>1. e \in ActiveOpens /\ e.result = "none" /\ connecting' = [connecting EXCEPT ![key] = e]
    BY <1>2, <1>6, Zenon DEF IInv, TypeOK, ActiveOpens
  <2>. HIDE DEF e
  <2>2. connecting' \in [Keys -> ActiveOpens] /\ ConnectingFresh'
    BY <1>2, <1>6, <2>1, ConnectingChanged, Zenon DEF IInv
  <2>. QED  BY <1>4, <1>6, <2>2, Zenon
<1>7. CASE /\ s.state = "Connecting"
           /\ connecting' = [connecting EXCEPT ![key] = NoActiveOpen]
           /\ UNCHANGED <<sockets, established, failed>>
  <2>1. connecting' \in [Keys -> ActiveOpens] /\ ConnectingFresh'
    BY <1>2, <1>3, <1>7, ConnectingChanged, Zenon DEF IInv
  <2>. QED  BY <1>4, <1>7, <2>1, Zenon
<1>8. CASE /\ s.state = "Connecting" /\ connecting[key].result = "ok"
           /\ connecting' = [connecting EXCEPT ![key] = NoActiveOpen]
           /\ Fail("established.insert", key \in established)
           /\ established' = established \cup {key}
           /\ sockets' = [sockets EXCEPT ![qd].state = "Established"]
  <2>. USE DEF IInv
  <2>1. key \notin established /\ key = Key(qd)
    BY <1>8, Zenon DEF ConnectingFresh, Key
  <2>2. /\ sockets'[qd] = [s EXCEPT !.state = "Established"]
        /\ \A q \in QDs : q # qd => sockets'[q] = sockets[q]
        /\ s \in Sockets
    BY <1>8, Zenon DEF TypeOK
  <2>3. /\ sockets'[qd].state = "Established" /\ sockets'[qd].local = s.local
        /\ sockets'[qd].remote = s.remote /\ sockets'[qd] \in Sockets
    BY <2>2, Zenon DEF Sockets
  <2>4. failed' = failed
    BY <1>8, <2>1, Zenon DEF Fail
  <2>5. \A q \in QDs : q # qd => sockets[q].local # s.local
    BY <1>2, <1>8, PeerAssumption DEF AddressesExclusive, Ports
  <2>6. /\ connecting' \in [Keys -> ActiveOpens]
        /\ \A k \in Keys : k # key => connecting'[k] = connecting[k]
    BY <1>2, <1>3, <1>8, Zenon DEF TypeOK
  <2>7. TypeOK'
    BY <1>1, <1>2, <1>8, <2>2, <2>3, <2>4, <2>6, Zenon DEF TypeOK
  <2>8. SocketShapes' /\ PoolFree'
    BY <1>1, <1>2, <1>8, <2>2, <2>3, PeerAssumption DEF SocketShapes, PoolFree, Ports
  <2>9. DescriptorsHeld'
    BY <1>1, <1>8, <2>2, <2>3, Zenon DEF DescriptorsHeld, TypeOK, Accepts
  <2>10. AddressesExclusive'
    BY <2>2, <2>3, <2>5, ExclusiveAfter, ZenonT(30)
  <2>11. OneDescriptorPerConnection'
    <3>1. \A q \in QDs : q # qd => <<sockets[q].local, sockets[q].remote>>
                                    # <<sockets'[qd].local, sockets'[qd].remote>>
      BY <2>3, <2>5, Zenon
    <3>. QED  BY <2>2, <3>1, OneDescriptorAfter, Zenon
  <2>12. ReadySound' /\ TablesConsistent'
    BY <1>1, <2>4, Zenon DEF ReadySound, TablesConsistent
  <2>13. \A q \in QDs : (q # qd /\ sockets[q].state # "None") => /\ Key(q)' = Key(q)
                                                             /\ sockets'[q] = sockets[q]
                                                             /\ sockets[q].local # s.local
                                                             /\ Key(q) # key
    BY <2>2, <2>5, Zenon DEF Key
  <2>14. ListeningBacked'
    BY <1>1, <1>8, <2>2, <2>3, <2>5 DEF ListeningBacked
  <2>15. ConnectingFresh'
    <3>. SUFFICES ASSUME NEW q \in QDs, sockets'[q].state = "Connecting",
                         connecting'[Key(q)'].result = "ok"
                  PROVE  Key(q)' \notin established'
      BY Zenon DEF ConnectingFresh
    <3>1. q # qd /\ sockets[q].state = "Connecting"
      BY <2>2, <2>3, Zenon
    <3>2. Key(q) \in Keys
      BY <3>1, PeerAssumption DEF TypeOK, SocketShapes, Sockets, Keys, Ports, Key
    <3>3. connecting[Key(q)].result = "ok" /\ Key(q)' = Key(q) /\ Key(q) # key
      BY <2>6, <2>13, <3>1, <3>2, Zenon
    <3>. QED  BY <1>8, <3>1, <3>3, Zenon DEF ConnectingFresh
  <2>16. EstablishedBacked'
    <3>1. Key(qd)' = key
      BY <2>3, Zenon DEF Key
    <3>. QED  BY <1>8, <2>2, <2>13, <3>1, Zenon DEF EstablishedBacked
  <2>. QED  BY <2>7, <2>8, <2>9, <2>10, <2>11, <2>12, <2>14, <2>15, <2>16, Zenon
<1>. QED  BY <1>5, <1>6, <1>7, <1>8, Zenon DEF PollConnect

\* Appending to ready: a connection that is new to endpoints, or an error.
LEMMA AppendSound ==
    ASSUME NEW ready \in Seq(Remotes \cup {None}), NEW endpoints, NEW x \in Remotes \cup {None},
           x # None => x \notin endpoints,
           \A i \in 1..Len(ready) : ready[i] # None => ready[i] \in endpoints,
           \A i, j \in 1..Len(ready) : (ready[i] = ready[j] /\ ready[i] # None) => i = j
    PROVE  LET new == Append(ready, x)
           IN  /\ \A i \in 1..Len(new) : new[i] # None => new[i] \in endpoints \cup {x}
               /\ \A i, j \in 1..Len(new) : (new[i] = new[j] /\ new[i] # None) => i = j
<1>. DEFINE new == Append(ready, x)
<1>1. /\ Len(new) = Len(ready) + 1 /\ Len(ready) \in Nat
      /\ new[Len(ready) + 1] = x
      /\ \A i \in 1..Len(ready) : new[i] = ready[i]
  OBVIOUS
<1>. HIDE DEF new
<1>2. \A i \in 1..Len(new) : i \in 1..Len(ready) \/ i = Len(ready) + 1
  BY <1>1
<1>3. \A i \in 1..Len(new) : new[i] # None => new[i] \in endpoints \cup {x}
  BY <1>1, <1>2, Zenon
<1>4. ASSUME NEW i \in 1..Len(new), NEW j \in 1..Len(new), new[i] = new[j], new[i] # None
      PROVE  i = j
  <2>1. CASE i \in 1..Len(ready) /\ j \in 1..Len(ready)
    BY <1>1, <1>4, <2>1, Zenon
  <2>2. CASE i \in 1..Len(ready) /\ j = Len(ready) + 1
    BY <1>1, <1>4, <2>2, Zenon
  <2>3. CASE i = Len(ready) + 1 /\ j \in 1..Len(ready)
    BY <1>1, <1>4, <2>3, Zenon
  <2>. QED  BY <1>2, <2>1, <2>2, <2>3, Zenon
<1>. QED  BY <1>3, <1>4, Zenon DEF new

\* push_err appends an error and keeps the connections.
LEMMA HandshakeTimeoutStep ==
    ASSUME IInv, NEW local \in Ports, NEW remote \in Remotes, HandshakeTimeout(local, remote)
    PROVE  IInv'
<1>. DEFINE p == passive[local]
            new == [p EXCEPT !.waiting = @ \ {remote}, !.ready = Append(@, None), !.waker = None]
<1>1. p \in PassiveSockets /\ Sound(p)
  BY Zenon DEF IInv, TypeOK, ReadySound
<1>2. p.ready \in Seq(Remotes \cup {None}) /\ p.waker \in QDs \cup {None}
  BY <1>1, Zenon DEF PassiveSockets
<1>3. /\ new.ready = Append(p.ready, None) /\ new.inflight = p.inflight
      /\ new.endpoints = p.endpoints /\ new.open = p.open
  BY <1>1, Zenon DEF PassiveSockets
<1>4. new \in PassiveSockets
  <2>1. Append(p.ready, None) \in Seq(Remotes \cup {None})
    BY <1>2
  <2>. QED  BY <1>1, <2>1, Zenon DEF PassiveSockets
<1>5. passive' = [passive EXCEPT ![local] = new] /\ woken' \subseteq QDs
  BY <1>2, Zenon DEF HandshakeTimeout, Wake, IInv, TypeOK
<1>6. Sound(new)
  <2>. HIDE DEF new
  <2>1. /\ \A i \in 1..Len(new.ready) : new.ready[i] # None => new.ready[i] \in p.endpoints \cup {None}
        /\ \A i, j \in 1..Len(new.ready) : (new.ready[i] = new.ready[j] /\ new.ready[i] # None) => i = j
    BY <1>1, <1>2, <1>3, AppendSound DEF Sound
  <2>. QED  BY <1>1, <1>3, <2>1, Zenon DEF Sound
<1>. HIDE DEF new
<1>. QED  BY <1>3, <1>4, <1>5, <1>6, OnlyPassive, Zenon DEF HandshakeTimeout

\* A listener's connections are neither established nor in ready twice.
LEMMA ReceivePassiveStep ==
    ASSUME IInv, NEW local \in Ports, NEW remote \in Remotes, NEW h \in Headers,
           ReceivePassive(local, remote, h)
    PROVE  IInv'
<1>. DEFINE p == passive[local]
<1>1. p \in PassiveSockets /\ Sound(p) /\ <<local, remote>> \notin established
  BY Zenon DEF IInv, TypeOK, ReadySound, ReceivePassive
<1>2. /\ p.ready \in Seq(Remotes \cup {None}) /\ p.waker \in QDs \cup {None}
      /\ p.inflight \subseteq Remotes /\ p.endpoints \subseteq Remotes /\ remote # None
  BY <1>1, PeerAssumption, Zenon DEF PassiveSockets
<1>3. CASE CompleteHandshake(local, remote, h)
  <2>. DEFINE new == [p EXCEPT !.inflight = @ \ {remote}, !.waiting = @ \ {remote},
                               !.ready = Append(@, remote), !.endpoints = @ \cup {remote}, !.waker = None]
  <2>1. /\ new.ready = Append(p.ready, remote) /\ new.inflight = p.inflight \ {remote}
        /\ new.endpoints = p.endpoints \cup {remote} /\ new.open = p.open
    BY <1>1, Zenon DEF PassiveSockets
  <2>2. new \in PassiveSockets
    <3>1. Append(p.ready, remote) \in Seq(Remotes \cup {None})
      BY <1>2
    <3>. QED  BY <1>1, <3>1, Zenon DEF PassiveSockets
  <2>3. passive' = [passive EXCEPT ![local] = new] /\ woken' \subseteq QDs /\ failed' = failed
        /\ remote \notin p.endpoints
    BY <1>2, <1>3, Zenon DEF CompleteHandshake, Wake, Fail, IInv, TypeOK
  <2>. HIDE DEF new
  <2>4. Sound(new)
    <3>1. /\ \A i \in 1..Len(p.ready) : p.ready[i] # None => p.ready[i] \in p.endpoints
          /\ \A i, j \in 1..Len(p.ready) : (p.ready[i] = p.ready[j] /\ p.ready[i] # None) => i = j
          /\ p.inflight \cap p.endpoints = {}
      BY <1>1, Zenon DEF Sound
    <3>2. /\ \A i \in 1..Len(new.ready) : new.ready[i] # None => new.ready[i] \in p.endpoints \cup {remote}
          /\ \A i, j \in 1..Len(new.ready) : (new.ready[i] = new.ready[j] /\ new.ready[i] # None) => i = j
      <4>1. remote \notin p.endpoints /\ remote \in Remotes \cup {None}
        BY <2>3, Zenon
      <4>2. p.ready \in Seq(Remotes \cup {None}) /\ new.ready = Append(p.ready, remote)
        BY <1>2, <2>1, Zenon
      <4>. HIDE DEF p
      <4>. QED  BY <3>1, <4>1, <4>2, AppendSound
    <3>3. new.inflight \cap new.endpoints = {}
      BY <2>1, <3>1, Zenon
    <3>. QED  BY <2>1, <3>2, <3>3, Zenon DEF Sound
  <2>5. \A r \in new.inflight \cup new.endpoints :
          r \in p.inflight \cup p.endpoints \/ <<local, r>> \notin established
    BY <1>1, <2>1, Zenon
  <2>. QED  BY <2>1, <2>2, <2>3, <2>4, <2>5, OnlyPassive, Zenon DEF ReceivePassive
<1>4. CASE StartHandshake(local, remote, h)
  <2>. DEFINE new == [[p EXCEPT !.inflight = @ \cup {remote}] EXCEPT !.waiting = @ \cup {remote}]
  <2>1. /\ new.ready = p.ready /\ new.inflight = p.inflight \cup {remote}
        /\ new.endpoints = p.endpoints /\ new.open = p.open /\ new \in PassiveSockets
    BY <1>1, Zenon DEF PassiveSockets
  <2>2. passive' = [passive EXCEPT ![local] = new] /\ woken' \subseteq QDs /\ failed' = failed
        /\ remote \notin p.endpoints
    BY <1>4, Zenon DEF StartHandshake, IInv, TypeOK
  <2>. HIDE DEF new
  <2>3. Sound(new)
    BY <1>1, <2>1, <2>2 DEF Sound
  <2>4. \A r \in new.inflight \cup new.endpoints :
          r \in p.inflight \cup p.endpoints \/ <<local, r>> \notin established
    BY <1>1, <2>1, Zenon
  <2>. QED  BY <2>1, <2>2, <2>3, <2>4, OnlyPassive, Zenon DEF ReceivePassive
<1>. QED  BY <1>3, <1>4, Zenon DEF ReceivePassive
-----------------------------------------------------------------------------
\* The invariant is inductive: one lemma above per action.
LEMMA NextIInv == IInv /\ [Next]_vars => IInv'
<1>. SUFFICES ASSUME IInv, [Next]_vars PROVE IInv'
  BY Zenon
<1>1. CASE Application
  BY <1>1, SocketStep, BindStep, ListenStep, AcceptStep, ConnectStep, CloseStep, TakeFailedAcceptStep, Zenon
  DEF Application
<1>2. CASE Scheduler
  BY <1>2, PollAcceptStep, PollConnectStep, ConnectTimeoutStep, HandshakeTimeoutStep, Zenon DEF Scheduler
<1>3. CASE Network
  BY <1>3, ReceiveConnectingStep, ReceivePassiveStep, Zenon DEF Network
<1>4. CASE UNCHANGED vars
  <2>1. TypeOK' /\ SocketShapes' /\ PoolFree' /\ AddressesExclusive'
        /\ OneDescriptorPerConnection' /\ DescriptorsHeld'
    BY <1>4, ZenonT(30) DEF IInv, vars, tables, TypeOK, SocketShapes, PoolFree, AddressesExclusive,
                OneDescriptorPerConnection, DescriptorsHeld
  <2>2. ReadySound' /\ ListeningBacked' /\ ConnectingFresh' /\ EstablishedBacked' /\ TablesConsistent'
    BY <1>4, Zenon DEF IInv, vars, tables, ReadySound, ListeningBacked, ConnectingFresh,
                EstablishedBacked, TablesConsistent, Key
  <2>. QED  BY <2>1, <2>2, Zenon DEF IInv
<1>. QED  BY <1>1, <1>2, <1>3, <1>4, Zenon DEF Next

\* It holds in every reachable state.
LEMMA Invariance == Spec => []IInv
  BY InitIInv, NextIInv, PTL DEF Spec

\* The tables of peer.rs and passive_open.rs have the types the code gives
\* them, whatever the application, the scheduler and the network do.
THEOREM TypeCorrect == Spec => []TypeOK
<1>1. IInv => TypeOK
  BY Zenon DEF IInv
<1>. QED  BY <1>1, Invariance, PTL

\* None of the panics and assertions that guard the socket tables
\* (peer.rs:260, 276, 281, 540, passive_open.rs:87, 110) is ever reached.
THEOREM NoTablePanic == Spec => []TablesConsistent
<1>1. IInv => TablesConsistent
  BY Zenon DEF IInv
<1>. QED  BY <1>1, Invariance, PTL

\* bind and the pool of ephemeral ports keep local addresses exclusive.
THEOREM ExclusiveAddresses == Spec => []AddressesExclusive
<1>1. IInv => AddressesExclusive
  BY Zenon DEF IInv
<1>. QED  BY <1>1, Invariance, PTL

\* accept and connect never give two descriptors one connection.
THEOREM UniqueDescriptor == Spec => []OneDescriptorPerConnection
<1>1. IInv => OneDescriptorPerConnection
  BY Zenon DEF IInv
<1>. QED  BY <1>1, Invariance, PTL

\* No descriptor is given back while a socket or an accept operation uses it.
THEOREM HeldDescriptors == Spec => []DescriptorsHeld
<1>1. IInv => DescriptorsHeld
  BY Zenon DEF IInv
<1>. QED  BY <1>1, Invariance, PTL

-----------------------------------------------------------------------------
(* The connections a listener holds stay within its backlog.  The check on *)
(* a new SYN counts what is in flight and what is in ready, so the proof   *)
(* needs that every endpoint has an entry in ready: errors of timed out    *)
(* handshakes only make the check stricter.                                *)

\* A passive socket within its backlog, strengthened to be inductive.
Bounded(p) ==
    /\ IsFiniteSet(p.inflight)
    /\ IsFiniteSet(p.endpoints)
    /\ \A r \in p.endpoints : \E i \in 1..Len(p.ready) : p.ready[i] = r
    /\ Cardinality(p.inflight) + Cardinality(p.endpoints) =< p.max_backlog

BInv == \A local \in Ports : Bounded(passive[local])
-----------------------------------------------------------------------------
\* There are at most as many endpoints as entries in ready.
LEMMA EndpointsWithinReady ==
    ASSUME NEW ready \in Seq(Remotes \cup {None}), NEW endpoints,
           \A r \in endpoints : \E i \in 1..Len(ready) : ready[i] = r
    PROVE  Cardinality(endpoints) =< Len(ready)
<1>. DEFINE f == [r \in endpoints |-> CHOOSE i \in 1..Len(ready) : ready[i] = r]
<1>1. \A r \in endpoints : f[r] \in 1..Len(ready) /\ ready[f[r]] = r
  BY Zenon
<1>2. f \in Injection(endpoints, 1..Len(ready))
  BY <1>1, ZenonT(30) DEF Injection, IsInjective
<1>3. Len(ready) \in Nat
  OBVIOUS
<1>4. IsFiniteSet(1..Len(ready)) /\ Cardinality(1..Len(ready)) = Len(ready)
  BY SMTT(30), <1>3, FS_Interval
<1>. QED  BY <1>2, <1>4, FS_Injection

\* push_ok and push_err append to ready: the endpoints keep their entries.
LEMMA BoundedAppend ==
    ASSUME NEW ready \in Seq(Remotes \cup {None}), NEW endpoints, NEW x \in Remotes \cup {None},
           \A r \in endpoints : \E i \in 1..Len(ready) : ready[i] = r
    PROVE  LET new == Append(ready, x)
           IN  \A r \in endpoints \cup {x} : \E i \in 1..Len(new) : new[i] = r
<1>. DEFINE new == Append(ready, x)
<1>1. /\ Len(new) = Len(ready) + 1 /\ Len(ready) \in Nat
      /\ new[Len(ready) + 1] = x
      /\ \A i \in 1..Len(ready) : new[i] = ready[i] /\ i \in 1..Len(new)
      /\ Len(ready) + 1 \in 1..Len(new)
  OBVIOUS
<1>. HIDE DEF new
<1>2. \A r \in endpoints \cup {x} : \E i \in 1..Len(new) : new[i] = r
  BY <1>1, Zenon
<1>. QED  BY <1>2, Zenon DEF new

\* One element more.
LEMMA OneMore ==
    ASSUME NEW S, NEW x, IsFiniteSet(S), x \notin S
    PROVE  IsFiniteSet(S \cup {x}) /\ Cardinality(S \cup {x}) = Cardinality(S) + 1
BY FS_AddElement, Zenon

\* A set without one element.
LEMMA OneLess ==
    ASSUME NEW S, NEW x, IsFiniteSet(S)
    PROVE  /\ IsFiniteSet(S \ {x})
           /\ Cardinality(S \ {x}) = IF x \in S THEN Cardinality(S) - 1 ELSE Cardinality(S)
BY FS_RemoveElement, Zenon

\* Replacing one passive socket by a bounded one.
LEMMA BoundedAfter ==
    ASSUME TypeOK, BInv, NEW local \in Ports, NEW p, Bounded(p), passive' = [passive EXCEPT ![local] = p]
    PROVE  BInv'
<1>1. passive'[local] = p /\ \A l \in Ports : l # local => passive'[l] = passive[l]
  BY Zenon DEF TypeOK
<1>. QED  BY <1>1, Zenon DEF BInv

\* A new passive socket is empty.
LEMMA BoundedListen ==
    ASSUME IInv, BInv, NEW qd \in QDs, NEW backlog \in Backlogs, Listen(qd, backlog)
    PROVE  BInv'
<1>1. Bounded(NewPassive(backlog))
  <2>1. backlog \in Nat
    BY PeerAssumption, Zenon
  <2>. QED  BY <2>1, FS_EmptySet DEF Bounded, NewPassive
<1>2. sockets[qd].local \in Ports /\ passive' = [passive EXCEPT ![sockets[qd].local] = NewPassive(backlog)]
  BY PeerAssumption DEF Listen, IInv, TypeOK, Sockets, Ports
<1>. QED  BY <1>1, <1>2, BoundedAfter, Zenon DEF IInv

\* poll takes an entry and its endpoint out together.
LEMMA BoundedAcceptReady ==
    ASSUME IInv, BInv, NEW a \in accepts, NEW local \in Ports, passive[local].ready # <<>>,
           AcceptReady(a, local)
    PROVE  BInv'
<1>. DEFINE p == passive[local]
            new == [[p EXCEPT !.ready = Tail(p.ready)] EXCEPT !.endpoints = @ \ {Head(p.ready)}]
<1>1. p \in PassiveSockets /\ Bounded(p)
  BY Zenon DEF IInv, TypeOK, BInv
<1>2. /\ p.ready \in Seq(Remotes \cup {None}) /\ p.endpoints \subseteq Remotes
      /\ p.max_backlog \in Nat
  BY <1>1, Zenon DEF PassiveSockets
<1>3. passive' = [passive EXCEPT ![local] = new]
  <2>1. passive' = [passive EXCEPT ![local].ready = Tail(passive[local].ready),
                                   ![local].endpoints = @ \ {Head(passive[local].ready)}]
    BY Zenon DEF AcceptReady
  <2>2. local \in DOMAIN passive /\ passive = [l \in DOMAIN passive |-> passive[l]]
    BY Zenon DEF IInv, TypeOK
  <2>. QED  BY <2>1, <2>2, <1>1, Zenon DEF PassiveSockets
<1>4. /\ new.ready = Tail(p.ready) /\ new.endpoints = p.endpoints \ {Head(p.ready)}
      /\ new.inflight = p.inflight /\ new.max_backlog = p.max_backlog
  BY <1>1, Zenon DEF PassiveSockets
<1>. HIDE DEF new
<1>5. /\ Len(new.ready) = Len(p.ready) - 1 /\ Len(p.ready) \in Nat \ {0} /\ Head(p.ready) = p.ready[1]
      /\ \A i \in 1..Len(new.ready) : new.ready[i] = p.ready[i + 1]
  BY <1>2, <1>4
<1>6. ASSUME NEW r \in new.endpoints
      PROVE  \E i \in 1..Len(new.ready) : new.ready[i] = r
  <2>1. PICK i \in 1..Len(p.ready) : p.ready[i] = r
    BY <1>1, <1>4, Zenon DEF Bounded
  <2>2. i # 1
    BY <1>4, <1>5, <2>1, Zenon
  <2>3. i - 1 \in 1..Len(new.ready) /\ (i - 1) + 1 = i
    BY <1>5, <2>2
  <2>. QED  BY <1>5, <2>1, <2>3, Zenon
<1>7. /\ IsFiniteSet(new.endpoints) /\ IsFiniteSet(new.inflight)
      /\ Cardinality(new.inflight) + Cardinality(new.endpoints) =< new.max_backlog
  <2>1. Cardinality(p.inflight) \in Nat /\ Cardinality(p.endpoints) \in Nat
    BY <1>1, FS_CardinalityType, Zenon DEF Bounded
  <2>2. IsFiniteSet(new.endpoints) /\ Cardinality(new.endpoints) \in Nat
        /\ Cardinality(new.endpoints) =< Cardinality(p.endpoints)
    <3>1. PICK S : S = p.endpoints /\ IsFiniteSet(S)
      BY <1>1, Zenon DEF Bounded
    <3>2. PICK x : x = Head(p.ready)
      BY Zenon
    <3>3. /\ IsFiniteSet(S \ {x})
          /\ Cardinality(S \ {x}) = IF x \in S THEN Cardinality(S) - 1 ELSE Cardinality(S)
      BY <3>1, OneLess, Zenon
    <3>4. Cardinality(S \ {x}) \in Nat
      BY <3>3, FS_CardinalityType, Zenon
    <3>. QED  BY <1>4, <2>1, <3>1, <3>2, <3>3, <3>4
  <2>. QED  BY <1>1, <1>2, <1>4, <2>1, <2>2 DEF Bounded
<1>8. Bounded(new)
  BY <1>6, <1>7, Zenon DEF Bounded
<1>. QED  BY <1>3, <1>8, BoundedAfter, Zenon DEF IInv

\* poll_accept, the branch that only leaves a waker included.
LEMMA BoundedPollAccept ==
    ASSUME IInv, BInv, NEW a \in accepts, PollAccept(a)
    PROVE  BInv'
<1>1. PICK local : local = sockets[a.qd].local
  BY Zenon
<1>2. sockets[a.qd].state = "Listening" => local \in Ports
  BY <1>1, PeerAssumption DEF IInv, TypeOK, SocketShapes, Sockets, Ports, Accepts
<1>3. CASE UNCHANGED passive
  BY <1>3, Zenon DEF BInv
<1>4. CASE /\ sockets[a.qd].state = "Listening"
           /\ passive' = [passive EXCEPT ![local].waker = a.new_qd]
  <2>. DEFINE new == [passive[local] EXCEPT !.waker = a.new_qd]
  <2>1. passive[local] \in PassiveSockets /\ Bounded(passive[local])
    BY <1>2, <1>4, Zenon DEF IInv, TypeOK, BInv
  <2>2. /\ new.ready = passive[local].ready /\ new.endpoints = passive[local].endpoints
        /\ new.inflight = passive[local].inflight /\ new.max_backlog = passive[local].max_backlog
        /\ passive' = [passive EXCEPT ![local] = new]
    BY <1>4, <2>1, Zenon DEF PassiveSockets
  <2>. HIDE DEF new
  <2>3. Bounded(new)
    BY <2>1, <2>2, Zenon DEF Bounded
  <2>. QED  BY <1>2, <1>4, <2>2, <2>3, BoundedAfter, Zenon DEF IInv
<1>5. CASE /\ sockets[a.qd].state = "Listening"
           /\ passive[local].ready # <<>> /\ AcceptReady(a, local)
  BY <1>2, <1>5, BoundedAcceptReady, Zenon
<1>. QED  BY <1>1, <1>3, <1>4, <1>5, Zenon DEF PollAccept

\* The error of a timed out handshake takes room in ready only.
LEMMA BoundedHandshakeTimeout ==
    ASSUME IInv, BInv, NEW local \in Ports, NEW remote \in Remotes, HandshakeTimeout(local, remote)
    PROVE  BInv'
<1>. DEFINE p == passive[local]
            new == [p EXCEPT !.waiting = @ \ {remote}, !.ready = Append(@, None), !.waker = None]
<1>1. p \in PassiveSockets /\ Bounded(p)
  BY Zenon DEF IInv, TypeOK, BInv
<1>2. p.ready \in Seq(Remotes \cup {None})
  BY <1>1, Zenon DEF PassiveSockets
<1>3. /\ new.ready = Append(p.ready, None) /\ new.inflight = p.inflight
      /\ new.endpoints = p.endpoints /\ new.max_backlog = p.max_backlog
  BY <1>1, Zenon DEF PassiveSockets
<1>4. passive' = [passive EXCEPT ![local] = new]
  BY Zenon DEF HandshakeTimeout
<1>5. \A r \in p.endpoints : \E i \in 1..Len(p.ready) : p.ready[i] = r
  BY <1>1, Zenon DEF Bounded
<1>. HIDE DEF new, p
<1>6. \A r \in new.endpoints : \E i \in 1..Len(new.ready) : new.ready[i] = r
  BY <1>2, <1>3, <1>5, BoundedAppend
<1>7. Bounded(new)
  BY <1>1, <1>3, <1>6, Zenon DEF Bounded
<1>. QED  BY <1>4, <1>7, BoundedAfter, Zenon DEF IInv

\* A completed handshake moves from inflight to endpoints, a new one passed the check.
LEMMA BoundedReceivePassive ==
    ASSUME IInv, BInv, NEW local \in Ports, NEW remote \in Remotes, NEW h \in Headers,
           ReceivePassive(local, remote, h)
    PROVE  BInv'
<1>. DEFINE p == passive[local]
<1>1. p \in PassiveSockets /\ Bounded(p)
  BY Zenon DEF IInv, TypeOK, BInv
<1>2. p.ready \in Seq(Remotes \cup {None}) /\ Len(p.ready) \in Nat /\ p.max_backlog \in Nat
  BY <1>1 DEF PassiveSockets
<1>3. /\ IsFiniteSet(p.inflight) /\ Cardinality(p.inflight) \in Nat
      /\ IsFiniteSet(p.endpoints) /\ Cardinality(p.endpoints) \in Nat
      /\ \A r \in p.endpoints : \E i \in 1..Len(p.ready) : p.ready[i] = r
      /\ Cardinality(p.inflight) + Cardinality(p.endpoints) =< p.max_backlog
  BY <1>1, FS_CardinalityType, Zenon DEF Bounded
<1>4. CASE CompleteHandshake(local, remote, h)
  <2>. DEFINE new == [p EXCEPT !.inflight = @ \ {remote}, !.waiting = @ \ {remote},
                               !.ready = Append(@, remote), !.endpoints = @ \cup {remote}, !.waker = None]
  <2>1. /\ new.ready = Append(p.ready, remote) /\ new.inflight = p.inflight \ {remote}
        /\ new.endpoints = p.endpoints \cup {remote} /\ new.max_backlog = p.max_backlog
    BY <1>1, Zenon DEF PassiveSockets
  <2>2. /\ passive' = [passive EXCEPT ![local] = new]
        /\ remote \notin p.endpoints /\ remote \in p.inflight
    BY <1>4, Zenon DEF CompleteHandshake
  <2>. HIDE DEF new, p
  <2>3. \A r \in new.endpoints : \E i \in 1..Len(new.ready) : new.ready[i] = r
    BY <1>2, <1>3, <2>1, BoundedAppend, SMTT(30)
  <2>4. IsFiniteSet(new.inflight) /\ Cardinality(new.inflight) = Cardinality(p.inflight) - 1
    <3>1. PICK S : S = p.inflight
      BY Zenon
    <3>2. /\ IsFiniteSet(S \ {remote})
          /\ Cardinality(S \ {remote}) = IF remote \in S THEN Cardinality(S) - 1 ELSE Cardinality(S)
      BY <1>3, <3>1, OneLess, Zenon
    <3>. QED  BY <2>1, <2>2, <3>1, <3>2, Zenon
  <2>5. IsFiniteSet(new.endpoints) /\ Cardinality(new.endpoints) = Cardinality(p.endpoints) + 1
    <3>1. PICK S : S = p.endpoints
      BY Zenon
    <3>2. IsFiniteSet(S \cup {remote}) /\ Cardinality(S \cup {remote}) = Cardinality(S) + 1
      BY <1>3, <2>2, <3>1, OneMore, Zenon
    <3>. QED  BY <2>1, <3>1, <3>2, Zenon
  <2>6. Cardinality(new.inflight) + Cardinality(new.endpoints) =< new.max_backlog
    BY <1>2, <1>3, <2>1, <2>4, <2>5
  <2>7. Bounded(new)
    BY <2>3, <2>4, <2>5, <2>6, Zenon DEF Bounded
  <2>. QED  BY <2>2, <2>7, BoundedAfter, Zenon DEF IInv
<1>5. CASE StartHandshake(local, remote, h)
  <2>. DEFINE new == [[p EXCEPT !.inflight = @ \cup {remote}] EXCEPT !.waiting = @ \cup {remote}]
  <2>1. /\ new.ready = p.ready /\ new.inflight = p.inflight \cup {remote}
        /\ new.endpoints = p.endpoints /\ new.max_backlog = p.max_backlog
    BY <1>1, Zenon DEF PassiveSockets
  <2>2. /\ passive' = [passive EXCEPT ![local] = new]
        /\ remote \notin p.inflight
        /\ Cardinality(p.inflight) + Len(p.ready) < p.max_backlog
    BY <1>5, ZenonT(30) DEF StartHandshake, IInv, TypeOK
  <2>. HIDE DEF new, p
  <2>3. Cardinality(p.endpoints) =< Len(p.ready)
    BY <1>2, <1>3, EndpointsWithinReady, Zenon
  <2>4. IsFiniteSet(new.inflight) /\ Cardinality(new.inflight) = Cardinality(p.inflight) + 1
    <3>1. PICK S : S = p.inflight
      OBVIOUS
    <3>2. IsFiniteSet(S \cup {remote}) /\ Cardinality(S \cup {remote}) = Cardinality(S) + 1
      BY <1>3, <2>2, <3>1, OneMore, Zenon
    <3>. QED  BY <2>1, <3>1, <3>2, Zenon
  <2>5. Cardinality(new.inflight) + Cardinality(new.endpoints) =< new.max_backlog
    BY <1>2, <1>3, <2>1, <2>2, <2>3, <2>4
  <2>6. Bounded(new)
    BY <1>3, <2>1, <2>4, <2>5, Zenon DEF Bounded
  <2>. QED  BY <2>2, <2>6, BoundedAfter, Zenon DEF IInv
<1>. QED  BY <1>4, <1>5, Zenon DEF ReceivePassive
-----------------------------------------------------------------------------
\* No passive socket at the start.
LEMMA InitBInv == Init => BInv
<1>. SUFFICES ASSUME Init PROVE BInv
  OBVIOUS
<1>1. Bounded(NoPassive)
  BY FS_EmptySet DEF Bounded, NoPassive
<1>. QED  BY <1>1, Zenon DEF Init, BInv

\* Every step keeps the bound.
LEMMA NextBInv == IInv /\ BInv /\ [Next]_vars => BInv'
<1>. SUFFICES ASSUME IInv, BInv, [Next]_vars PROVE BInv'
  BY Zenon
<1>1. UNCHANGED passive => BInv'
  BY Zenon DEF BInv
<1>2. CASE Application
  BY <1>1, <1>2, BoundedListen, Zenon DEF Application, Socket, Bind, Accept, Connect, Close, TakeFailedAccept
<1>3. CASE Scheduler
  BY <1>1, <1>3, BoundedPollAccept, BoundedHandshakeTimeout, Zenon DEF Scheduler, PollConnect, ConnectTimeout
<1>4. CASE Network
  BY <1>1, <1>4, BoundedReceivePassive, Zenon DEF Network, ReceiveConnecting
<1>5. CASE UNCHANGED vars
  BY <1>1, <1>5, Zenon DEF vars, tables
<1>. QED  BY <1>2, <1>3, <1>4, <1>5, Zenon DEF Next

\* The connections in flight and those waiting for accept never exceed the
\* backlog given to listen (passive_open.rs:229).
THEOREM BacklogHolds == Spec => []PendingWithinBacklog
<1>1. BInv => PendingWithinBacklog
  BY Zenon DEF BInv, Bounded, PendingWithinBacklog
<1>. QED  BY <1>1, InitBInv, NextBInv, Invariance, PTL DEF Spec
=============================================================================
