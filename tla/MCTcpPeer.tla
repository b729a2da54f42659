----------------------------- MODULE MCTcpPeer -----------------------------
(***************************************************************************)
(* TcpPeer in two scenes, one of which a behaviour chooses when it starts: *)
(* a server with three descriptors, for a listener and two connections     *)
(* from one remote host, or two descriptors that listen and connect while  *)
(* two remote hosts compete.  The scene restricts only what the            *)
(* application and the remote hosts do.                                    *)
(***************************************************************************)
EXTENDS TcpPeer

CONSTANTS
    SpareQD,       \* the descriptor that is used in the first scene only
    SpareRemote    \* the remote host that is there in the second scene only

ASSUME SceneAssumption == SpareQD \in QDs /\ SpareRemote \in Remotes

VARIABLE scene

Scenes == {"server", "pair"}

Offered ==
    \/ /\ scene = "server"
       /\ connects = {}
       /\ \A p \in Ports : SpareRemote \notin passive[p].inflight
    \/ scene = "pair" /\ SpareQD \notin file_table

MCInit == Init /\ scene \in Scenes
MCNext == UNCHANGED scene /\ Next /\ Offered'
MCSpec == MCInit /\ [][MCNext]_<<vars, scene>> /\ Fairness
=============================================================================
