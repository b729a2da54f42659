--------------------------- MODULE TcpReceiverLive ---------------------------
(***************************************************************************)
(* TcpReceiver with the fairness under which a stream must get through.    *)
(* arrived says that the last step delivered just the byte the receiver    *)
(* waits for, or the FIN; the assumption on the network is stated with it. *)
(***************************************************************************)
EXTENDS TcpReceiver

VARIABLE arrived

liveVars == << vars, arrived >>

LiveInit == Init /\ arrived = FALSE

IsNext(off, len, fin) ==
    off = Offset(cb.receive_next) /\ IF fin THEN len = 0 ELSE len = 1

LiveNext ==
    \/ \E off \in 0 .. StreamLen : \E len \in 0 .. Min({MaxSegment, StreamLen - off}) :
          \E fin \in BOOLEAN : ReceiveSegment(off, len, fin) /\ arrived' = IsNext(off, len, fin)
    \/ \E off \in 0 .. StreamLen + 1 : ReceiveReset(off) /\ arrived' = FALSE
    \/ ReceiveHandshakeAgain /\ arrived' = FALSE
    \/ Pop /\ arrived' = FALSE
    \/ AckTimeout /\ arrived' = FALSE
    \/ Close /\ arrived' = FALSE

\* The remote retransmits what it has not seen acknowledged, and the network
\* loses only finitely many copies in a row: while a byte or the FIN is
\* missing, the next one arrives again and again.  The application keeps
\* popping.
Missing == Running /\ Offset(cb.receive_next) =< StreamLen

FairSpec ==
    /\ LiveInit /\ [][LiveNext]_liveVars
    /\ WF_vars(Pop)
    /\ []<>(~ Missing) \/ []<><<arrived'>>_liveVars

\* Every stream gets through: the application reads all of it and the FIN is
\* taken, whatever the out-of-order store holds and however often the window
\* closes (receive, receive_data, poll_recv), unless one side gives the
\* connection up or the assertion on an out-of-order FIN has failed.
StreamDelivered ==
    <>[](\/ read = StreamLen /\ Offset(cb.receive_next) = StreamLen + 1
         \/ closed \/ cb.state = "Closed" \/ "fin_is_not_next" \in cb.failed)

=============================================================================
