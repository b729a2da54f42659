-------------------------- MODULE ByteStreamProofs --------------------------
(***************************************************************************)
(* What the byte stream specification promises, for streams of every       *)
(* length.  TcpConnection implements the specification (IsByteStream), so  *)
(* these hold of the control blocks as well.                               *)
(***************************************************************************)
EXTENDS ByteStream, TLAPS

StreamType ==
    /\ written \in [Ends -> Nat] /\ taken \in [Ends -> Nat]
    /\ acked \in [Ends -> Nat] /\ got \in [Ends -> Nat]
    /\ eof \in [Ends -> EofStates]

SInv == StreamType /\ StreamOrder

\* All streams are empty and open at first.
LEMMA InitSInv == StreamInit => SInv
BY DEF StreamInit, SInv, StreamType, StreamOrder, EofStates

\* A write makes an open stream longer.
LEMMA WriteStep ==
    ASSUME MaxLen \in Nat, SInv, NEW e \in Ends, Write(e)
    PROVE  SInv' /\ StreamForward
<1>1. PICK n \in (written[e] + 1) .. MaxLen : written' = [written EXCEPT ![e] = n]
  BY Zenon DEF Write
<1>2. n \in Nat /\ n > written[e]
  BY <1>1 DEF SInv, StreamType
<1>. QED  BY <1>1, <1>2 DEF Write, SInv, StreamType, StreamOrder, StreamForward

\* A close leaves the bytes alone.
LEMMA CloseStep ==
    ASSUME SInv, NEW e \in Ends, CloseStream(e)
    PROVE  SInv' /\ StreamForward
BY DEF CloseStream, SInv, StreamType, StreamOrder, StreamForward, EofStates

\* A read stays within what was taken.
LEMMA ReadStep ==
    ASSUME SInv, NEW e \in Ends, Read(e)
    PROVE  SInv' /\ StreamForward
<1>1. PICK n \in (got[e] + 1) .. taken[e] : got' = [got EXCEPT ![e] = n]
  BY Zenon DEF Read
<1>2. n \in Nat /\ n > got[e] /\ n =< taken[e]
  BY <1>1 DEF SInv, StreamType
<1>. QED  BY <1>1, <1>2 DEF Read, SInv, StreamType, StreamOrder, StreamForward

\* A segment moves both streams forward.
LEMMA ExchangeStep ==
    ASSUME SInv, NEW e \in Ends, Exchange(e)
    PROVE  SInv' /\ StreamForward
<1>. DEFINE p == Peer(e)
<1>1. p \in Ends /\ p # e /\ Ends = {e, p}
  BY DEF Ends, Peer
<1>. HIDE DEF p
<1>2. UNCHANGED << written, got >>
  BY DEF Exchange
<1>3. PICK n \in taken[p] .. written[p] :
        /\ n > taken[p] => eof[p] \in {"open", "closed"}
        /\ taken' = [taken EXCEPT ![p] = n]
  BY Zenon DEF Exchange, p
<1>4. PICK m \in acked[e] .. taken[e] : acked' = [acked EXCEPT ![e] = m]
  BY Zenon DEF Exchange
<1>5. PICK peerEof \in EofStates, myEof \in EofStates :
        /\ peerEof # eof[p] => eof[p] = "closed" /\ peerEof = "taken" /\ taken'[p] = written[p]
        /\ myEof # eof[e] => eof[e] = "taken" /\ myEof = "acked" /\ acked'[e] = written[e]
        /\ eof' = [eof EXCEPT ![p] = peerEof, ![e] = myEof]
  BY Zenon DEF Exchange, p
<1>6. n \in Nat /\ m \in Nat /\ taken[p] =< n /\ n =< written[p] /\ acked[e] =< m /\ m =< taken[e]
  BY <1>1, <1>3, <1>4, <1>5 DEF SInv, StreamType
<1>7. /\ taken'[p] = n /\ taken'[e] = taken[e] /\ acked'[e] = m /\ acked'[p] = acked[p]
      /\ eof'[p] = peerEof /\ eof'[e] = myEof
  BY <1>1, <1>3, <1>4, <1>5 DEF SInv, StreamType
<1>8. StreamType'
  BY <1>1, <1>2, <1>3, <1>4, <1>5, <1>6 DEF SInv, StreamType
<1>9. StreamOrder' /\ StreamForward
  BY <1>1, <1>2, <1>3, <1>4, <1>5, <1>6, <1>7 DEF SInv, StreamType, StreamOrder, StreamForward
<1>. QED  BY <1>8, <1>9 DEF SInv

\* Every step keeps the order and moves forward.
LEMMA StreamStep ==
    ASSUME MaxLen \in Nat, SInv, [StreamNext]_streamVars
    PROVE  SInv' /\ [StreamForward]_streamVars
<1>1. CASE UNCHANGED streamVars
  BY <1>1 DEF streamVars, SInv, StreamType, StreamOrder
<1>2. CASE StreamNext
  BY <1>2, WriteStep, CloseStep, ReadStep, ExchangeStep DEF StreamNext
<1>. QED  BY <1>1, <1>2

\* Bytes are read after they were taken, acknowledged after they were taken,
\* taken after they were written, and the end of the stream is taken last:
\* what push, pop, close and receive of the control blocks promise together.
THEOREM StreamOrdered == ASSUME MaxLen \in Nat PROVE StreamSpec => []StreamOrder
<1>1. SInv => StreamOrder
  BY DEF SInv
<1>2. SInv /\ [StreamNext]_streamVars => SInv'
  BY StreamStep
<1>. QED  BY <1>1, <1>2, InitSInv, PTL DEF StreamSpec

\* Nothing is taken back, and a closed stream stays closed and stops growing.
THEOREM StreamMovesForward ==
    ASSUME MaxLen \in Nat PROVE StreamSpec => [][StreamForward]_streamVars
<1>1. SInv /\ [StreamNext]_streamVars => SInv' /\ [StreamForward]_streamVars
  BY StreamStep
<1>. QED  BY <1>1, InitSInv, PTL DEF StreamSpec
=============================================================================
