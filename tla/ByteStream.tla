----------------------------- MODULE ByteStream -----------------------------
(***************************************************************************)
(* What a TCP connection promises its two applications: a byte stream in   *)
(* each direction.  stream e is the one that the application of end e      *)
(* writes.  Its bytes are taken over by the other end in order, they are   *)
(* acknowledged only after that, and its end is taken after its last byte. *)
(***************************************************************************)
EXTENDS Naturals

CONSTANT MaxLen    \* bytes an application may write

VARIABLES
    written,  \* bytes of stream e its application has written
    taken,    \* bytes of stream e the other end has taken over
    acked,    \* bytes of stream e that are acknowledged
    got,      \* bytes of stream e the other application has read
    eof       \* the end of stream e: open, closed, taken or acked

streamVars == << written, taken, acked, got, eof >>

Ends == {"a", "b"}

EofStates == {"open", "closed", "taken", "acked"}

Peer(e) == IF e = "a" THEN "b" ELSE "a"

StreamInit ==
    /\ written = [e \in Ends |-> 0]
    /\ taken = [e \in Ends |-> 0]
    /\ acked = [e \in Ends |-> 0]
    /\ got = [e \in Ends |-> 0]
    /\ eof = [e \in Ends |-> "open"]

Write(e) ==
    /\ eof[e] = "open"
    /\ \E n \in (written[e] + 1) .. MaxLen : written' = [written EXCEPT ![e] = n]
    /\ UNCHANGED << taken, acked, got, eof >>

CloseStream(e) ==
    /\ eof[e] = "open"
    /\ eof' = [eof EXCEPT ![e] = "closed"]
    /\ UNCHANGED << written, taken, acked, got >>

Read(e) ==
    /\ \E n \in (got[e] + 1) .. taken[e] : got' = [got EXCEPT ![e] = n]
    /\ UNCHANGED << written, taken, acked, eof >>

\* A segment brings end e more of the peer's stream, and acknowledges some of
\* its own that the peer had taken.
Exchange(e) ==
    LET p == Peer(e)
    IN  /\ UNCHANGED << written, got >>
        /\ \E n \in taken[p] .. written[p] :
              /\ n > taken[p] => eof[p] \in {"open", "closed"}
              /\ taken' = [taken EXCEPT ![p] = n]
        /\ \E m \in acked[e] .. taken[e] : acked' = [acked EXCEPT ![e] = m]
        /\ \E peerEof, myEof \in EofStates :
              /\ peerEof # eof[p] =>
                    eof[p] = "closed" /\ peerEof = "taken" /\ taken'[p] = written[p]
              /\ myEof # eof[e] =>
                    eof[e] = "taken" /\ myEof = "acked" /\ acked'[e] = written[e]
              /\ eof' = [eof EXCEPT ![p] = peerEof, ![e] = myEof]

StreamNext == \E e \in Ends : Write(e) \/ CloseStream(e) \/ Read(e) \/ Exchange(e)

StreamSpec == StreamInit /\ [][StreamNext]_streamVars
-----------------------------------------------------------------------------
\* What every implementation of the stream has: nothing is read before it was
\* taken, taken before it was written or acknowledged before it was taken, and
\* once the end of the stream is taken so is all that was written.
StreamOrder ==
    \A e \in Ends :
        /\ got[e] =< taken[e] /\ acked[e] =< taken[e] /\ taken[e] =< written[e]
        /\ eof[e] \in {"taken", "acked"} => taken[e] = written[e]

\* Nothing that was written, taken, acknowledged or read is ever taken back,
\* and after its close a stream does not grow.
StreamForward ==
    \A e \in Ends :
        /\ written[e] =< written'[e] /\ taken[e] =< taken'[e]
        /\ acked[e] =< acked'[e] /\ got[e] =< got'[e]
        /\ eof[e] # "open" => eof'[e] # "open" /\ written'[e] = written[e]

=============================================================================
