---------------------------- MODULE MCInetStack ----------------------------
(***************************************************************************)
(* InetStack in scenes: each gives a few things a budget and the others    *)
(* none, so that faults meet what they can harm.                           *)
(***************************************************************************)
EXTENDS InetStack

Nothing == [connects |-> 0, accepts |-> 0, pushes |-> 0, pings |-> 0, datagrams |-> 0,
            faults |-> 0, damages |-> 0, timeouts |-> 0, failures |-> 0, evictions |-> 0,
            calm |-> FALSE, prompt |-> FALSE, listening |-> TRUE, own_options |-> TRUE,
            receive_window_size |-> 3]

\* Everything at once on a network without faults.
Calm == {[Nothing EXCEPT !.calm = TRUE, !.connects = 1, !.accepts = 1, !.pushes = 2,
                         !.pings = 1, !.datagrams = 1]}

\* Pings until the sequence numbers wrap, with late, lost and repeated replies.
Pinging == {[Nothing EXCEPT !.pings = 3, !.faults = 1, !.timeouts = 1],
            [Nothing EXCEPT !.pings = 2, !.faults = 1, !.timeouts = 1, !.failures = 1, !.evictions = 1]}

\* One lost frame of a handshake, on a network that is otherwise prompt.
Losing == {[Nothing EXCEPT !.prompt = TRUE, !.connects = 1, !.accepts = 1,
                           !.faults = 1, !.timeouts = 5]}

\* Two connects whose segments are lost, repeated and late.
Opening2 == {[Nothing EXCEPT !.connects = 2, !.accepts = 1, !.faults = 2, !.timeouts = 3]}

\* One connect with more of everything, from both kinds of client; nobody
\* listens, or somebody does.
Opening1 == {[Nothing EXCEPT !.connects = 1, !.accepts = 1, !.faults = 1, !.timeouts = 3,
                             !.failures = 1, !.evictions = 1,
                             !.own_options = own, !.listening = listening] :
             own \in BOOLEAN, listening \in BOOLEAN}

\* Windows that fit when they are scaled, and ones that do not.
Windows == {[Nothing EXCEPT !.connects = 1, !.pushes = 1, !.receive_window_size = size] :
            size \in 3 .. 6}

\* One word of any frame is damaged.
Damaging == {[Nothing EXCEPT !.damages = 1, !.pings = 1],
             [Nothing EXCEPT !.damages = 1, !.datagrams = 1],
             [Nothing EXCEPT !.damages = 1, !.connects = 1, !.accepts = 1, !.pushes = 1],
             [Nothing EXCEPT !.damages = 1, !.connects = 1, !.own_options = FALSE]}

MCScenes == Calm \cup Pinging \cup Losing \cup Opening2 \cup Opening1 \cup Windows \cup Damaging

MCDigest == [h \in Hosts |-> IF h = "a" THEN 30 ELSE 4]

\* Odd and even data, and data whose checksum is zero.
MCDatagrams == {[len |-> 1, w |-> << 256 >>], [len |-> 2, w |-> << 31772 >>]}

=============================================================================
