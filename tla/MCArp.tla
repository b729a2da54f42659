------------------------------- MODULE MCArp -------------------------------
(* Instances of Arp for TLC: three hosts, and what their tasks look up.    *)
EXTENDS Arp

CONSTANTS h1, h2, h3

\* A ring: every host is asked for, and overhears a broadcast for another.
RingLookups == {<<h1, h2>>, <<h2, h3>>, <<h3, h1>>}
=============================================================================
