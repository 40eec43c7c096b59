---------------------------- MODULE MCTesterEcho ----------------------------
EXTENDS TesterEcho

CONSTANTS s1, s2, s3, a1, a2

\* Three peers that contend for one address, and two that also change theirs;
\* the tester on an echo ECU, where it loses its connections and runs out of
\* attempts; the tester and a rival; the tester on an EdgeNode.
Cast(own, peers, lines, addrs, relay) ==
    [own |-> own, peers |-> peers, lines |-> lines, addrs |-> addrs, relay |-> relay]

MCCasts == {Cast({}, {s1, s2, s3}, 0, {a1}, FALSE),
            Cast({}, {s1, s2}, 0, {a1, a2}, FALSE),
            Cast({s1, s2}, {}, 1, {}, FALSE),
            Cast({s1}, {s3}, 1, {a1}, FALSE),
            Cast({s1}, {s3}, 1, {a2}, FALSE),
            Cast({s1}, {}, 2, {a2}, TRUE)}
=============================================================================
