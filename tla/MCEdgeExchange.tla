--------------------------- MODULE MCEdgeExchange ---------------------------
EXTENDS EdgeExchange

\* A late answer may meet the next request and the one after; the ECU adds a
\* frame; it sends a frame that answers nothing; a request and its replay.
MCSetups ==
    {[requests |-> 3, extras |-> 0, strays |-> FALSE, replay |-> FALSE],
     [requests |-> 2, extras |-> 1, strays |-> FALSE, replay |-> FALSE],
     [requests |-> 2, extras |-> 0, strays |-> TRUE, replay |-> FALSE],
     [requests |-> 1, extras |-> 0, strays |-> FALSE, replay |-> TRUE]}
=============================================================================
