----------------------------- MODULE MCEcuWorker -----------------------------
EXTENDS EcuWorker

\* Each request in a version of its own.
MCPlans == {[n \in 1..MaxRequests |-> IF n = 1 THEN 2 ELSE 3]}
=============================================================================
