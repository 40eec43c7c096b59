---------------------------- MODULE EdgeOwnership ----------------------------
(***************************************************************************)
(* The sessions of the EdgeNode implement AddressOwnership: the registry   *)
(* is the owner, a closing session has left, and a probe is an open check  *)
(* from the moment its request is written until its event is set.          *)
(***************************************************************************)
EXTENDS EdgeActivation

\* How far the probe of p[2] by p[1] has come, for sessions that both stay.
CheckOf(p) ==
    IF Closing(p[1]) \/ Closing(p[2]) THEN "none"
    ELSE IF probe[p] \in {"sending", "sendingSet", "waiting", "dead"} THEN "open"
    ELSE IF probe[p] \in {"waitingSet", "alive"} THEN "answered"
    ELSE "none"

Ownership == INSTANCE AddressOwnership WITH
    Users <- Sessions,
    Nobody <- NoSession,
    Limit <- MaxConnections,
    owner <- registry,
    left <- {s \in Sessions : Closing(s)},
    check <- [p \in Pairs |-> CheckOf(p)]

\* What the mapping rests on, beside ActivationInv: only a contender that awaits
\* its probes has any, and a session that is probed has its address for good.
ProbeInv ==
    \A c, e \in Sessions :
        probe[<<c, e>>] # "none" =>
            pc[c] \in {"probing", "reclaim"} /\ Activated(e)

\* Routing Activation keeps the promise of AddressOwnership: whatever lookups,
\* probes, reclaims, timers and teardowns interleave, an address has one owner
\* within max_connections, and it passes from an owner that stays to another
\* session only when that session's own Alive Check went unanswered
\* (_activate_with_conflict_check, _reclaim_capacity).
ImplementsOwnership == Ownership!Spec

=============================================================================
