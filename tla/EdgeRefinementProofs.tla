------------------------ MODULE EdgeRefinementProofs ------------------------
(***************************************************************************)
(* Two refinements, for any set of connections, any set of tester          *)
(* addresses and any max_connections.  The sessions of the EdgeNode        *)
(* implement AddressOwnership: the mapping of EdgeOwnership, step by step. *)
(* And the server runs its sessions as EdgeActivation says, from the start *)
(* to the end of the process, so it implements AddressOwnership too; a     *)
(* finished _cleanup leaves nothing behind.                                *)
(***************************************************************************)
EXTENDS EdgeOwnership, EdgeServer, EdgeActivationProofs

-----------------------------------------------------------------------------
(* ProbeInv: which probe_alive calls exist.                                *)

\* What keeps ProbeInv: no call begins, those that remain belong to sessions
\* that stay at their await, and no session loses its address.
LEMMA ProbeKept ==
    ASSUME ProbeInv,
           \A c, e \in Sessions :
              probe'[<<c, e>>] # "none" =>
                 /\ probe[<<c, e>>] # "none"
                 /\ pc'[c] = pc[c] \/ pc[c] \notin {"probing", "reclaim"},
           \A t \in Sessions : sa[t] # NoAddr => sa'[t] # NoAddr
    PROVE  ProbeInv'
BY DEF ProbeInv, Activated

\* Closing sessions ends the calls of those in Q and begins none.
LEMMA CloseProbes ==
    ASSUME ActivationInv, ProbeInv, NEW E, NEW Q, CloseTransport(E, Q),
           \A t \in Sessions \ Q : pc'[t] = pc[t],
           \A t \in Sessions : sa[t] # NoAddr => sa'[t] # NoAddr
    PROVE  ProbeInv'
<1>1. ASSUME NEW c \in Sessions, NEW e \in Sessions, probe'[<<c, e>>] # "none"
      PROVE  c \notin Q /\ probe[<<c, e>>] # "none"
    BY <1>1 DEF CloseTransport, SetEvent, Pairs
<1> QED BY <1>1, ProbeKept

\* Leaving run().
LEMMA ExitRunProbes ==
    ASSUME ActivationInv, ProbeInv, NEW s \in Sessions, ExitRun(s)
    PROVE  ProbeInv'
<1>1. \A t \in Sessions \ {s} : pc'[t] = pc[t]
    BY DEF ExitRun, ActivationInv, TypeOK
<1> QED BY <1>1, CloseProbes DEF ExitRun, Close

\* A step that moves c out of its calls, and may register it.
LEMMA MoveProbes ==
    ASSUME ActivationInv, ProbeInv, NEW c \in Sessions, NEW E, NEW at,
           CloseTransport(E, {c}), pc' = [pc EXCEPT ![c] = at],
           \/ UNCHANGED sa
           \/ sa' = [sa EXCEPT ![c] = req[c]] /\ req[c] \in Addr
    PROVE  ProbeInv'
<1>1. \A t \in Sessions \ {c} : pc'[t] = pc[t]
    BY DEF ActivationInv, TypeOK
<1>2. \A t \in Sessions : sa[t] # NoAddr => sa'[t] # NoAddr
    BY ConstantsAssumption DEF ActivationInv, TypeOK
<1> QED BY <1>1, <1>2, CloseProbes

\* The choice at the end of a decision.
LEMMA AdmitProbes ==
    ASSUME ActivationInv, ProbeInv, NEW c \in Sessions, NEW E, Admit(c, E),
           req[c] \in Addr
    PROVE  ProbeInv'
BY MoveProbes DEF Admit, Commit, Close

\* One pass of the conflict loop: the call it begins is of a registered session.
LEMMA ConflictLookupProbes ==
    ASSUME ActivationInv, ProbeInv, NEW c \in Sessions, ConflictLookup(c),
           req[c] \in Addr
    PROVE  ProbeInv'
<1>1. CASE registry[req[c]] \in {NoSession, c}
    BY <1>1, AdmitProbes DEF ConflictLookup
<1>2. CASE registry[req[c]] \notin {NoSession, c}
    <2>1. Activated(registry[req[c]])
        BY <1>2, ConstantsAssumption DEF ActivationInv, TypeOK, RegistryExact, Activated
    <2>2. /\ pc' = [pc EXCEPT ![c] = "probing"]
          /\ probe' = [p \in Pairs |-> IF p[1] # c THEN probe[p]
                                       ELSE IF p[2] = registry[req[c]] THEN "queued"
                                       ELSE "none"]
          /\ sa' = sa
        BY <1>2 DEF ConflictLookup
    <2>3. pc'[c] = "probing" /\ \A t \in Sessions \ {c} : pc'[t] = pc[t]
        BY <2>2 DEF ActivationInv, TypeOK
    <2>4. ASSUME NEW d \in Sessions, NEW e \in Sessions
          PROVE  probe'[<<d, e>>] = IF d # c THEN probe[<<d, e>>]
                                    ELSE IF e = registry[req[c]] THEN "queued"
                                    ELSE "none"
        BY <2>2 DEF Pairs
    <2> QED BY <2>1, <2>2, <2>3, <2>4 DEF ProbeInv, Activated
<1> QED BY <1>1, <1>2

\* A step of a probe_alive call.
LEMMA ProbeStepProbes ==
    ASSUME ActivationInv, ProbeInv, NEW c \in Sessions, NEW e \in Sessions,
           ProbeStep(c, e)
    PROVE  ProbeInv'
<1>0. probe[<<c, e>>] # "none"
    BY DEF ProbeStep, ProbeStart, ProbeSent, ProbeSendFails, ProbeAnswered,
           ProbeTimeout
<1>1. ASSUME NEW state, probe' = [probe EXCEPT ![<<c, e>>] = state],
             UNCHANGED <<pc, sa>>
      PROVE  ProbeInv'
    <2>1. \A d, x \in Sessions :
             probe'[<<d, x>>] # "none" => probe[<<d, x>>] # "none"
        BY <1>0, <1>1 DEF ActivationInv, TypeOK, Pairs
    <2> QED BY <1>1, <2>1, ProbeKept
<1>2. ASSUME NEW alive, pc[c] = "probing", Decide(c, e, alive)
      PROVE  ProbeInv'
    <2>0. req[c] \in Addr
        BY <1>2 DEF ActivationInv, LockInv, HoldsLock
    <2>1. CASE Closing(c)
        BY <1>2, <2>1, ExitRunProbes DEF Decide
    <2>2. CASE ~Closing(c) /\ registry[req[c]] # e
        BY <1>2, <2>0, <2>2, ConflictLookupProbes DEF Decide
    <2>3. CASE ~Closing(c) /\ registry[req[c]] = e /\ alive
        BY <1>2, <2>3, MoveProbes DEF Decide, Close
    <2>4. CASE ~Closing(c) /\ registry[req[c]] = e /\ ~alive
        BY <1>2, <2>0, <2>4, AdmitProbes DEF Decide
    <2> QED BY <2>1, <2>2, <2>3, <2>4
<1>3. ASSUME NEW alive, ProbeReturns(c, e, alive)
      PROVE  ProbeInv'
    BY <1>1, <1>2, <1>3 DEF ProbeReturns
<1> QED BY <1>1, <1>3 DEF ProbeStep, ProbeStart, ProbeSent, ProbeSendFails,
                          ProbeAnswered, ProbeTimeout, SetProbe

\* A step of a session.
LEMMA SessionStepProbes ==
    ASSUME ActivationInv, ProbeInv, NEW s \in Sessions, SessionStep(s)
    PROVE  ProbeInv'
<1>0. TypeOK
    BY DEF ActivationInv
<1>1. ASSUME pc[s] \notin {"probing", "reclaim"}, UNCHANGED <<probe, sa>>,
             NEW at, pc' = [pc EXCEPT ![s] = at]
      PROVE  ProbeInv'
    BY <1>0, <1>1, ProbeKept DEF TypeOK
<1>2. CASE \/ Accept(s) \/ HandleConnection(s) \/ Finish(s) \/ ReadServed(s)
           \/ ReadRefused(s) \/ \E a \in Addr : ReadActivation(s, a)
    BY <1>1, <1>2 DEF Accept, HandleConnection, Finish, ReadServed,
                      ReadRefused, ReadActivation
<1>3. CASE CleanupDone(s) \/ TesterAlive(s)
    BY <1>3, ProbeKept DEF CleanupDone, TesterAlive
<1>4. CASE Forget(s)
    <2>1. \A c \in Sessions : probe[<<c, s>>] = "none"
        BY <1>4 DEF Forget
    <2>2. pc[s] = "finished" /\ probe' = probe
        BY <1>4 DEF Forget
    <2>3. \A t \in Sessions \ {s} : pc'[t] = pc[t] /\ sa'[t] = sa[t]
        BY <1>0, <1>4 DEF Forget, TypeOK
    <2> QED BY <2>1, <2>2, <2>3 DEF ProbeInv, Activated
<1>5. CASE ReadAlive(s)
    <2>1. \A c, e \in Sessions :
             probe'[<<c, e>>] # "none" => probe[<<c, e>>] # "none"
        BY <1>5 DEF ReadAlive, SetEvent, Pairs
    <2> QED BY <1>5, <2>1, ProbeKept DEF ReadAlive
<1>6. CASE \/ ReadEof(s) \/ DenyDone(s) \/ Unwound(s) \/ RespondFails(s)
    BY <1>6, ExitRunProbes DEF ReadEof, DenyDone, Unwound, RespondFails
<1>7. CASE ServeDone(s) \/ RespondDone(s)
    BY <1>1, <1>7, ExitRunProbes DEF ServeDone, RespondDone
<1>8. CASE TimerFire(s)
    <2>1. \A t \in Sessions : pc'[t] = pc[t] /\ sa'[t] = sa[t]
        BY <1>8 DEF TimerFire
    <2> QED BY <1>8, <2>1, CloseProbes DEF TimerFire, Close
<1>9. CASE Cancelled(s)
    <2>1. CASE pc[s] = "accepted"
        BY <1>1, <1>9, <2>1 DEF Cancelled
    <2>2. CASE pc[s] \in {"reclaim", "drain"}
        BY <1>9, <2>2, MoveProbes DEF Cancelled, Close
    <2>3. CASE pc[s] \notin {"accepted", "reclaim", "drain"}
        BY <1>9, <2>3, ExitRunProbes DEF Cancelled
    <2> QED BY <2>1, <2>2, <2>3
<1>10. pc[s] \in {"lockWait", "capWait", "drain"} => req[s] \in Addr
    BY DEF ActivationInv, LockInv, HoldsLock
<1>11. CASE LockGranted(s)
    <2>1. CASE Closing(s)
        BY <1>11, <2>1, ExitRunProbes DEF LockGranted
    <2>2. CASE ~Closing(s)
        BY <1>10, <1>11, <2>2, ConflictLookupProbes DEF LockGranted
    <2> QED BY <2>1, <2>2
<1>12. CASE CapacityLockGranted(s)
    <2>1. CASE Closing(s)
        BY <1>12, <2>1, ExitRunProbes DEF CapacityLockGranted
    <2>2. CASE ~Closing(s) /\ Count(registry) < MaxConnections
        BY <1>10, <1>12, <2>2, MoveProbes DEF CapacityLockGranted, Commit
    <2>3. CASE ~Closing(s) /\ ~(Count(registry) < MaxConnections)
        <3>1. /\ pc' = [pc EXCEPT ![s] = "reclaim"]
              /\ probe' = [p \in Pairs |->
                             IF p[1] # s THEN probe[p]
                             ELSE IF \E a \in Addr : registry[a] = p[2]
                             THEN "queued" ELSE "none"]
              /\ sa' = sa
            BY <1>12, <2>3 DEF CapacityLockGranted
        <3>2. \A e \in Sessions, a \in Addr : registry[a] = e => Activated(e)
            BY ConstantsAssumption DEF ActivationInv, RegistryExact, Activated
        <3>3. pc'[s] = "reclaim" /\ \A t \in Sessions \ {s} : pc'[t] = pc[t]
            BY <1>0, <3>1 DEF TypeOK
        <3>4. ASSUME NEW d \in Sessions, NEW e \in Sessions, probe'[<<d, e>>] # "none"
              PROVE  \/ d # s /\ probe[<<d, e>>] # "none"
                     \/ d = s /\ Activated(e)
            BY <3>1, <3>2, <3>4 DEF Pairs
        <3> QED BY <3>1, <3>3, <3>4 DEF ProbeInv, Activated
    <2> QED BY <2>1, <2>2, <2>3
<1>13. CASE ReclaimWake(s)
    BY <1>13, MoveProbes DEF ReclaimWake, Close
<1>14. CASE ReclaimDone(s)
    <2>1. CASE Closing(s)
        BY <1>14, <2>1, ExitRunProbes DEF ReclaimDone
    <2>2. CASE ~Closing(s)
        BY <1>10, <1>14, <2>2, MoveProbes DEF ReclaimDone, Commit, Close
    <2> QED BY <2>1, <2>2
<1> QED BY <1>2, <1>3, <1>4, <1>5, <1>6, <1>7, <1>8, <1>9, <1>11, <1>12,
           <1>13, <1>14 DEF SessionStep

\* Every step of the event loop preserves ProbeInv.
LEMMA NextProbes ==
    ASSUME ActivationInv, ProbeInv, [Next]_vars
    PROVE  ProbeInv'
<1>1. CASE UNCHANGED vars \/ Stop \/ StopCancel
    BY <1>1, ProbeKept DEF vars, Stop, StopCancel
<1> QED BY <1>1, SessionStepProbes, ProbeStepProbes DEF Next, Terminated

-----------------------------------------------------------------------------
(* The mapping of the shared steps.                                        *)

\* The sessions that have left, and the checks, as EdgeOwnership maps them.
Left == {s \in Sessions : Closing(s)}
Check == [p \in Pairs |-> CheckOf(p)]

\* Nothing that AddressOwnership sees has changed.
Still == registry' = registry /\ Left' = Left /\ Check' = Check

\* Then the step is a stuttering step of the abstract specification.
LEMMA StillMaps ==
    ASSUME Still
    PROVE  UNCHANGED Ownership!vars
BY DEF Still, Left, Check, Ownership!vars

\* The progress of a check depends on the two sessions and their probe only.
LEMMA CheckSame ==
    ASSUME NEW p \in Pairs, cleanup'[p[1]] = "no" <=> cleanup[p[1]] = "no",
           cleanup'[p[2]] = "no" <=> cleanup[p[2]] = "no", probe'[p] = probe[p]
    PROVE  CheckOf(p)' = CheckOf(p)
BY DEF CheckOf, Closing

\* A step that leaves the registry, the calls and the closing sessions alone.
LEMMA QuietMaps ==
    ASSUME UNCHANGED <<registry, probe>>,
           \A t \in Sessions : cleanup'[t] = "no" <=> cleanup[t] = "no"
    PROVE  UNCHANGED Ownership!vars
<1>1. Left' = Left
    BY DEF Left, Closing
<1>2. \A p \in Pairs : CheckOf(p)' = CheckOf(p)
    BY DEF CheckOf, Closing, Pairs
<1>3. Check' = Check
    BY <1>2 DEF Check
<1> QED BY <1>1, <1>3, StillMaps DEF Still

\* Closing the sessions in E: they leave, their checks and those of the
\* sessions in Q end, and what they owned is released.
LEMMA CloseMaps ==
    ASSUME ActivationInv, NEW E \in SUBSET Sessions, NEW Q, CloseTransport(E, Q)
    PROVE  /\ Left' = Left \cup E
           /\ Check' = Ownership!Without(E, Q)
           /\ Unregister(E) = Ownership!Released(E)
<1>0. \A t \in Sessions : cleanup'[t] = "no" <=> cleanup[t] = "no" /\ t \notin E
    BY DEF CloseTransport, ActivationInv, TypeOK
<1>1. Left' = Left \cup E
    BY <1>0 DEF Left, Closing
<1>2. ASSUME NEW p \in Pairs
      PROVE  CheckOf(p)' = IF p[1] \in E \cup Q \/ p[2] \in E THEN "none"
                           ELSE CheckOf(p)
    <2>1. p[1] \in Sessions /\ p[2] \in Sessions
        BY DEF Pairs
    <2>2. CASE p[1] \in E \/ p[2] \in E
        BY <1>0, <2>1, <2>2 DEF CheckOf, Closing
    <2>3. CASE p[1] \in Q
        <3>1. probe'[p] = "none"
            BY <2>3 DEF CloseTransport
        <3> QED BY <2>3, <3>1 DEF CheckOf
    <2>4. CASE p[1] \notin E \cup Q /\ p[2] \notin E
        <3>1. probe'[p] = probe[p]
            BY <2>4 DEF CloseTransport
        <3> QED BY <1>0, <2>1, <2>4, <3>1 DEF CheckOf, Closing
    <2> QED BY <2>2, <2>3, <2>4
<1>3. Check' = Ownership!Without(E, Q)
    BY <1>2 DEF Check, Ownership!Without, Pairs
<1>4. Unregister(E) = Ownership!Released(E)
    BY ConstantsAssumption
       DEF Unregister, Ownership!Released, ActivationInv, RegistryExact, TypeOK
<1> QED BY <1>1, <1>3, <1>4

\* Closing nobody releases nothing.
LEMMA UnregisterNobody ==
    ASSUME TypeOK
    PROVE  Unregister({}) = registry
BY DEF Unregister, TypeOK

\* A session wants to know no longer.
LEMMA DropMaps ==
    ASSUME ActivationInv, NEW c \in Sessions, CloseTransport({}, {c}),
           registry' = registry
    PROVE  Ownership!Next
<1>1. Left' = Left /\ Check' = Ownership!Without({}, {c})
    BY CloseMaps
<1>2. Ownership!Drop(c)
    BY <1>1 DEF Ownership!Drop, Left, Check
<1> QED BY <1>2 DEF Ownership!Next

\* The same as Close of nobody.
LEMMA CloseNobodyMaps ==
    ASSUME ActivationInv, NEW c \in Sessions, Close({}, {c})
    PROVE  Ownership!Next
BY DropMaps, UnregisterNobody DEF Close, ActivationInv

\* A session leaves: its timer fired, or run() ended.
LEMMA LeaveMaps ==
    ASSUME ActivationInv, NEW s \in Sessions, NEW Q \in SUBSET {s}, Close({s}, Q)
    PROVE  Ownership!Next
<1>1. /\ Left' = Left \cup {s}
      /\ Check' = Ownership!Without({s}, Q)
      /\ registry' = Ownership!Released({s})
    BY CloseMaps DEF Close
<1>2. Ownership!Without({s}, Q) = Ownership!Without({s}, {})
    BY DEF Ownership!Without
<1>3. Ownership!Leave(s)
    BY <1>1, <1>2 DEF Ownership!Leave, Left, Check
<1> QED BY <1>3 DEF Ownership!Next

\* Leaving run().
LEMMA ExitRunMaps ==
    ASSUME ActivationInv, NEW s \in Sessions, ExitRun(s)
    PROVE  Ownership!Next
BY LeaveMaps DEF ExitRun

\* A session that is not activated owns nothing.
LEMMA OwnsNothing ==
    ASSUME ActivationInv, NEW c \in Sessions, ~Activated(c)
    PROVE  ~Ownership!Owns(c)
BY ConstantsAssumption DEF ActivationInv, RegistryExact, Activated, Ownership!Owns

\* The instance counts as this module does.
LEMMA SameCardinality ==
    ASSUME NEW S
    PROVE  Ownership!Cardinality(S) = Cardinality(S)
BY DEF Ownership!Cardinality, Cardinality, Ownership!IsFiniteSet, IsFiniteSet

\* The commit of a free address within the limit is a claim.
LEMMA ClaimMaps ==
    ASSUME ActivationInv, NEW c \in Sessions, Commit(c, {}), ~Closing(c),
           req[c] \in Addr, ~Activated(c), registry[req[c]] = NoSession,
           Count(registry) < MaxConnections
    PROVE  Ownership!Next
<1>1. Left' = Left /\ Check' = Ownership!Without({}, {c})
    BY CloseMaps DEF Commit
<1>2. registry' = [registry EXCEPT ![req[c]] = c]
    BY UnregisterNobody DEF Commit, ActivationInv
<1>3. ~Ownership!Owns(c) /\ c \notin Left
    BY OwnsNothing DEF Left
<1>4. Ownership!Claim(c, req[c])
    BY <1>1, <1>2, <1>3, SameCardinality DEF Ownership!Claim, Left, Check, Count
<1> QED BY <1>4 DEF Ownership!Next

\* A repeated activation of one's own address changes nothing.
LEMMA RepeatMaps ==
    ASSUME ActivationInv, NEW c \in Sessions, Commit(c, {}),
           req[c] \in Addr, registry[req[c]] = c
    PROVE  Ownership!Next
<1>1. registry' = registry
    BY UnregisterNobody DEF Commit, ActivationInv, TypeOK
<1> QED BY <1>1, DropMaps DEF Commit

\* Nobody else owns the address: it is claimed, or a repeat, or there is no
\* place and the contender goes on to the capacity lock.
LEMMA AdmitFreeMaps ==
    ASSUME ActivationInv, NEW c \in Sessions, Admit(c, {}), ~Closing(c),
           req[c] \in Addr, registry[req[c]] \in {NoSession, c},
           Activated(c) => sa[c] = req[c]
    PROVE  Ownership!Next
<1>1. CASE Activated(c)
    <2>1. registry[req[c]] = c
        BY <1>1 DEF ActivationInv, RegistryExact
    <2> QED BY <1>1, <2>1, RepeatMaps DEF Admit
<1>2. CASE ~Activated(c)
    <2>1. registry[req[c]] = NoSession
        BY <1>2, ConstantsAssumption DEF ActivationInv, RegistryExact, Activated
    <2>2. Unregister({}) = registry
        BY UnregisterNobody DEF ActivationInv
    <2>3. CASE Count(registry) < MaxConnections
        BY <1>2, <2>1, <2>2, <2>3, ClaimMaps DEF Admit
    <2>4. CASE ~(Count(registry) < MaxConnections)
        BY <1>2, <2>2, <2>4, CloseNobodyMaps DEF Admit
    <2> QED BY <2>3, <2>4
<1> QED BY <1>1, <1>2

\* One pass of the conflict loop: a call that only waits for its turn is not
\* yet a check.
LEMMA ConflictLookupMaps ==
    ASSUME ActivationInv, NEW c \in Sessions, ConflictLookup(c), ~Closing(c),
           req[c] \in Addr, Activated(c) => sa[c] = req[c]
    PROVE  Ownership!Next
<1>1. CASE registry[req[c]] \in {NoSession, c}
    BY <1>1, AdmitFreeMaps DEF ConflictLookup
<1>2. CASE registry[req[c]] \notin {NoSession, c}
    <2>1. /\ probe' = [p \in Pairs |-> IF p[1] # c THEN probe[p]
                                       ELSE IF p[2] = registry[req[c]] THEN "queued"
                                       ELSE "none"]
          /\ UNCHANGED <<cleanup, registry>>
        BY <1>2 DEF ConflictLookup
    <2>2. \A p \in Pairs : CheckOf(p)' = IF p[1] = c THEN "none" ELSE CheckOf(p)
        BY <2>1 DEF CheckOf, Closing
    <2>3. Check' = Ownership!Without({}, {c})
        BY <2>2 DEF Check, Ownership!Without, Pairs
    <2>4. Left' = Left
        BY <2>1 DEF Left, Closing
    <2>5. Ownership!Drop(c)
        BY <2>1, <2>3, <2>4 DEF Ownership!Drop, Left, Check
    <2> QED BY <2>5 DEF Ownership!Next
<1> QED BY <1>1, <1>2

\* An owner whose check went unanswered loses its address to the contender, or
\* at least its place.
LEMMA AdmitOverMaps ==
    ASSUME ActivationInv, NEW c \in Sessions, NEW e \in Sessions, e # c,
           Admit(c, {e}), ~Closing(c), req[c] \in Addr, registry[req[c]] = e,
           Activated(c) => sa[c] = req[c],
           probe[<<c, e>>] \in {"sending", "sendingSet", "waiting"}
    PROVE  Ownership!Next
<1>1. ~Closing(e) /\ sa[e] = req[c]
    BY ConstantsAssumption DEF ActivationInv, RegistryExact
<1>2. ~Activated(c)
    BY DEF ActivationInv, RegistryExact
<1>3. <<c, e>> \in Pairs /\ CheckOf(<<c, e>>) = "open"
    BY <1>1 DEF Pairs, CheckOf
<1>4. Check[<<c, e>>] = "open"
    BY <1>3 DEF Check
<1>5. CASE Commit(c, {e})
    <2>1. /\ Left' = Left \cup {e}
          /\ Check' = Ownership!Without({e}, {c})
        BY <1>5, CloseMaps DEF Commit
    <2>2. registry' = [registry EXCEPT ![req[c]] = c]
        BY <1>1, <1>5 DEF Commit, Unregister, ActivationInv, TypeOK
    <2>3. ~Ownership!Owns(c) /\ c \notin Left
        BY <1>2, OwnsNothing DEF Left
    <2>4. Ownership!TakeOver(c, req[c])
        BY <1>4, <2>1, <2>2, <2>3, ConstantsAssumption
           DEF Ownership!TakeOver, Left, Check
    <2> QED BY <2>4 DEF Ownership!Next
<1>6. CASE Close({e}, {c})
    <2>1. /\ Left' = Left \cup {e}
          /\ Check' = Ownership!Without({e}, {c})
          /\ registry' = Ownership!Released({e})
        BY <1>6, CloseMaps DEF Close
    <2>2. Ownership!Evict(c, {e})
        BY <1>4, <2>1 DEF Ownership!Evict, Left, Check
    <2> QED BY <2>2 DEF Ownership!Next
<1> QED BY <1>5, <1>6 DEF Admit

-----------------------------------------------------------------------------
(* The mapping of the steps of a probe.                                    *)

\* A step that moves the probe <<c, e>> on and nothing else.
LEMMA OneProbeMaps ==
    ASSUME ActivationInv, NEW c \in Sessions, NEW e \in Sessions,
           NEW state \in ProbeStates, SetProbe(c, e, state)
    PROVE  /\ registry' = registry
           /\ Left' = Left
           /\ Check' = [Check EXCEPT ![<<c, e>>] = CheckOf(<<c, e>>)']
           /\ probe'[<<c, e>>] = state
           /\ UNCHANGED cleanup
<1>1. registry' = registry /\ cleanup' = cleanup /\ Left' = Left
    BY DEF SetProbe, Left, Closing
<1>2. /\ <<c, e>> \in Pairs
      /\ probe' = [probe EXCEPT ![<<c, e>>] = state]
      /\ probe \in [Pairs -> ProbeStates]
    BY DEF SetProbe, Pairs, ActivationInv, TypeOK
<1>3. \A p \in Pairs : p # <<c, e>> => CheckOf(p)' = CheckOf(p)
    BY <1>1, <1>2 DEF CheckOf, Closing
<1>4. Check' = [Check EXCEPT ![<<c, e>>] = CheckOf(<<c, e>>)']
    BY <1>2, <1>3 DEF Check
<1> QED BY <1>1, <1>2, <1>4

\* A probe that moves on within the same phase of its check.
LEMMA SamePhaseMaps ==
    ASSUME ActivationInv, NEW c \in Sessions, NEW e \in Sessions,
           NEW state \in ProbeStates, SetProbe(c, e, state),
           CheckOf(<<c, e>>)' = CheckOf(<<c, e>>)
    PROVE  UNCHANGED Ownership!vars
<1>1. <<c, e>> \in Pairs
    BY DEF Pairs
<1>2. Check' = [Check EXCEPT ![<<c, e>>] = CheckOf(<<c, e>>)]
    BY OneProbeMaps
<1>3. Check' = Check
    BY <1>1, <1>2 DEF Check
<1> QED BY <1>3, OneProbeMaps, StillMaps DEF Still

\* probe_alive returns: the conflict loop decides, a task keeps the result.
LEMMA ProbeReturnsMaps ==
    ASSUME ActivationInv, NEW c \in Sessions, NEW e \in Sessions, e # c,
           NEW alive \in BOOLEAN, ProbeReturns(c, e, alive),
           \/ alive /\ probe[<<c, e>>] = "waitingSet" /\ ~Closing(e)
           \/ ~alive /\ probe[<<c, e>>] \in {"sending", "sendingSet", "waiting"}
           \/ ~alive /\ Closing(e)
    PROVE  [Ownership!Next]_(Ownership!vars)
<1>1. CASE pc[c] = "probing" /\ Decide(c, e, alive)
    <2>0. req[c] \in Addr /\ (Activated(c) => sa[c] = req[c])
        BY <1>1 DEF ActivationInv, LockInv, HoldsLock
    <2>1. CASE Closing(c)
        BY <1>1, <2>1, ExitRunMaps DEF Decide
    <2>2. CASE ~Closing(c) /\ registry[req[c]] # e
        BY <1>1, <2>0, <2>2, ConflictLookupMaps DEF Decide
    <2>3. CASE ~Closing(c) /\ registry[req[c]] = e /\ alive
        BY <1>1, <2>3, CloseNobodyMaps DEF Decide
    <2>4. CASE ~Closing(c) /\ registry[req[c]] = e /\ ~alive
        <3>1. ~Closing(e)
            BY <2>0, <2>4, ConstantsAssumption DEF ActivationInv, RegistryExact
        <3> QED BY <1>1, <2>0, <2>4, <3>1, AdmitOverMaps DEF Decide
    <2> QED BY <2>1, <2>2, <2>3, <2>4
<1>2. CASE pc[c] = "reclaim"
    <2>1. SetProbe(c, e, IF alive THEN "alive" ELSE "dead")
        BY <1>2 DEF ProbeReturns, SetProbe
    <2>2. (IF alive THEN "alive" ELSE "dead") \in ProbeStates
        BY DEF ProbeStates
    <2>3. /\ probe'[<<c, e>>] = IF alive THEN "alive" ELSE "dead"
          /\ UNCHANGED cleanup
        BY <2>1, <2>2, OneProbeMaps
    <2>4. CheckOf(<<c, e>>)' = CheckOf(<<c, e>>)
        BY <2>3 DEF CheckOf, Closing
    <2> QED BY <2>1, <2>2, <2>4, SamePhaseMaps
<1> QED BY <1>1, <1>2 DEF ProbeReturns

\* An event that is set answers the open check.
LEMMA AnswerOneMaps ==
    ASSUME ActivationInv, NEW c \in Sessions, NEW e \in Sessions,
           probe[<<c, e>>] = "sendingSet", SetProbe(c, e, "waitingSet")
    PROVE  [Ownership!Next]_(Ownership!vars)
<1>0. "waitingSet" \in ProbeStates /\ <<c, e>> \in Pairs
    BY DEF ProbeStates, Pairs
<1>1. /\ registry' = registry
      /\ Left' = Left
      /\ Check' = [Check EXCEPT ![<<c, e>>] = CheckOf(<<c, e>>)']
      /\ probe'[<<c, e>>] = "waitingSet"
      /\ UNCHANGED cleanup
    BY <1>0, OneProbeMaps
<1>2. CASE Closing(c) \/ Closing(e)
    <2>1. CheckOf(<<c, e>>)' = CheckOf(<<c, e>>)
        BY <1>1, <1>2 DEF CheckOf, Closing
    <2> QED BY <1>0, <2>1, SamePhaseMaps
<1>3. CASE ~Closing(c) /\ ~Closing(e)
    <2>1. CheckOf(<<c, e>>)' = "answered" /\ CheckOf(<<c, e>>) = "open"
        BY <1>1, <1>3 DEF CheckOf, Closing
    <2>2. /\ {<<c, e>>} \in SUBSET {p \in Pairs : Check[p] = "open"}
          /\ Check' = [p \in Pairs |-> IF p \in {<<c, e>>} THEN "answered"
                                       ELSE Check[p]]
        BY <1>0, <1>1, <2>1 DEF Check
    <2>3. Ownership!Answer
        BY <1>1, <2>2 DEF Ownership!Answer, Left, Check, Pairs
    <2> QED BY <2>3 DEF Ownership!Next
<1> QED BY <1>2, <1>3

\* A step of a probe_alive call.
LEMMA ProbeStepMaps ==
    ASSUME ActivationInv, ProbeInv, NEW c \in Sessions, NEW e \in Sessions,
           ProbeStep(c, e)
    PROVE  [Ownership!Next]_(Ownership!vars)
<1>0. probe[<<c, e>>] # "none"
    BY DEF ProbeStep, ProbeStart, ProbeSent, ProbeSendFails, ProbeAnswered,
           ProbeTimeout
<1>1. e # c /\ Activated(e) /\ <<c, e>> \in Pairs
    BY <1>0 DEF ActivationInv, PhaseInv, ProbeInv, Pairs
<1>2. CASE ProbeStart(c, e)
    <2>1. CASE Closing(e)
        BY <1>1, <1>2, <2>1, ProbeReturnsMaps DEF ProbeStart
    <2>2. CASE ~Closing(e)
        <3>1. probe[<<c, e>>] = "queued" /\ SetProbe(c, e, "sending")
            BY <1>1, <1>2, <2>2 DEF ProbeStart
        <3>2. "sending" \in ProbeStates
            BY DEF ProbeStates
        <3>3. /\ registry' = registry
              /\ Left' = Left
              /\ Check' = [Check EXCEPT ![<<c, e>>] = CheckOf(<<c, e>>)']
              /\ probe'[<<c, e>>] = "sending"
              /\ UNCHANGED cleanup
            BY <3>1, <3>2, OneProbeMaps
        <3>4. CASE Closing(c)
            <4>1. CheckOf(<<c, e>>)' = CheckOf(<<c, e>>)
                BY <3>3, <3>4 DEF CheckOf, Closing
            <4> QED BY <3>1, <3>2, <4>1, SamePhaseMaps
        <3>5. CASE ~Closing(c)
            <4>1. CheckOf(<<c, e>>)' = "open" /\ CheckOf(<<c, e>>) = "none"
                BY <2>2, <3>1, <3>3, <3>5 DEF CheckOf, Closing
            <4>2. Check[<<c, e>>] = "none"
                BY <1>1, <4>1 DEF Check
            <4>3. sa[e] \in Addr /\ registry[sa[e]] = e
                BY <1>1, <2>2 DEF ActivationInv, TypeOK, RegistryExact, Activated
            <4>4. Ownership!Owns(e)
                BY <4>3 DEF Ownership!Owns
            <4>5. Ownership!Ask(c, e)
                BY <1>1, <3>3, <4>1, <4>2, <4>4 DEF Ownership!Ask, Left, Check
            <4> QED BY <4>5 DEF Ownership!Next
        <3> QED BY <3>4, <3>5
    <2> QED BY <2>1, <2>2
<1>3. CASE ProbeSent(c, e)
    <2>1. CASE probe[<<c, e>>] = "sending" /\ SetProbe(c, e, "waiting")
        <3>1. "waiting" \in ProbeStates
            BY DEF ProbeStates
        <3>2. probe'[<<c, e>>] = "waiting" /\ UNCHANGED cleanup
            BY <2>1, <3>1, OneProbeMaps
        <3>3. CheckOf(<<c, e>>)' = CheckOf(<<c, e>>)
            BY <2>1, <3>2 DEF CheckOf, Closing
        <3> QED BY <2>1, <3>1, <3>3, SamePhaseMaps
    <2>2. CASE probe[<<c, e>>] = "sendingSet" /\ SetProbe(c, e, "waitingSet")
        BY <2>2, AnswerOneMaps
    <2> QED BY <1>3, <2>1, <2>2 DEF ProbeSent
<1>4. CASE ProbeSendFails(c, e)
    BY <1>1, <1>4, ProbeReturnsMaps DEF ProbeSendFails
<1>5. CASE ProbeAnswered(c, e)
    <2>1. CASE Closing(e)
        BY <1>1, <1>5, <2>1, ProbeReturnsMaps DEF ProbeAnswered
    <2>2. CASE ~Closing(e)
        BY <1>1, <1>5, <2>2, ProbeReturnsMaps DEF ProbeAnswered
    <2> QED BY <2>1, <2>2
<1>6. CASE ProbeTimeout(c, e)
    BY <1>1, <1>6, ProbeReturnsMaps DEF ProbeTimeout
<1> QED BY <1>2, <1>3, <1>4, <1>5, <1>6 DEF ProbeStep

-----------------------------------------------------------------------------
(* The mapping of the steps of a session.                                  *)

\* The identity of an ended connection returns.
LEMMA ForgetMaps ==
    ASSUME ActivationInv, ProbeInv, NEW s \in Sessions, Forget(s)
    PROVE  [Ownership!Next]_(Ownership!vars)
<1>1. /\ cleanup' = [cleanup EXCEPT ![s] = "no"]
      /\ UNCHANGED <<registry, probe>>
      /\ cleanup \in [Sessions -> {"no", "running", "done"}]
    BY DEF Forget, ActivationInv, TypeOK
<1>2. \A t \in Sessions : probe[<<t, s>>] = "none" /\ probe[<<s, t>>] = "none"
    BY DEF Forget, ProbeInv
<1>3. ASSUME NEW p \in Pairs PROVE CheckOf(p)' = CheckOf(p)
    <2>1. p[1] \in Sessions /\ p[2] \in Sessions /\ p = <<p[1], p[2]>>
        BY DEF Pairs
    <2>2. CASE p[1] = s \/ p[2] = s
        <3>1. probe[p] = "none"
            BY <1>2, <2>1, <2>2
        <3> QED BY <1>1, <3>1 DEF CheckOf
    <2>3. CASE p[1] # s /\ p[2] # s
        BY <1>1, <2>1, <2>3 DEF CheckOf, Closing
    <2> QED BY <2>2, <2>3
<1>4. Check' = Check
    BY <1>3 DEF Check
<1>5. Left' = Left \ {s}
    BY <1>1 DEF Left, Closing
<1>6. CASE s \in Left
    <2>1. Ownership!Return(s)
        BY <1>1, <1>4, <1>5, <1>6 DEF Ownership!Return, Left, Check
    <2> QED BY <2>1 DEF Ownership!Next
<1>7. CASE s \notin Left
    BY <1>1, <1>4, <1>5, <1>7, StillMaps DEF Still
<1> QED BY <1>6, <1>7

\* An Alive Check Response answers the check whose request has been written.
LEMMA ReadAliveMaps ==
    ASSUME ActivationInv, NEW e \in Sessions, ReadAlive(e)
    PROVE  [Ownership!Next]_(Ownership!vars)
<1> DEFINE P == {p \in Pairs : /\ p[2] = e /\ Activated(e)
                               /\ probe[p] = "waiting" /\ Check[p] = "open"}
<1>1. /\ probe' = [p \in Pairs |-> IF p[2] = e /\ Activated(e)
                                   THEN SetEvent(probe[p]) ELSE probe[p]]
      /\ UNCHANGED <<registry, cleanup>>
    BY DEF ReadAlive
<1>2. Left' = Left
    BY <1>1 DEF Left, Closing
<1>3. ASSUME NEW p \in Pairs
      PROVE  CheckOf(p)' = IF p \in P THEN "answered" ELSE Check[p]
    <2>1. Check[p] = CheckOf(p)
        BY DEF Check
    <2>2. CASE p[2] = e /\ Activated(e) /\ probe[p] = "waiting"
        <3>1. probe'[p] = "waitingSet"
            BY <1>1, <2>2 DEF SetEvent
        <3> QED BY <1>1, <2>1, <2>2, <3>1 DEF CheckOf, Closing
    <2>3. CASE p[2] = e /\ Activated(e) /\ probe[p] = "sending"
        <3>1. probe'[p] = "sendingSet"
            BY <1>1, <2>3 DEF SetEvent
        <3> QED BY <1>1, <2>1, <2>3, <3>1 DEF CheckOf, Closing
    <2>4. CASE ~(p[2] = e /\ Activated(e) /\ probe[p] \in {"waiting", "sending"})
        <3>1. probe'[p] = probe[p]
            BY <1>1, <2>4 DEF SetEvent
        <3> QED BY <1>1, <2>1, <2>4, <3>1 DEF CheckOf, Closing
    <2> QED BY <2>2, <2>3, <2>4
<1>4. /\ P \in SUBSET {p \in Pairs : Check[p] = "open"}
      /\ Check' = [p \in Pairs |-> IF p \in P THEN "answered" ELSE Check[p]]
    BY <1>3 DEF Check
<1> HIDE DEF P
<1>5. Ownership!Answer
    BY <1>1, <1>2, <1>4 DEF Ownership!Answer, Left, Check, Pairs
<1> QED BY <1>5 DEF Ownership!Next

\* The capacity lock: a place has become free, or everybody is probed.
LEMMA CapacityLockGrantedMaps ==
    ASSUME ActivationInv, NEW c \in Sessions, CapacityLockGranted(c)
    PROVE  Ownership!Next
<1>0. /\ req[c] \in Addr
      /\ ~Activated(c)
      /\ registry[req[c]] = NoSession
    BY DEF ActivationInv, LockInv, HoldsLock, CapacityLockGranted
<1>1. CASE Closing(c)
    BY <1>1, ExitRunMaps DEF CapacityLockGranted
<1>2. CASE ~Closing(c) /\ Count(registry) < MaxConnections
    BY <1>0, <1>2, ClaimMaps DEF CapacityLockGranted
<1>3. CASE ~Closing(c) /\ ~(Count(registry) < MaxConnections)
    <2>1. /\ probe' = [p \in Pairs |->
                         IF p[1] # c THEN probe[p]
                         ELSE IF \E a \in Addr : registry[a] = p[2]
                         THEN "queued" ELSE "none"]
          /\ UNCHANGED <<registry, cleanup>>
        BY <1>3 DEF CapacityLockGranted
    <2>2. \A p \in Pairs : CheckOf(p)' = IF p[1] = c THEN "none" ELSE CheckOf(p)
        BY <2>1 DEF CheckOf, Closing
    <2>3. Check' = Ownership!Without({}, {c})
        BY <2>2 DEF Check, Ownership!Without, Pairs
    <2>4. Left' = Left
        BY <2>1 DEF Left, Closing
    <2>5. Ownership!Drop(c)
        BY <2>1, <2>3, <2>4 DEF Ownership!Drop, Left, Check
    <2> QED BY <2>5 DEF Ownership!Next
<1> QED BY <1>1, <1>2, <1>3

\* Reclaiming: only owners whose check went unanswered are evicted.
LEMMA ReclaimWakeMaps ==
    ASSUME ActivationInv, NEW c \in Sessions, ReclaimWake(c)
    PROVE  Ownership!Next
<1> DEFINE dead == {e \in Sessions : /\ probe[<<c, e>>] = "dead"
                                     /\ sa[e] # NoAddr
                                     /\ registry[sa[e]] = e}
<1>1. CASE Closing(c)
    BY <1>1, CloseNobodyMaps DEF ReclaimWake
<1>2. CASE ~Closing(c)
    <2>1. Close(dead, {c}) /\ dead \in SUBSET Sessions
        BY <1>2 DEF ReclaimWake
    <2>2. ASSUME NEW e \in dead PROVE Check[<<c, e>>] = "open"
        <3>1. ~Closing(e)
            BY ConstantsAssumption DEF ActivationInv, TypeOK, RegistryExact
        <3>2. <<c, e>> \in Pairs
            BY DEF Pairs
        <3> QED BY <1>2, <3>1, <3>2 DEF Check, CheckOf
    <2> HIDE DEF dead
    <2>3. /\ Left' = Left \cup dead
          /\ Check' = Ownership!Without(dead, {c})
          /\ registry' = Ownership!Released(dead)
        BY <2>1, CloseMaps DEF Close
    <2>4. Ownership!Evict(c, dead)
        BY <2>2, <2>3 DEF Ownership!Evict, Left, Check
    <2> QED BY <2>1, <2>4 DEF Ownership!Next
<1> QED BY <1>1, <1>2

\* After the reclaim: denied, or the place is taken.
LEMMA ReclaimDoneMaps ==
    ASSUME ActivationInv, NEW c \in Sessions, ReclaimDone(c)
    PROVE  Ownership!Next
<1>0. /\ req[c] \in Addr
      /\ ~Activated(c)
      /\ registry[req[c]] = NoSession
    BY DEF ActivationInv, LockInv, HoldsLock, ReclaimDone
<1>1. CASE Closing(c)
    BY <1>1, ExitRunMaps DEF ReclaimDone
<1>2. CASE ~Closing(c) /\ Count(registry) >= MaxConnections
    BY <1>2, CloseNobodyMaps DEF ReclaimDone
<1>3. CASE ~Closing(c) /\ ~(Count(registry) >= MaxConnections)
    <2>1. Count(registry) \in Nat
        BY CountMonotonic
    <2>2. Count(registry) < MaxConnections
        BY <1>3, <2>1, ConstantsAssumption
    <2> QED BY <1>0, <1>3, <2>2, ClaimMaps DEF ReclaimDone
<1> QED BY <1>1, <1>2, <1>3

\* A step of a session.
LEMMA SessionStepMaps ==
    ASSUME ActivationInv, ProbeInv, NEW s \in Sessions, SessionStep(s)
    PROVE  [Ownership!Next]_(Ownership!vars)
<1>1. CASE \/ Accept(s) \/ HandleConnection(s) \/ Finish(s) \/ ReadServed(s)
           \/ ReadRefused(s) \/ TesterAlive(s)
           \/ \E a \in Addr : ReadActivation(s, a)
    BY <1>1, QuietMaps DEF Accept, HandleConnection, Finish, ReadServed,
                           ReadRefused, TesterAlive, ReadActivation
<1>2. CASE CleanupDone(s)
    <2>1. \A t \in Sessions : cleanup'[t] = "no" <=> cleanup[t] = "no"
        BY <1>2 DEF CleanupDone, ActivationInv, TypeOK
    <2> QED BY <1>2, <2>1, QuietMaps DEF CleanupDone
<1>3. CASE Forget(s)
    BY <1>3, ForgetMaps
<1>4. CASE Cancelled(s)
    <2>1. CASE pc[s] = "accepted"
        BY <1>4, <2>1, QuietMaps DEF Cancelled
    <2>2. CASE pc[s] \in {"reclaim", "drain"}
        BY <1>4, <2>2, CloseNobodyMaps DEF Cancelled
    <2>3. CASE pc[s] \notin {"accepted", "reclaim", "drain"}
        BY <1>4, <2>3, ExitRunMaps DEF Cancelled
    <2> QED BY <2>1, <2>2, <2>3
<1>5. CASE ReadEof(s) \/ DenyDone(s) \/ Unwound(s) \/ RespondFails(s)
    BY <1>5, ExitRunMaps DEF ReadEof, DenyDone, Unwound, RespondFails
<1>6. CASE ServeDone(s) \/ RespondDone(s)
    BY <1>6, ExitRunMaps, QuietMaps DEF ServeDone, RespondDone
<1>7. CASE ReadAlive(s)
    BY <1>7, ReadAliveMaps
<1>8. CASE TimerFire(s)
    BY <1>8, LeaveMaps DEF TimerFire
<1>9. CASE LockGranted(s)
    <2>1. CASE Closing(s)
        BY <1>9, <2>1, ExitRunMaps DEF LockGranted
    <2>2. CASE ~Closing(s)
        <3>1. req[s] \in Addr /\ (Activated(s) => sa[s] = req[s])
            BY <1>9 DEF LockGranted, ActivationInv, LockInv
        <3> QED BY <1>9, <2>2, <3>1, ConflictLookupMaps DEF LockGranted
    <2> QED BY <2>1, <2>2
<1> QED BY <1>1, <1>2, <1>3, <1>4, <1>5, <1>6, <1>7, <1>8, <1>9,
           CapacityLockGrantedMaps, ReclaimWakeMaps, ReclaimDoneMaps
        DEF SessionStep

-----------------------------------------------------------------------------
(* The theorems.                                                           *)

\* Only a contender that awaits its probes has any, and whoever is probed
\* has an address.
THEOREM ProbesOwned == Spec => []ProbeInv
<1>1. Init => ProbeInv
    BY DEF Init, ProbeInv, Pairs
<1> QED BY <1>1, NextProbes, ActivationSafe, PTL DEF Spec

\* Routing Activation implements AddressOwnership: every step of the event
\* loop is a step of the promise or leaves it alone.  So for any number of
\* connections, addresses and places, an address passes from an owner that
\* stays to another session only when that session's own Alive Check went
\* unanswered (_activate_with_conflict_check, _reclaim_capacity).
THEOREM OwnershipImplemented == Spec => ImplementsOwnership
<1>1. Init => Ownership!Init
    <2> SUFFICES ASSUME Init PROVE Ownership!Init
        OBVIOUS
    <2>1. {s \in Sessions : Closing(s)} = {}
        BY DEF Init, Closing
    <2>2. [p \in Pairs |-> CheckOf(p)] = [p \in Pairs |-> "none"]
        BY DEF Init, CheckOf
    <2> QED BY <2>1, <2>2 DEF Init, Ownership!Init, Pairs
<1>2. ASSUME ActivationInv, ProbeInv, [Next]_vars
      PROVE  [Ownership!Next]_(Ownership!vars)
    <2>1. CASE UNCHANGED vars \/ Stop \/ StopCancel
        BY <2>1, QuietMaps DEF vars, Stop, StopCancel
    <2> QED BY <1>2, <2>1, SessionStepMaps, ProbeStepMaps DEF Next, Terminated
<1> QED BY <1>1, <1>2, ActivationSafe, ProbesOwned, PTL
        DEF Spec, ImplementsOwnership, Ownership!Spec

-----------------------------------------------------------------------------
(* The sessions of the server are those of EdgeActivation.                 *)

\* The sessions' variables change as EdgeActivation says or not at all.
LEMMA SessionsMap ==
    ASSUME [ServerNext]_allVars
    PROVE  [Next]_vars
<1>1. ASSUME StopCall PROVE [Next]_vars
    BY <1>1 DEF StopCall, Next, vars
<1>2. CASE UNCHANGED allVars
    BY <1>2 DEF allVars, vars
<1>3. CASE Start \/ StartFails \/ Ended \/ OpenUdp \/ Announced \/ StopReturns
    BY <1>3 DEF Start, StartFails, Ended, allVars, vars, OpenUdp, Announced,
                StopReturns
<1>4. CASE \E p \in Ports : Bind(p) \/ Record(p)
    BY <1>4 DEF Bind, Record
<1>5. CASE BootEnds \/ GatherRaises \/ StopByCaller
    BY <1>1, <1>5 DEF BootEnds, GatherRaises, StopByCaller
<1>6. CASE CancelStart
    BY <1>1, <1>6 DEF CancelStart
<1>7. CASE CleanupStep
    BY <1>7 DEF CleanupStep, CleanupCancelsStartup, CleanupListeners,
                TasksJoined
<1>8. CASE ListenersClosed
    BY <1>8 DEF ListenersClosed, Next
<1>9. CASE \E s \in Sessions : Connection(s)
    BY <1>9 DEF Connection, Next
<1>10. CASE \E c, e \in Sessions : ProbeStep(c, e) /\ UNCHANGED serverVars
    BY <1>10 DEF Next
<1> QED BY <1>2, <1>3, <1>4, <1>5, <1>6, <1>7, <1>8, <1>9, <1>10
           DEF ServerNext, StartStep

\* start(), a failed or cancelled startup, stop() and _cleanup are, for the
\* connections, nothing but the stop that EdgeActivation has: a behaviour of
\* the server is one of EdgeActivation, whose theorems therefore hold in it.
THEOREM ServerImplementsSessions == ServerSpec => Spec
<1>1. ServerInit => Init
    BY DEF ServerInit
<1> QED BY <1>1, SessionsMap, PTL DEF ServerSpec, Spec

\* The two refinements compose: through startup, service and shutdown of the
\* process an address is taken from a tester that stays only after its own
\* Alive Check went unanswered, and never by more testers than there are
\* places.
THEOREM ServerImplementsOwnership == ServerSpec => ImplementsOwnership
BY ServerImplementsSessions, OwnershipImplemented

-----------------------------------------------------------------------------
(* What the sessions' steps leave alone once the server stops.             *)

\* A step of a session or of a probe: the server's flag stays, no slot is
\* taken once stop() has run, and ended tasks stay ended.
Ending ==
    /\ server' = server
    /\ server # "up" => openSockets' \subseteq openSockets
    /\ server = "cancelling"
          /\ (\A s \in Sessions : pc[s] \in {"absent", "finished"}) => pc' = pc

\* The synchronous half of a close releases slots and takes none.
LEMMA CloseReleases ==
    ASSUME NEW E, NEW Q, CloseTransport(E, Q)
    PROVE  openSockets' \subseteq openSockets
BY DEF CloseTransport

\* The operators that end a probe, or commit, keep the flag and take no slot.
LEMMA OperatorsRelease ==
    ASSUME NEW c \in Sessions
    PROVE  /\ ExitRun(c) => server' = server /\ openSockets' \subseteq openSockets
           /\ \A E : Commit(c, E) => server' = server /\ openSockets' \subseteq openSockets
           /\ \A E : Admit(c, E) => server' = server /\ openSockets' \subseteq openSockets
           /\ ConflictLookup(c) => server' = server /\ openSockets' \subseteq openSockets
<1>1. ASSUME ExitRun(c)
      PROVE  server' = server /\ openSockets' \subseteq openSockets
    BY <1>1, CloseReleases DEF ExitRun, Close
<1>2. ASSUME NEW E, Commit(c, E)
      PROVE  server' = server /\ openSockets' \subseteq openSockets
    BY <1>2, CloseReleases DEF Commit
<1>3. ASSUME NEW E, Admit(c, E)
      PROVE  server' = server /\ openSockets' \subseteq openSockets
    BY <1>2, <1>3, CloseReleases DEF Admit, Close
<1>4. ASSUME ConflictLookup(c)
      PROVE  server' = server /\ openSockets' \subseteq openSockets
    BY <1>3, <1>4 DEF ConflictLookup
<1> QED BY <1>1, <1>2, <1>3, <1>4

\* Every step of a session.
LEMMA SessionStepEnding ==
    ASSUME NEW s \in Sessions, SessionStep(s)
    PROVE  Ending
<1>1. CASE \/ Accept(s) \/ CleanupDone(s) \/ Finish(s) \/ Forget(s)
           \/ ReadServed(s) \/ ReadRefused(s) \/ TesterAlive(s) \/ ReadAlive(s)
           \/ \E a \in Addr : ReadActivation(s, a)
    BY <1>1 DEF Accept, CleanupDone, Finish, Forget, ReadServed, ReadRefused,
                TesterAlive, ReadAlive, ReadActivation, Ending
<1>2. CASE HandleConnection(s)
    BY <1>2 DEF HandleConnection, Ending
<1>3. CASE ReadEof(s) \/ ServeDone(s) \/ DenyDone(s) \/ Unwound(s) \/ RespondFails(s)
    BY <1>3, OperatorsRelease
       DEF ReadEof, ServeDone, DenyDone, Unwound, RespondFails, Ending
<1>4. CASE Cancelled(s)
    BY <1>4, OperatorsRelease, CloseReleases DEF Cancelled, Close, Ending
<1>5. CASE TimerFire(s) \/ ReclaimWake(s)
    BY <1>5, CloseReleases DEF TimerFire, ReclaimWake, Close, Ending
<1>6. CASE LockGranted(s)
    BY <1>6, OperatorsRelease DEF LockGranted, Ending
<1>7. CASE CapacityLockGranted(s)
    BY <1>7, OperatorsRelease DEF CapacityLockGranted, Ending
<1>8. CASE ReclaimDone(s)
    BY <1>8, OperatorsRelease, CloseReleases DEF ReclaimDone, Close, Ending
<1>9. CASE RespondDone(s)
    BY <1>9, OperatorsRelease DEF RespondDone, Ending
<1> QED BY <1>1, <1>2, <1>3, <1>4, <1>5, <1>6, <1>7, <1>8, <1>9
           DEF SessionStep

\* Every step of a probe.
LEMMA ProbeStepEnding ==
    ASSUME NEW c \in Sessions, NEW e \in Sessions, ProbeStep(c, e)
    PROVE  Ending
<1>1. ASSUME NEW state, SetProbe(c, e, state) PROVE Ending
    BY <1>1 DEF SetProbe, Ending
<1>2. ASSUME NEW alive, ProbeReturns(c, e, alive) PROVE Ending
    <2>1. CASE pc[c] = "reclaim"
        BY <1>2, <2>1 DEF ProbeReturns, Ending
    <2>2. CASE pc[c] = "probing" /\ Decide(c, e, alive)
        <3>1. server' = server /\ openSockets' \subseteq openSockets
            BY <2>2, OperatorsRelease, CloseReleases DEF Decide, Close
        <3> QED BY <2>2, <3>1 DEF Ending
    <2> QED BY <1>2, <2>1, <2>2 DEF ProbeReturns
<1> QED BY <1>1, <1>2 DEF ProbeStep, ProbeStart, ProbeSent, ProbeSendFails,
                          ProbeAnswered, ProbeTimeout

-----------------------------------------------------------------------------
(* The shutdown.                                                           *)

\* The variables of the server keep their types.
LEMMA ServerTypeStep ==
    ASSUME ServerTypeOK, [ServerNext]_allVars
    PROVE  ServerTypeOK'
<1> USE DEF ServerTypeOK
<1>1. ASSUME StopCall PROVE shutdown' \in Shutdowns
    BY <1>1 DEF StopCall, Shutdowns
<1>2. ASSUME StartupAborts PROVE startup' \in Startups /\ udp' \in BOOLEAN
    BY <1>2 DEF StartupAborts, Startups
<1>3. Closed(Recorded) \in [Ports -> {"closed", "open", "recorded"}]
    BY DEF Closed
<1>4. CASE UNCHANGED allVars
    BY <1>4 DEF allVars
<1>5. CASE Start \/ Ended \/ OpenUdp \/ Announced \/ StopReturns
    BY <1>5 DEF Start, Ended, allVars, OpenUdp, Announced, StopReturns, Mains,
                Startups
<1>6. CASE \E p \in Ports : Bind(p) \/ Record(p)
    BY <1>6 DEF Bind, Record, Startups
<1>7. CASE BootEnds \/ GatherRaises \/ StopByCaller
    BY <1>1, <1>7 DEF BootEnds, GatherRaises, StopByCaller, Mains
<1>8. CASE StartFails
    BY <1>2, <1>8 DEF StartFails
<1>9. CASE CancelStart
    BY <1>1, <1>2, <1>3, <1>9 DEF CancelStart, Mains
<1>10. CASE CleanupStep
    BY <1>2, <1>3, <1>10
       DEF CleanupStep, CleanupCancelsStartup, CleanupListeners, TasksJoined,
           Shutdowns
<1>11. CASE ListenersClosed
    BY <1>11 DEF ListenersClosed, Shutdowns
<1>12. CASE \/ \E s \in Sessions : Connection(s)
            \/ \E c, e \in Sessions : ProbeStep(c, e) /\ UNCHANGED serverVars
    BY <1>12 DEF Connection, serverVars
<1> QED BY <1>4, <1>5, <1>6, <1>7, <1>8, <1>9, <1>10, <1>11, <1>12
           DEF ServerNext, StartStep

\* stop() enters the shutdown, or finds it under way.
LEMMA StopCallShutdown ==
    ASSUME ShutdownInv, StopCall, UNCHANGED <<startup, port, serving, udp>>
    PROVE  ShutdownInv'
<1>1. CASE shutdown = "no"
    BY <1>1 DEF StopCall, Stop, ShutdownInv, StartupPending, Recorded
<1>2. CASE shutdown # "no"
    BY <1>2 DEF StopCall, vars, ShutdownInv, StartupPending, Recorded
<1> QED BY <1>1, <1>2

\* The startup task that raises frees what it was acquiring.
LEMMA StartupAbortsShutdown ==
    ASSUME ShutdownInv, StartupAborts,
           UNCHANGED <<vars, main, port, serving, shutdown>>
    PROVE  ShutdownInv'
BY DEF StartupAborts, StartupPending, ShutdownInv, vars, Recorded

\* Closing the recorded listeners leaves none.
LEMMA ListenersClose ==
    ASSUME port' = Closed(Recorded)
    PROVE  Recorded' = {}
BY DEF Closed, Recorded

\* Every step of the server keeps what the phase of its shutdown promises.
LEMMA ShutdownStep ==
    ASSUME ServerTypeOK, TypeOK, ShutdownInv, [ServerNext]_allVars
    PROVE  ShutdownInv'
<1>1. CASE UNCHANGED allVars
    BY <1>1 DEF allVars, ShutdownInv, StartupPending, Recorded
<1>2. CASE Start
    BY <1>2 DEF Start, vars, ShutdownInv, StartupPending, Recorded
<1>3. CASE \E p \in Ports : Bind(p) \/ Record(p)
    <2>1. StartupPending
        BY <1>3 DEF Bind, Record, StartupPending, Ports
    <2>2. UNCHANGED <<vars, serving, udp, shutdown>>
        BY <1>3 DEF Bind, Record
    <2> QED BY <2>1, <2>2 DEF ShutdownInv, vars
<1>4. CASE OpenUdp \/ Announced
    <2>1. StartupPending
        BY <1>4 DEF OpenUdp, Announced, StartupPending
    <2>2. UNCHANGED <<vars, serving, shutdown>>
        BY <1>4 DEF OpenUdp, Announced
    <2> QED BY <2>1, <2>2 DEF ShutdownInv, vars
<1>5. CASE StopReturns \/ Ended
    BY <1>5 DEF StopReturns, Ended, allVars, vars, ShutdownInv, StartupPending,
                Recorded
<1>6. CASE BootEnds
    <2>1. CASE startup = "done" /\ shutdown = "no"
        BY <1>6, <2>1 DEF BootEnds, vars, ShutdownInv, StartupPending, Recorded
    <2>2. CASE ~(startup = "done" /\ shutdown = "no")
        BY <1>6, <2>2, StopCallShutdown DEF BootEnds
    <2> QED BY <2>1, <2>2
<1>7. CASE GatherRaises \/ StopByCaller
    BY <1>7, StopCallShutdown DEF GatherRaises, StopByCaller
<1>8. CASE StartFails \/ CleanupCancelsStartup
    BY <1>8, StartupAbortsShutdown DEF StartFails, CleanupCancelsStartup
<1>9. CASE CancelStart
    <2>1. CASE main = "serve" /\ shutdown = "no" /\ CancelStart
        BY <2>1 DEF CancelStart, StartupAborts, vars, ShutdownInv
    <2>2. CASE main = "boot" /\ CancelStart
        BY <2>2, StopCallShutdown, StartupAbortsShutdown DEF CancelStart
    <2> QED BY <1>9, <2>1, <2>2 DEF CancelStart
<1>10. CASE CleanupListeners
    <2>1. Recorded' = {}
        BY <1>10, ListenersClose DEF CleanupListeners
    <2> QED BY <1>10, <2>1 DEF CleanupListeners, vars, ShutdownInv,
                               StartupPending
<1>11. CASE TasksJoined
    BY <1>11 DEF TasksJoined, vars, ShutdownInv, StartupPending, Recorded
<1>12. CASE ListenersClosed
    BY <1>12 DEF ListenersClosed, StopCancel, ShutdownInv, StartupPending,
                 Recorded
<1>13. CASE \/ \E s \in Sessions : Connection(s)
            \/ \E c, e \in Sessions : ProbeStep(c, e) /\ UNCHANGED serverVars
    <2>1. Ending /\ UNCHANGED serverVars
        BY <1>13, SessionStepEnding, ProbeStepEnding DEF Connection
    <2>2. server' = server /\ UNCHANGED <<shutdown, startup, port, serving, udp>>
        BY <2>1 DEF Ending, serverVars
    <2>3. openSockets = {} /\ server # "up" => openSockets' = {}
        BY <2>1 DEF Ending
    <2>4. ASSUME shutdown = "done" PROVE pc' = pc
        BY <2>1, <2>4 DEF Ending, ShutdownInv
    <2> QED BY <2>2, <2>3, <2>4 DEF ShutdownInv, StartupPending, Recorded
<1> QED BY <1>1, <1>2, <1>3, <1>4, <1>5, <1>6, <1>7, <1>8, <1>9, <1>10,
           <1>11, <1>12, <1>13 DEF ServerNext, StartStep, CleanupStep

\* When every connection task has ended, no address is registered.
LEMMA NobodyRegistered ==
    ASSUME ActivationInv, \A s \in Sessions : pc[s] \in {"absent", "finished"},
           NEW a \in Addr
    PROVE  registry[a] = NoSession
<1> SUFFICES ASSUME registry[a] # NoSession PROVE FALSE
    OBVIOUS
<1> DEFINE s == registry[a]
<1>1. s \in Sessions
    BY DEF ActivationInv, TypeOK
<1>2. sa[s] = a /\ ~Closing(s)
    BY DEF ActivationInv, RegistryExact
<1>3. Activated(s)
    BY <1>2, ConstantsAssumption DEF Activated
<1>4. ~(pc[s] \in {"absent", "accepted"}) /\ pc[s] # "finished"
    BY <1>1, <1>2, <1>3 DEF ActivationInv, PhaseInv
<1> QED BY <1>1, <1>4

\* The phases of the shutdown are consistent with the sessions and with what
\* start() holds, wherever a signal, a failed resource or a stop() interrupts.
THEOREM ServerSafe == ServerSpec => []ServerInv
<1>1. ServerInit => ServerInv
    <2> SUFFICES ASSUME ServerInit PROVE ServerInv
        OBVIOUS
    <2>1. ActivationInv
        BY InitInv DEF ServerInit
    <2>2. ServerTypeOK
        BY DEF ServerInit, ServerTypeOK, Mains, Startups, Shutdowns
    <2>3. ShutdownInv
        BY DEF ServerInit, Init, ShutdownInv
    <2> QED BY <2>1, <2>2, <2>3 DEF ServerInv
<1>2. ServerInv /\ [ServerNext]_allVars => ServerInv'
    <2> SUFFICES ASSUME ServerInv, [ServerNext]_allVars PROVE ServerInv'
        OBVIOUS
    <2>1. ActivationInv'
        BY SessionsMap, NextInv DEF ServerInv
    <2>2. ServerTypeOK'
        BY ServerTypeStep DEF ServerInv
    <2>3. ShutdownInv'
        BY ShutdownStep DEF ServerInv, ActivationInv
    <2> QED BY <2>1, <2>2, <2>3 DEF ServerInv
<1> QED BY <1>1, <1>2, PTL DEF ServerSpec

\* When _cleanup has ended, nothing that start() acquired is left or can come
\* back: no startup task, listener, serve_forever task, UDP transport,
\* connection task, slot or registered tester, for any numbers of them.
THEOREM ServerStopsClean == ServerSpec => []StoppedClean
<1>1. ServerInv => StoppedClean
    <2> SUFFICES ASSUME ServerInv, shutdown = "done" PROVE StoppedClean
        BY DEF ServerInv, StoppedClean
    <2>1. \A s \in Sessions : pc[s] \in {"absent", "finished"}
        BY DEF ServerInv, ShutdownInv
    <2>2. \A a \in Addr : registry[a] = NoSession
        BY <2>1, NobodyRegistered DEF ServerInv
    <2>3. openSockets = {}
        BY DEF ServerInv, ShutdownInv
    <2> QED BY <2>1, <2>2, <2>3 DEF StoppedClean, ServerInv, ShutdownInv
<1> QED BY <1>1, ServerSafe, PTL

=============================================================================
