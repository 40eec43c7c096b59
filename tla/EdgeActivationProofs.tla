----------------------- MODULE EdgeActivationProofs -----------------------
(***************************************************************************)
(* Proofs about EdgeActivation for any set of connections, any set of      *)
(* tester addresses and any max_connections.                               *)
(***************************************************************************)
EXTENDS EdgeActivation, FiniteSetTheorems, TLAPS

-----------------------------------------------------------------------------
(* Type correctness.                                                       *)

\* Setting a probe's event keeps it a probe state.
LEMMA SetEventType ==
    ASSUME NEW state \in ProbeStates
    PROVE  SetEvent(state) \in ProbeStates
BY DEF SetEvent, ProbeStates

\* unregister leaves a registry.
LEMMA UnregisterType ==
    ASSUME TypeOK, NEW E
    PROVE  Unregister(E) \in [Addr -> Sessions \cup {NoSession}]
BY DEF Unregister, TypeOK

\* The synchronous half of a teardown keeps the types of what it touches.
LEMMA CloseTransportType ==
    ASSUME TypeOK, NEW E, NEW Q, CloseTransport(E, Q)
    PROVE  /\ cleanup' \in [Sessions -> {"no", "running", "done"}]
           /\ timer' \in [Sessions -> {"none", "initial", "general"}]
           /\ openSockets' \subseteq Sessions
           /\ probe' \in [Pairs -> ProbeStates]
           /\ replied' \subseteq Sessions
<1>1. cleanup' \in [Sessions -> {"no", "running", "done"}]
    BY DEF CloseTransport, TypeOK
<1>2. timer' \in [Sessions -> {"none", "initial", "general"}]
    BY DEF CloseTransport, TypeOK
<1>3. openSockets' \subseteq Sessions /\ replied' \subseteq Sessions
    BY DEF CloseTransport, TypeOK
<1>4. probe' \in [Pairs -> ProbeStates]
    <2>1. "none" \in ProbeStates
        BY DEF ProbeStates
    <2>2. \A p \in Pairs : probe[p] \in ProbeStates /\ SetEvent(probe[p]) \in ProbeStates
        BY SetEventType DEF TypeOK
    <2> QED BY <2>1, <2>2 DEF CloseTransport
<1> QED BY <1>1, <1>2, <1>3, <1>4

\* Closing sessions keeps the types.
LEMMA CloseType ==
    ASSUME TypeOK, NEW E, NEW Q, Close(E, Q)
    PROVE  /\ cleanup' \in [Sessions -> {"no", "running", "done"}]
           /\ timer' \in [Sessions -> {"none", "initial", "general"}]
           /\ openSockets' \subseteq Sessions
           /\ probe' \in [Pairs -> ProbeStates]
           /\ replied' \subseteq Sessions
           /\ registry' \in [Addr -> Sessions \cup {NoSession}]
BY CloseTransportType, UnregisterType DEF Close

\* Leaving run() keeps the types.
LEMMA ExitRunType ==
    ASSUME TypeOK, NEW s \in Sessions, ExitRun(s)
    PROVE  TypeOK'
<1>1. Close({s}, {s})
    BY DEF ExitRun
<1> QED BY <1>1, CloseType DEF ExitRun, TypeOK, Pcs

\* A committed activation keeps the types of all but the locks.
LEMMA CommitType ==
    ASSUME TypeOK, NEW c \in Sessions, NEW E, Commit(c, E), req[c] \in Addr,
           lock' \in [Addr -> Sessions \cup {NoSession}],
           capLock' \in Sessions \cup {NoSession}
    PROVE  TypeOK'
<1>1. CloseTransport(E, {c})
    BY DEF Commit
<1>2. registry' \in [Addr -> Sessions \cup {NoSession}]
    BY UnregisterType DEF Commit
<1> QED BY <1>1, <1>2, CloseTransportType DEF Commit, TypeOK, Pcs

\* The choice at the end of a decision keeps the types.
LEMMA AdmitType ==
    ASSUME TypeOK, NEW c \in Sessions, NEW E, Admit(c, E), req[c] \in Addr,
           lock' \in [Addr -> Sessions \cup {NoSession}],
           capLock' \in Sessions \cup {NoSession}
    PROVE  TypeOK'
<1>1. CASE Commit(c, E)
    BY <1>1, CommitType
<1>2. CASE /\ Close(E, {c})
           /\ pc' = [pc EXCEPT ![c] = "capWait"]
           /\ UNCHANGED <<sa, req, server>>
    BY <1>2, CloseType DEF TypeOK, Pcs
<1> QED BY <1>1, <1>2 DEF Admit

\* One look at the registry, with what follows it, keeps the types.
LEMMA ConflictLookupType ==
    ASSUME TypeOK, NEW c \in Sessions, ConflictLookup(c), req[c] \in Addr,
           lock' \in [Addr -> Sessions \cup {NoSession}],
           capLock' \in Sessions \cup {NoSession}
    PROVE  TypeOK'
<1>1. CASE Admit(c, {})
    BY <1>1, AdmitType
<1>2. CASE ~Admit(c, {})
    <2>1. probe' \in [Pairs -> ProbeStates]
        BY <1>2 DEF ConflictLookup, TypeOK, ProbeStates
    <2> QED BY <1>2, <2>1 DEF ConflictLookup, TypeOK, Pcs
<1> QED BY <1>1, <1>2

-----------------------------------------------------------------------------
(* How the shared steps preserve ActivationInv.                            *)

\* PhaseInv in the next state, for one session.
PhaseNext(t) ==
    /\ pc'[t] \in {"absent", "accepted"} => sa'[t] = NoAddr /\ cleanup'[t] = "no"
    /\ pc'[t] = "stopping" => cleanup'[t] # "no"
    /\ pc'[t] = "finished" => sa'[t] = NoAddr \/ cleanup'[t] # "no"
    /\ cleanup'[t] # "no" \/ pc'[t] \in {"absent", "accepted", "finished"} =>
          timer'[t] = "none"
    /\ probe'[<<t, t>>] = "none"

\* PhaseInv holds after a step when each of its parts does for each session.
LEMMA PhaseNextSuffices ==
    ASSUME \A t \in Sessions : PhaseNext(t)
    PROVE  PhaseInv'
BY DEF PhaseInv, PhaseNext, Activated, Closing

\* PhaseInv after a step that closes the sessions in E and moves connections
\* between awaits that lie after admission.
LEMMA ClosePhase ==
    ASSUME ActivationInv, NEW E, NEW Q, CloseTransport(E, Q),
           \A t \in Sessions :
              /\ \/ pc'[t] = pc[t]
                 \/ pc'[t] \notin {"absent", "accepted", "finished", "stopping"}
                 \/ pc'[t] = "stopping" /\ t \in E
              /\ sa'[t] = sa[t] \/ pc'[t] \notin {"absent", "accepted", "finished"}
              /\ t \in E => pc'[t] \notin {"absent", "accepted"}
    PROVE  PhaseInv'
<1>1. SUFFICES ASSUME NEW t \in Sessions
               PROVE  PhaseNext(t)
    BY PhaseNextSuffices
<1>2. cleanup'[t] # "no" <=> cleanup[t] # "no" \/ t \in E
    BY DEF CloseTransport, ActivationInv, TypeOK
<1>3. timer'[t] = IF t \in E THEN "none" ELSE timer[t]
    BY DEF CloseTransport, ActivationInv, TypeOK
<1>4. probe'[<<t, t>>] = "none"
    BY DEF CloseTransport, SetEvent, Pairs, ActivationInv, PhaseInv
<1> QED BY <1>2, <1>3, <1>4 DEF ActivationInv, PhaseInv, Activated, Closing,
                                PhaseNext

\* Closing a set of sessions that stay at their awaits.
LEMMA CloseInv ==
    ASSUME ActivationInv, NEW E \in SUBSET Sessions, NEW Q, Close(E, Q),
           NEW c \in Sessions, NEW at \in Pcs,
           pc' = [pc EXCEPT ![c] = at],
           \/ at = pc[c]
           \/ pc[c] \in {"reclaim", "drain"} /\ at \in {"drain", "unwind"}
              /\ (at = "drain" => pc[c] = "reclaim"),
           \A e \in E : pc[e] \notin {"absent", "accepted"},
           UNCHANGED <<sa, req, lock, capLock, server>>
    PROVE  ActivationInv'
<1> USE ConstantsAssumption
<1>1. TypeOK'
    BY CloseType DEF ActivationInv, TypeOK
<1>2. RegistryExact'
    BY DEF ActivationInv, TypeOK, RegistryExact, Close, CloseTransport,
           Unregister, Activated, Closing
<1>3. LockInv'
    BY DEF ActivationInv, TypeOK, RegistryExact, LockInv, Close, HoldsLock,
           Unregister, Activated
<1>4. PhaseInv'
    <2>1. \A t \in Sessions : pc'[t] = pc[t] \/ pc'[t] \in {"drain", "unwind"}
        BY DEF ActivationInv, TypeOK
    <2> QED BY <2>1, ClosePhase DEF Close
<1> QED BY <1>1, <1>2, <1>3, <1>4 DEF ActivationInv

\* Leaving run().
LEMMA ExitRunInv ==
    ASSUME ActivationInv, NEW s \in Sessions, ExitRun(s)
    PROVE  ActivationInv'
<1> USE ConstantsAssumption
<1>1. TypeOK'
    BY ExitRunType DEF ActivationInv
<1>2. RegistryExact'
    BY DEF ActivationInv, TypeOK, RegistryExact, ExitRun, Close,
           CloseTransport, Unregister, Activated, Closing
<1>3. LockInv'
    BY DEF ActivationInv, TypeOK, RegistryExact, LockInv, ExitRun, Close,
           HoldsLock, Unregister, Activated
<1>4. PhaseInv'
    <2>1. \A t \in Sessions :
              pc'[t] = IF t = s THEN "stopping" ELSE pc[t]
        BY DEF ActivationInv, TypeOK, ExitRun
    <2> QED BY <2>1, ClosePhase DEF ExitRun, Close
<1> QED BY <1>1, <1>2, <1>3, <1>4 DEF ActivationInv

\* A session may take the address whose lock it holds, once the sessions in E
\* are evicted and the address is free or its own.
LEMMA CommitInv ==
    ASSUME ActivationInv, NEW c \in Sessions, NEW E \in SUBSET Sessions,
           Commit(c, E), ~Closing(c), c \notin E,
           \A e \in E : pc[e] \notin {"absent", "accepted"},
           pc[c] \in HoldsLock \cup {"lockWait"},
           lock[req[c]] \in {NoSession, c},
           lock' = [lock EXCEPT ![req[c]] = c],
           capLock' \in Sessions \cup {NoSession},
           Unregister(E)[req[c]] \in {NoSession, c}
    PROVE  ActivationInv'
<1> USE ConstantsAssumption
<1>0. /\ req[c] \in Addr
      /\ Activated(c) => sa[c] = req[c]
    BY DEF ActivationInv, LockInv
<1>1. TypeOK'
    <2>1. lock' \in [Addr -> Sessions \cup {NoSession}]
        BY DEF ActivationInv, TypeOK
    <2> QED BY <1>0, <2>1, CommitType DEF ActivationInv
<1>2. RegistryExact'
    BY <1>0 DEF ActivationInv, TypeOK, RegistryExact, Commit,
                CloseTransport, Unregister, Activated, Closing
<1>3. LockInv'
    BY <1>0 DEF ActivationInv, TypeOK, RegistryExact, LockInv, Commit,
                HoldsLock, Unregister, Activated
<1>4. PhaseInv'
    <2>1. \A t \in Sessions :
              /\ pc'[t] = IF t = c THEN "respond" ELSE pc[t]
              /\ t # c => sa'[t] = sa[t]
        BY DEF ActivationInv, TypeOK, Commit
    <2> QED BY <2>1, ClosePhase DEF Commit
<1> QED BY <1>1, <1>2, <1>3, <1>4 DEF ActivationInv

\* The choice between a commit and the full-capacity branch.
LEMMA AdmitInv ==
    ASSUME ActivationInv, NEW c \in Sessions, NEW E \in SUBSET Sessions,
           Admit(c, E), ~Closing(c), c \notin E,
           \A e \in E : pc[e] \notin {"absent", "accepted"},
           pc[c] \in HoldsLock \cup {"lockWait"},
           lock[req[c]] \in {NoSession, c},
           lock' = [lock EXCEPT ![req[c]] = c],
           capLock' = capLock,
           Unregister(E)[req[c]] \in {NoSession, c}
    PROVE  ActivationInv'
<1> USE ConstantsAssumption
<1>0. /\ req[c] \in Addr
      /\ Activated(c) => sa[c] = req[c]
      /\ TypeOK
    BY DEF ActivationInv, LockInv
<1>1. CASE Commit(c, E)
    BY <1>0, <1>1, CommitInv DEF TypeOK
<1>2. CASE ~Commit(c, E)
    <2>1. /\ ~Activated(c)
          /\ Close(E, {c})
          /\ pc' = [pc EXCEPT ![c] = "capWait"]
          /\ UNCHANGED <<sa, req, server>>
        BY <1>2 DEF Admit
    <2>2. registry'[req[c]] = NoSession
        BY <1>0, <2>1 DEF ActivationInv, RegistryExact, Close, Unregister,
                          Activated, TypeOK
    <2>3. TypeOK'
        BY <1>0, <2>1, CloseType DEF TypeOK, Pcs
    <2>4. RegistryExact'
        BY <2>1 DEF ActivationInv, TypeOK, RegistryExact, Close,
                    CloseTransport, Unregister, Activated, Closing
    <2>5. LockInv'
        BY <1>0, <2>1, <2>2 DEF ActivationInv, TypeOK, RegistryExact, LockInv,
                    Close, HoldsLock, Unregister, Activated
    <2>6. PhaseInv'
        <3>1. \A t \in Sessions :
                  pc'[t] = IF t = c THEN "capWait" ELSE pc[t]
            BY <2>1 DEF ActivationInv, TypeOK
        <3> QED BY <2>1, <3>1, ClosePhase DEF Close
    <2> QED BY <2>3, <2>4, <2>5, <2>6 DEF ActivationInv
<1> QED BY <1>1, <1>2

\* One pass of the conflict loop.
LEMMA ConflictLookupInv ==
    ASSUME ActivationInv, NEW c \in Sessions, ConflictLookup(c), ~Closing(c),
           pc[c] \in {"lockWait", "probing"},
           lock[req[c]] \in {NoSession, c},
           lock' = [lock EXCEPT ![req[c]] = c],
           capLock' = capLock
    PROVE  ActivationInv'
<1> USE ConstantsAssumption
<1>0. /\ req[c] \in Addr
      /\ Activated(c) => sa[c] = req[c]
      /\ TypeOK
    BY DEF ActivationInv, LockInv, HoldsLock
<1>1. CASE registry[req[c]] \in {NoSession, c}
    <2>1. Admit(c, {})
        BY <1>1 DEF ConflictLookup
    <2>2. Unregister({})[req[c]] \in {NoSession, c}
        BY <1>0, <1>1 DEF Unregister
    <2>3. /\ {} \in SUBSET Sessions
          /\ c \notin {}
          /\ \A e \in {} : pc[e] \notin {"absent", "accepted"}
        OBVIOUS
    <2>4. pc[c] \in HoldsLock \cup {"lockWait"}
        BY DEF HoldsLock
    <2> QED BY <2>1, <2>2, <2>3, <2>4, AdmitInv
<1>2. CASE registry[req[c]] \notin {NoSession, c}
    <2>1. /\ pc' = [pc EXCEPT ![c] = "probing"]
          /\ probe' = [p \in Pairs |->
                          IF p[1] # c THEN probe[p]
                          ELSE IF p[2] = registry[req[c]] THEN "queued"
                          ELSE "none"]
          /\ UNCHANGED <<sa, req, cleanup, timer, registry, openSockets,
                         replied, server>>
        BY <1>2 DEF ConflictLookup
    <2>2. TypeOK'
        <3>1. probe' \in [Pairs -> ProbeStates]
            BY <1>0, <2>1 DEF TypeOK, ProbeStates
        <3>2. lock' \in [Addr -> Sessions \cup {NoSession}]
            BY <1>0 DEF TypeOK
        <3> QED BY <1>0, <2>1, <3>1, <3>2 DEF TypeOK, Pcs
    <2>3. RegistryExact'
        BY <2>1 DEF ActivationInv, RegistryExact, Activated, Closing
    <2>4. LockInv'
        BY <1>0, <2>1 DEF ActivationInv, TypeOK, LockInv, HoldsLock, Activated
    <2>5. PhaseInv'
        <3>1. \A t \in Sessions : probe'[<<t, t>>] = "none"
            BY <1>2, <2>1 DEF ActivationInv, PhaseInv, Pairs
        <3>2. SUFFICES ASSUME NEW t \in Sessions
                       PROVE  PhaseNext(t)
            BY PhaseNextSuffices
        <3>3. pc'[t] = IF t = c THEN "probing" ELSE pc[t]
            BY <1>0, <2>1 DEF TypeOK
        <3> QED BY <2>1, <3>1, <3>3 DEF ActivationInv, PhaseInv, Activated,
                                        Closing, PhaseNext
    <2> QED BY <2>2, <2>3, <2>4, <2>5 DEF ActivationInv
<1> QED BY <1>1, <1>2

\* A registered session is past its admission.
LEMMA RegisteredPhase ==
    ASSUME ActivationInv, NEW a \in Addr, registry[a] # NoSession
    PROVE  pc[registry[a]] \notin {"absent", "accepted"}
<1>1. registry[a] \in Sessions
    BY DEF ActivationInv, TypeOK
<1>2. Activated(registry[a])
    BY ConstantsAssumption DEF ActivationInv, RegistryExact, Activated
<1> QED BY <1>1, <1>2 DEF ActivationInv, PhaseInv

\* A contender is denied under its activation lock.
LEMMA DenyInv ==
    ASSUME ActivationInv, NEW c \in Sessions, pc[c] \in HoldsLock,
           pc' = [pc EXCEPT ![c] = "denying"], Close({}, {c}),
           UNCHANGED <<sa, req, lock, server>>,
           capLock' \in Sessions \cup {NoSession}
    PROVE  ActivationInv'
<1> USE ConstantsAssumption
<1>1. TypeOK'
    BY CloseType DEF ActivationInv, TypeOK, Pcs
<1>2. RegistryExact'
    BY DEF ActivationInv, TypeOK, RegistryExact, Close, CloseTransport,
           Unregister, Activated, Closing
<1>3. LockInv'
    BY DEF ActivationInv, TypeOK, LockInv, HoldsLock, Close, Unregister,
           Activated
<1>4. PhaseInv'
    <2>1. \A t \in Sessions :
              pc'[t] = IF t = c THEN "denying" ELSE pc[t]
        BY DEF ActivationInv, TypeOK
    <2> QED BY <2>1, ClosePhase DEF Close
<1> QED BY <1>1, <1>2, <1>3, <1>4 DEF ActivationInv

\* The conflict loop acts on the result of its probe.
LEMMA DecideInv ==
    ASSUME ActivationInv, NEW c \in Sessions, NEW e \in Sessions,
           NEW alive \in BOOLEAN, pc[c] = "probing",
           e # c, Decide(c, e, alive)
    PROVE  ActivationInv'
<1> USE ConstantsAssumption
<1>0. /\ req[c] \in Addr
      /\ lock[req[c]] = c
      /\ TypeOK
    BY DEF ActivationInv, LockInv, HoldsLock
<1>1. CASE Closing(c)
    BY <1>1, ExitRunInv DEF Decide
<1>2. CASE ~Closing(c)
    <2>0. UNCHANGED <<lock, capLock>>
        BY <1>2 DEF Decide
    <2>1. lock' = [lock EXCEPT ![req[c]] = c]
        BY <1>0, <2>0 DEF TypeOK
    <2>2. CASE registry[req[c]] # e
        <3>1. ConflictLookup(c)
            BY <1>2, <2>2 DEF Decide
        <3> QED BY <1>0, <1>2, <2>0, <2>1, <3>1, ConflictLookupInv
    <2>3. CASE registry[req[c]] = e /\ alive
        <3>1. /\ pc' = [pc EXCEPT ![c] = "denying"]
              /\ Close({}, {c})
              /\ UNCHANGED <<sa, req, server>>
            BY <1>2, <2>3 DEF Decide
        <3>2. pc[c] \in HoldsLock
            BY DEF HoldsLock
        <3>3. capLock' \in Sessions \cup {NoSession}
            BY <1>0, <2>0 DEF TypeOK
        <3> QED BY <2>0, <3>1, <3>2, <3>3, DenyInv
    <2>4. CASE registry[req[c]] = e /\ ~alive
        <3>1. Admit(c, {e})
            BY <1>2, <2>4 DEF Decide
        <3>2. Unregister({e})[req[c]] = NoSession
            BY <1>0, <2>4 DEF ActivationInv, RegistryExact, Unregister
        <3>3. \A x \in {e} : pc[x] \notin {"absent", "accepted"}
            BY <1>0, <2>4, RegisteredPhase
        <3>4. {e} \in SUBSET Sessions /\ c \notin {e}
            OBVIOUS
        <3>5. pc[c] \in HoldsLock \cup {"lockWait"}
            BY DEF HoldsLock
        <3> QED BY <1>0, <1>2, <2>0, <2>1, <3>1, <3>2, <3>3, <3>4, <3>5,
                   AdmitInv
    <2> QED BY <2>2, <2>3, <2>4
<1> QED BY <1>1, <1>2

\* Moving one probe of another session on changes nothing else.
LEMMA SetProbeInv ==
    ASSUME ActivationInv, NEW c \in Sessions, NEW e \in Sessions, e # c,
           NEW state \in ProbeStates, SetProbe(c, e, state)
    PROVE  ActivationInv'
<1>1. TypeOK'
    BY DEF ActivationInv, TypeOK, SetProbe, Pairs
<1>2. RegistryExact'
    BY DEF ActivationInv, RegistryExact, SetProbe, Activated, Closing
<1>3. LockInv'
    BY DEF ActivationInv, LockInv, SetProbe, Activated
<1>4. PhaseInv'
    <2>1. \A t \in Sessions : probe'[<<t, t>>] = "none"
        BY DEF ActivationInv, TypeOK, PhaseInv, SetProbe, Pairs
    <2> QED BY <2>1 DEF ActivationInv, PhaseInv, SetProbe, Activated, Closing
<1> QED BY <1>1, <1>2, <1>3, <1>4 DEF ActivationInv

\* A returning probe_alive call touches only its own result.
LEMMA ProbeReturnsInv ==
    ASSUME ActivationInv, NEW c \in Sessions, NEW e \in Sessions, e # c,
           NEW alive \in BOOLEAN, ProbeReturns(c, e, alive)
    PROVE  ActivationInv'
<1>1. CASE pc[c] = "probing" /\ Decide(c, e, alive)
    BY <1>1, DecideInv
<1>2. CASE pc[c] = "reclaim"
    <2>1. SetProbe(c, e, IF alive THEN "alive" ELSE "dead")
        BY <1>2 DEF ProbeReturns, SetProbe
    <2> QED BY <2>1, SetProbeInv DEF ProbeStates
<1> QED BY <1>1, <1>2 DEF ProbeReturns

\* Every step of a probe_alive call.
LEMMA ProbeStepInv ==
    ASSUME ActivationInv, NEW c \in Sessions, NEW e \in Sessions,
           ProbeStep(c, e)
    PROVE  ActivationInv'
<1>1. e # c
    BY DEF ActivationInv, PhaseInv, ProbeStep, ProbeStart, ProbeSent,
           ProbeSendFails, ProbeAnswered, ProbeTimeout
<1>2. CASE ProbeStart(c, e)
    BY <1>1, <1>2, ProbeReturnsInv, SetProbeInv DEF ProbeStart, ProbeStates
<1>3. CASE ProbeSent(c, e)
    BY <1>1, <1>3, SetProbeInv DEF ProbeSent, ProbeStates
<1>4. CASE ProbeSendFails(c, e)
    BY <1>1, <1>4, ProbeReturnsInv DEF ProbeSendFails
<1>5. CASE ProbeAnswered(c, e)
    BY <1>1, <1>5, ProbeReturnsInv DEF ProbeAnswered, Closing
<1>6. CASE ProbeTimeout(c, e)
    BY <1>1, <1>6, ProbeReturnsInv DEF ProbeTimeout
<1> QED BY <1>2, <1>3, <1>4, <1>5, <1>6 DEF ProbeStep

-----------------------------------------------------------------------------
(* The remaining actions, one lemma each.                                  *)

\* The listener accepts a connection.
LEMMA AcceptInv ==
    ASSUME ActivationInv, NEW s \in Sessions, Accept(s)
    PROVE  ActivationInv'
<1> USE ConstantsAssumption
<1>1. TypeOK'
    BY DEF ActivationInv, TypeOK, Accept, Pcs
<1>2. RegistryExact'
    BY DEF ActivationInv, TypeOK, RegistryExact, PhaseInv, Accept, Activated,
           Closing
<1>3. LockInv'
    BY DEF ActivationInv, TypeOK, LockInv, Accept, HoldsLock, Activated
<1>4. PhaseInv'
    <2>1. SUFFICES ASSUME NEW t \in Sessions
                   PROVE  PhaseNext(t)
        BY PhaseNextSuffices
    <2>2. CASE t = s
        BY <2>2 DEF ActivationInv, TypeOK, PhaseInv, Accept,
                    Activated, Closing, PhaseNext
    <2>3. CASE t # s
        BY <2>3 DEF ActivationInv, TypeOK, PhaseInv, Accept,
                    Activated, Closing, PhaseNext
    <2> QED BY <2>2, <2>3
<1> QED BY <1>1, <1>2, <1>3, <1>4 DEF ActivationInv

\* _handle_connection reserves the socket and starts run(), or refuses.
LEMMA HandleConnectionInv ==
    ASSUME ActivationInv, NEW s \in Sessions, HandleConnection(s)
    PROVE  ActivationInv'
<1> USE ConstantsAssumption
<1>1. TypeOK'
    BY DEF ActivationInv, TypeOK, HandleConnection, Pcs
<1>2. RegistryExact'
    BY DEF ActivationInv, TypeOK, RegistryExact, PhaseInv, HandleConnection, Activated,
           Closing
<1>3. LockInv'
    BY DEF ActivationInv, TypeOK, LockInv, HandleConnection, HoldsLock, Activated
<1>4. PhaseInv'
    <2>1. SUFFICES ASSUME NEW t \in Sessions PROVE PhaseNext(t)
        BY PhaseNextSuffices
    <2>2. CASE t = s
        BY <2>2 DEF ActivationInv, TypeOK, PhaseInv, HandleConnection,
                    Activated, Closing, PhaseNext
    <2>3. CASE t # s
        BY <2>3 DEF ActivationInv, TypeOK, PhaseInv, HandleConnection,
                    Activated, Closing, PhaseNext
    <2> QED BY <2>2, <2>3
<1> QED BY <1>1, <1>2, <1>3, <1>4 DEF ActivationInv

\* _cleanup of a session ends.
LEMMA CleanupDoneInv ==
    ASSUME ActivationInv, NEW s \in Sessions, CleanupDone(s)
    PROVE  ActivationInv'
<1> USE ConstantsAssumption
<1>1. TypeOK'
    BY DEF ActivationInv, TypeOK, CleanupDone, Pcs
<1>2. RegistryExact'
    BY DEF ActivationInv, TypeOK, RegistryExact, PhaseInv, CleanupDone, Activated,
           Closing
<1>3. LockInv'
    BY DEF ActivationInv, TypeOK, LockInv, CleanupDone, HoldsLock, Activated
<1>4. PhaseInv'
    BY DEF ActivationInv, TypeOK, PhaseInv, CleanupDone, Activated, Closing
<1> QED BY <1>1, <1>2, <1>3, <1>4 DEF ActivationInv

\* _handle_connection returns once the cleanup is joined.
LEMMA FinishInv ==
    ASSUME ActivationInv, NEW s \in Sessions, Finish(s)
    PROVE  ActivationInv'
<1> USE ConstantsAssumption
<1>1. TypeOK'
    BY DEF ActivationInv, TypeOK, Finish, Pcs
<1>2. RegistryExact'
    BY DEF ActivationInv, TypeOK, RegistryExact, PhaseInv, Finish, Activated,
           Closing
<1>3. LockInv'
    BY DEF ActivationInv, TypeOK, LockInv, Finish, HoldsLock, Activated
<1>4. PhaseInv'
    <2>1. SUFFICES ASSUME NEW t \in Sessions
                   PROVE  PhaseNext(t)
        BY PhaseNextSuffices
    <2>2. CASE t = s
        BY <2>2 DEF ActivationInv, TypeOK, PhaseInv, Finish,
                    Activated, Closing, PhaseNext
    <2>3. CASE t # s
        BY <2>3 DEF ActivationInv, TypeOK, PhaseInv, Finish,
                    Activated, Closing, PhaseNext
    <2> QED BY <2>2, <2>3
<1> QED BY <1>1, <1>2, <1>3, <1>4 DEF ActivationInv

\* The identity of an ended connection is reused.
LEMMA ForgetInv ==
    ASSUME ActivationInv, NEW s \in Sessions, Forget(s)
    PROVE  ActivationInv'
<1> USE ConstantsAssumption
<1>1. TypeOK'
    BY DEF ActivationInv, TypeOK, Forget, Pcs
<1>2. RegistryExact'
    <2>1. \A a \in Addr : registry[a] # s
        <3>1. sa[s] = NoAddr \/ Closing(s)
            BY DEF ActivationInv, PhaseInv, Forget, Activated
        <3>2. \A a \in Addr : registry[a] = s => sa[s] = a /\ ~Closing(s)
            BY DEF ActivationInv, RegistryExact
        <3> QED BY <3>1, <3>2
    <2>2. \A t \in Sessions \ {s} : sa'[t] = sa[t] /\ cleanup'[t] = cleanup[t]
        BY DEF ActivationInv, TypeOK, Forget
    <2>3. sa'[s] = NoAddr /\ registry' = registry
        BY DEF ActivationInv, TypeOK, Forget
    <2> QED BY <2>1, <2>2, <2>3 DEF ActivationInv, TypeOK, RegistryExact,
                                    Activated, Closing
<1>3. LockInv'
    BY DEF ActivationInv, TypeOK, LockInv, Forget, HoldsLock, Activated
<1>4. PhaseInv'
    <2>1. SUFFICES ASSUME NEW t \in Sessions
                   PROVE  PhaseNext(t)
        BY PhaseNextSuffices
    <2>2. CASE t = s
        BY <2>2 DEF ActivationInv, TypeOK, PhaseInv, Forget,
                    Activated, Closing, PhaseNext
    <2>3. CASE t # s
        BY <2>3 DEF ActivationInv, TypeOK, PhaseInv, Forget,
                    Activated, Closing, PhaseNext
    <2> QED BY <2>2, <2>3
<1> QED BY <1>1, <1>2, <1>3, <1>4 DEF ActivationInv

\* stop() closes the writers and releases their slots.
LEMMA StopInv ==
    ASSUME ActivationInv, Stop
    PROVE  ActivationInv'
<1> USE ConstantsAssumption
<1>1. TypeOK'
    BY DEF ActivationInv, TypeOK, Stop, Pcs
<1>2. RegistryExact'
    BY DEF ActivationInv, TypeOK, RegistryExact, PhaseInv, Stop, Activated,
           Closing
<1>3. LockInv'
    BY DEF ActivationInv, TypeOK, LockInv, Stop, HoldsLock, Activated
<1>4. PhaseInv'
    BY DEF ActivationInv, TypeOK, PhaseInv, Stop, Activated, Closing
<1> QED BY <1>1, <1>2, <1>3, <1>4 DEF ActivationInv

\* The cleanup of the server cancels the connection tasks.
LEMMA StopCancelInv ==
    ASSUME ActivationInv, StopCancel
    PROVE  ActivationInv'
<1> USE ConstantsAssumption
<1>1. TypeOK'
    BY DEF ActivationInv, TypeOK, StopCancel, Pcs
<1>2. RegistryExact'
    BY DEF ActivationInv, TypeOK, RegistryExact, PhaseInv, StopCancel, Activated,
           Closing
<1>3. LockInv'
    BY DEF ActivationInv, TypeOK, LockInv, StopCancel, HoldsLock, Activated
<1>4. PhaseInv'
    BY DEF ActivationInv, TypeOK, PhaseInv, StopCancel, Activated, Closing
<1> QED BY <1>1, <1>2, <1>3, <1>4 DEF ActivationInv

\* A frame that changes no shared state is served.
LEMMA ReadServedInv ==
    ASSUME ActivationInv, NEW s \in Sessions, ReadServed(s)
    PROVE  ActivationInv'
<1> USE ConstantsAssumption
<1>1. TypeOK'
    BY DEF ActivationInv, TypeOK, ReadServed, Pcs
<1>2. RegistryExact'
    BY DEF ActivationInv, TypeOK, RegistryExact, PhaseInv, ReadServed, Activated,
           Closing
<1>3. LockInv'
    BY DEF ActivationInv, TypeOK, LockInv, ReadServed, HoldsLock, Activated
<1>4. PhaseInv'
    <2>1. SUFFICES ASSUME NEW t \in Sessions
                   PROVE  PhaseNext(t)
        BY PhaseNextSuffices
    <2>2. CASE t = s
        BY <2>2 DEF ActivationInv, TypeOK, PhaseInv, ReadServed,
                    Activated, Closing, PhaseNext
    <2>3. CASE t # s
        BY <2>3 DEF ActivationInv, TypeOK, PhaseInv, ReadServed,
                    Activated, Closing, PhaseNext
    <2> QED BY <2>2, <2>3
<1> QED BY <1>1, <1>2, <1>3, <1>4 DEF ActivationInv

\* A frame is refused and the session leaves run().
LEMMA ReadRefusedInv ==
    ASSUME ActivationInv, NEW s \in Sessions, ReadRefused(s)
    PROVE  ActivationInv'
<1> USE ConstantsAssumption
<1>1. TypeOK'
    BY DEF ActivationInv, TypeOK, ReadRefused, Pcs
<1>2. RegistryExact'
    BY DEF ActivationInv, TypeOK, RegistryExact, PhaseInv, ReadRefused, Activated,
           Closing
<1>3. LockInv'
    BY DEF ActivationInv, TypeOK, LockInv, ReadRefused, HoldsLock, Activated
<1>4. PhaseInv'
    <2>1. SUFFICES ASSUME NEW t \in Sessions
                   PROVE  PhaseNext(t)
        BY PhaseNextSuffices
    <2>2. CASE t = s
        BY <2>2 DEF ActivationInv, TypeOK, PhaseInv, ReadRefused,
                    Activated, Closing, PhaseNext
    <2>3. CASE t # s
        BY <2>3 DEF ActivationInv, TypeOK, PhaseInv, ReadRefused,
                    Activated, Closing, PhaseNext
    <2> QED BY <2>2, <2>3
<1> QED BY <1>1, <1>2, <1>3, <1>4 DEF ActivationInv

\* The tester answers an Alive Check Request.
LEMMA TesterAliveInv ==
    ASSUME ActivationInv, NEW e \in Sessions, TesterAlive(e)
    PROVE  ActivationInv'
<1> USE ConstantsAssumption
<1>1. TypeOK'
    BY DEF ActivationInv, TypeOK, TesterAlive, Pcs
<1>2. RegistryExact'
    BY DEF ActivationInv, TypeOK, RegistryExact, PhaseInv, TesterAlive, Activated,
           Closing
<1>3. LockInv'
    BY DEF ActivationInv, TypeOK, LockInv, TesterAlive, HoldsLock, Activated
<1>4. PhaseInv'
    BY DEF ActivationInv, TypeOK, PhaseInv, TesterAlive, Activated, Closing
<1> QED BY <1>1, <1>2, <1>3, <1>4 DEF ActivationInv

\* A Routing Activation Request is read: the session queues for the address.
LEMMA ReadActivationInv ==
    ASSUME ActivationInv, NEW s \in Sessions, NEW a \in Addr, ReadActivation(s, a)
    PROVE  ActivationInv'
<1> USE ConstantsAssumption
<1>1. TypeOK'
    BY DEF ActivationInv, TypeOK, ReadActivation, Pcs
<1>2. RegistryExact'
    BY DEF ActivationInv, TypeOK, RegistryExact, PhaseInv, ReadActivation, Activated,
           Closing
<1>3. LockInv'
    BY DEF ActivationInv, TypeOK, LockInv, ReadActivation, HoldsLock, Activated
<1>4. PhaseInv'
    <2>1. SUFFICES ASSUME NEW t \in Sessions
                   PROVE  PhaseNext(t)
        BY PhaseNextSuffices
    <2>2. CASE t = s
        BY <2>2 DEF ActivationInv, TypeOK, PhaseInv, ReadActivation,
                    Activated, Closing, PhaseNext
    <2>3. CASE t # s
        BY <2>3 DEF ActivationInv, TypeOK, PhaseInv, ReadActivation,
                    Activated, Closing, PhaseNext
    <2> QED BY <2>2, <2>3
<1> QED BY <1>1, <1>2, <1>3, <1>4 DEF ActivationInv

\* An Alive Check Response is read and sets the event of the current probe.
LEMMA ReadAliveInv ==
    ASSUME ActivationInv, NEW e \in Sessions, ReadAlive(e)
    PROVE  ActivationInv'
<1>1. TypeOK'
    <2>1. \A p \in Pairs : probe[p] \in ProbeStates /\ SetEvent(probe[p]) \in ProbeStates
        BY SetEventType DEF ActivationInv, TypeOK
    <2>2. probe' \in [Pairs -> ProbeStates]
        BY <2>1 DEF ReadAlive
    <2> QED BY <2>2 DEF ActivationInv, TypeOK, ReadAlive
<1>2. RegistryExact'
    BY DEF ActivationInv, RegistryExact, ReadAlive, Activated, Closing
<1>3. LockInv'
    BY DEF ActivationInv, LockInv, ReadAlive, Activated
<1>4. PhaseInv'
    <2>1. \A t \in Sessions : probe'[<<t, t>>] = "none"
        BY DEF ActivationInv, PhaseInv, ReadAlive, SetEvent, Pairs
    <2> QED BY <2>1 DEF ActivationInv, PhaseInv, ReadAlive, Activated, Closing
<1> QED BY <1>1, <1>2, <1>3, <1>4 DEF ActivationInv

\* An inactivity timer fires.
LEMMA TimerFireInv ==
    ASSUME ActivationInv, NEW s \in Sessions, TimerFire(s)
    PROVE  ActivationInv'
<1>1. \A e \in {s} : pc[e] \notin {"absent", "accepted"}
    BY DEF ActivationInv, PhaseInv, TimerFire
<1>2. pc' = [pc EXCEPT ![s] = pc[s]] /\ pc[s] \in Pcs
    BY DEF ActivationInv, TypeOK, TimerFire
<1>3. {s} \in SUBSET Sessions
    OBVIOUS
<1> QED BY <1>1, <1>2, <1>3, CloseInv DEF TimerFire

\* A contender enters the activation lock of its address.
LEMMA LockGrantedInv ==
    ASSUME ActivationInv, NEW c \in Sessions, LockGranted(c)
    PROVE  ActivationInv'
<1>1. CASE Closing(c)
    BY <1>1, ExitRunInv DEF LockGranted
<1>2. CASE ~Closing(c)
    BY <1>2, ConflictLookupInv DEF LockGranted
<1> QED BY <1>1, <1>2

\* A contender enters the capacity lock and decides what to reclaim.
LEMMA CapacityLockGrantedInv ==
    ASSUME ActivationInv, NEW c \in Sessions, CapacityLockGranted(c)
    PROVE  ActivationInv'
<1> USE ConstantsAssumption
<1>0. /\ pc[c] = "capWait"
      /\ req[c] \in Addr
      /\ lock[req[c]] = c
      /\ ~Activated(c)
      /\ registry[req[c]] = NoSession
      /\ TypeOK
    BY DEF ActivationInv, LockInv, HoldsLock, CapacityLockGranted
<1>1. CASE Closing(c)
    BY <1>1, ExitRunInv DEF CapacityLockGranted
<1>2. CASE ~Closing(c) /\ Count(registry) < MaxConnections
    <2>1. Commit(c, {}) /\ UNCHANGED <<lock, capLock>>
        BY <1>2 DEF CapacityLockGranted
    <2>2. Unregister({})[req[c]] = NoSession
        BY <1>0 DEF Unregister
    <2>3. /\ {} \in SUBSET Sessions
          /\ c \notin {}
          /\ \A e \in {} : pc[e] \notin {"absent", "accepted"}
        OBVIOUS
    <2>4. /\ lock' = [lock EXCEPT ![req[c]] = c]
          /\ capLock' \in Sessions \cup {NoSession}
          /\ pc[c] \in HoldsLock \cup {"lockWait"}
        BY <1>0, <2>1 DEF TypeOK, HoldsLock
    <2> QED BY <1>0, <1>2, <2>1, <2>2, <2>3, <2>4, CommitInv
<1>3. CASE ~Closing(c) /\ ~(Count(registry) < MaxConnections)
    <2>1. /\ capLock' = c
          /\ pc' = [pc EXCEPT ![c] = "reclaim"]
          /\ probe' = [p \in Pairs |->
                          IF p[1] # c THEN probe[p]
                          ELSE IF \E a \in Addr : registry[a] = p[2]
                          THEN "queued" ELSE "none"]
          /\ UNCHANGED <<sa, req, cleanup, timer, registry, openSockets,
                         lock, replied, server>>
        BY <1>3 DEF CapacityLockGranted
    <2>2. TypeOK'
        <3>1. probe' \in [Pairs -> ProbeStates]
            BY <1>0, <2>1 DEF TypeOK, ProbeStates
        <3> QED BY <1>0, <2>1, <3>1 DEF TypeOK, Pcs
    <2>3. RegistryExact'
        BY <2>1 DEF ActivationInv, RegistryExact, Activated, Closing
    <2>4. LockInv'
        BY <1>0, <2>1 DEF ActivationInv, TypeOK, LockInv, HoldsLock, Activated
    <2>5. PhaseInv'
        <3>1. \A a \in Addr : registry[a] # c
            BY <1>0 DEF ActivationInv, RegistryExact, Activated
        <3>2. \A t \in Sessions : probe'[<<t, t>>] = "none"
            BY <2>1, <3>1 DEF ActivationInv, PhaseInv, Pairs
        <3>3. \A t \in Sessions :
                  pc'[t] = pc[t] \/ pc'[t] = "reclaim"
            BY <1>0, <2>1 DEF TypeOK
        <3>4. SUFFICES ASSUME NEW t \in Sessions PROVE PhaseNext(t)
            BY PhaseNextSuffices
        <3> QED BY <1>0, <1>3, <2>1, <3>2, <3>3
                DEF ActivationInv, PhaseInv, Activated, Closing, PhaseNext
    <2> QED BY <2>2, <2>3, <2>4, <2>5 DEF ActivationInv
<1> QED BY <1>1, <1>2, <1>3

\* A reclaiming contender resumes after the probes it gathered.
LEMMA ReclaimWakeInv ==
    ASSUME ActivationInv, NEW c \in Sessions, ReclaimWake(c)
    PROVE  ActivationInv'
<1> DEFINE dead == {e \in Sessions : /\ probe[<<c, e>>] = "dead"
                                     /\ sa[e] # NoAddr
                                     /\ registry[sa[e]] = e}
<1>1. dead \in SUBSET Sessions /\ {} \in SUBSET Sessions
    OBVIOUS
<1>2. /\ \A e \in dead : pc[e] \notin {"absent", "accepted"}
      /\ \A e \in {} : pc[e] \notin {"absent", "accepted"}
    BY DEF ActivationInv, PhaseInv, Activated
<1>3. /\ pc[c] = "reclaim"
      /\ "unwind" \in Pcs /\ "drain" \in Pcs
      /\ UNCHANGED <<sa, req, lock, capLock, server>>
    BY DEF ReclaimWake, Pcs
<1>4. CASE Closing(c)
    <2>1. pc' = [pc EXCEPT ![c] = "unwind"] /\ Close({}, {c})
        BY <1>4 DEF ReclaimWake
    <2> HIDE DEF dead
    <2> QED BY <1>1, <1>2, <1>3, <2>1, CloseInv
<1>5. CASE ~Closing(c)
    <2>1. pc' = [pc EXCEPT ![c] = "drain"] /\ Close(dead, {c})
        BY <1>5 DEF ReclaimWake
    <2> HIDE DEF dead
    <2> QED BY <1>1, <1>2, <1>3, <2>1, CloseInv
<1> QED BY <1>4, <1>5

\* A reclaiming contender resumes after the evictions it waited for.
LEMMA ReclaimDoneInv ==
    ASSUME ActivationInv, NEW c \in Sessions, ReclaimDone(c)
    PROVE  ActivationInv'
<1> USE ConstantsAssumption
<1>0. /\ pc[c] = "drain"
      /\ req[c] \in Addr
      /\ lock[req[c]] = c
      /\ registry[req[c]] = NoSession
      /\ TypeOK
    BY DEF ActivationInv, LockInv, HoldsLock, ReclaimDone
<1>1. CASE Closing(c)
    BY <1>1, ExitRunInv DEF ReclaimDone
<1>2. CASE ~Closing(c) /\ Count(registry) >= MaxConnections
    <2>1. /\ pc' = [pc EXCEPT ![c] = "denying"]
          /\ Close({}, {c})
          /\ UNCHANGED <<sa, req, lock, server>>
          /\ capLock' = NoSession
        BY <1>2 DEF ReclaimDone
    <2>2. pc[c] \in HoldsLock
        BY <1>0 DEF HoldsLock
    <2> QED BY <2>1, <2>2, DenyInv
<1>3. CASE ~Closing(c) /\ ~(Count(registry) >= MaxConnections)
    <2>1. Commit(c, {}) /\ lock' = lock /\ capLock' = NoSession
        BY <1>3 DEF ReclaimDone
    <2>2. Unregister({})[req[c]] = NoSession
        BY <1>0 DEF Unregister
    <2>3. /\ {} \in SUBSET Sessions
          /\ c \notin {}
          /\ \A e \in {} : pc[e] \notin {"absent", "accepted"}
        OBVIOUS
    <2>4. /\ lock' = [lock EXCEPT ![req[c]] = c]
          /\ capLock' \in Sessions \cup {NoSession}
          /\ pc[c] \in HoldsLock \cup {"lockWait"}
        BY <1>0, <2>1 DEF TypeOK, HoldsLock
    <2> QED BY <1>0, <1>3, <2>1, <2>2, <2>3, <2>4, CommitInv
<1> QED BY <1>1, <1>2, <1>3

\* The Routing Activation Response has been sent.
LEMMA RespondDoneInv ==
    ASSUME ActivationInv, NEW c \in Sessions, RespondDone(c)
    PROVE  ActivationInv'
<1> USE ConstantsAssumption
<1>1. CASE Closing(c)
    BY <1>1, ExitRunInv DEF RespondDone
<1>2. CASE ~Closing(c)
    <2>1. TypeOK'
        BY <1>2 DEF ActivationInv, TypeOK, RespondDone, Pcs
    <2>2. RegistryExact'
        BY <1>2 DEF ActivationInv, RegistryExact, RespondDone, Activated, Closing
    <2>3. LockInv'
        BY <1>2 DEF ActivationInv, TypeOK, LockInv, RespondDone, HoldsLock,
                    Activated
    <2>4. PhaseInv'
        <3>1. SUFFICES ASSUME NEW t \in Sessions PROVE PhaseNext(t)
            BY PhaseNextSuffices
        <3>2. CASE t = c
            BY <1>2, <3>2 DEF ActivationInv, TypeOK, PhaseInv, RespondDone,
                              Closing, PhaseNext
        <3>3. CASE t # c
            BY <1>2, <3>3 DEF ActivationInv, TypeOK, PhaseInv, RespondDone,
                              Activated, Closing, PhaseNext
        <3> QED BY <3>2, <3>3
    <2> QED BY <2>1, <2>2, <2>3, <2>4 DEF ActivationInv
<1> QED BY <1>1, <1>2

\* A cancelled connection task leaves run() and its locks.
LEMMA CancelledInv ==
    ASSUME ActivationInv, NEW s \in Sessions, Cancelled(s)
    PROVE  ActivationInv'
<1>1. CASE pc[s] = "accepted"
    <2>1. /\ pc' = [pc EXCEPT ![s] = "finished"]
          /\ UNCHANGED <<sa, req, cleanup, timer, registry, openSockets, lock,
                         capLock, probe, replied, server>>
        BY <1>1 DEF Cancelled
    <2>2. TypeOK'
        BY <2>1 DEF ActivationInv, TypeOK, Pcs
    <2>3. RegistryExact'
        BY <2>1 DEF ActivationInv, RegistryExact, Activated, Closing
    <2>4. LockInv'
        BY <2>1 DEF ActivationInv, TypeOK, LockInv, HoldsLock, Activated
    <2>5. PhaseInv'
        <3>1. SUFFICES ASSUME NEW t \in Sessions PROVE PhaseNext(t)
            BY PhaseNextSuffices
        <3>2. pc'[t] = IF t = s THEN "finished" ELSE pc[t]
            BY <2>1 DEF ActivationInv, TypeOK
        <3> QED BY <1>1, <2>1, <3>2 DEF ActivationInv, PhaseInv, Activated,
                                        Closing, PhaseNext
    <2> QED BY <2>2, <2>3, <2>4, <2>5 DEF ActivationInv
<1>2. CASE pc[s] \in {"reclaim", "drain"}
    <2>1. /\ pc' = [pc EXCEPT ![s] = "unwind"]
          /\ Close({}, {s})
          /\ UNCHANGED <<sa, req, lock, capLock, server>>
        BY <1>2 DEF Cancelled
    <2>2. /\ {} \in SUBSET Sessions
          /\ "unwind" \in Pcs
          /\ \A e \in {} : pc[e] \notin {"absent", "accepted"}
        BY DEF Pcs
    <2> QED BY <1>2, <2>1, <2>2, CloseInv
<1>3. CASE ExitRun(s)
    BY <1>3, ExitRunInv
<1> QED BY <1>1, <1>2, <1>3 DEF Cancelled

\* A session step: the exits all go through ExitRun.
LEMMA SessionStepInv ==
    ASSUME ActivationInv, NEW s \in Sessions, SessionStep(s)
    PROVE  ActivationInv'
<1>1. CASE ReadEof(s) \/ DenyDone(s) \/ Unwound(s) \/ RespondFails(s)
    BY <1>1, ExitRunInv DEF ReadEof, DenyDone, Unwound, RespondFails
<1>2. CASE ServeDone(s)
    <2>1. CASE ExitRun(s)
        BY <2>1, ExitRunInv
    <2>2. CASE ~ExitRun(s)
        <3>1. /\ pc[s] = "serving"
              /\ pc' = [pc EXCEPT ![s] = "idle"]
              /\ UNCHANGED <<sa, req, cleanup, timer, registry, openSockets,
                             lock, capLock, probe, replied, server>>
            BY <1>2, <2>2 DEF ServeDone
        <3>2. TypeOK'
            BY <3>1 DEF ActivationInv, TypeOK, Pcs
        <3>3. RegistryExact'
            BY <3>1 DEF ActivationInv, RegistryExact, Activated, Closing
        <3>4. LockInv'
            BY <3>1 DEF ActivationInv, TypeOK, LockInv, HoldsLock, Activated
        <3>5. PhaseInv'
            BY <3>1 DEF ActivationInv, TypeOK, PhaseInv, Activated, Closing
        <3> QED BY <3>2, <3>3, <3>4, <3>5 DEF ActivationInv
    <2> QED BY <2>1, <2>2
<1>3. CASE \E a \in Addr : ReadActivation(s, a)
    BY <1>3, ReadActivationInv
<1> QED BY <1>1, <1>2, <1>3, AcceptInv, HandleConnectionInv, CleanupDoneInv,
           FinishInv, ForgetInv, CancelledInv, ReadServedInv, ReadRefusedInv,
           TesterAliveInv, ReadAliveInv, TimerFireInv, LockGrantedInv,
           CapacityLockGrantedInv, ReclaimWakeInv, ReclaimDoneInv,
           RespondDoneInv
        DEF SessionStep

\* Every step of the event loop preserves the invariant.
LEMMA NextInv ==
    ASSUME ActivationInv, [Next]_vars
    PROVE  ActivationInv'
<1>1. CASE UNCHANGED vars
    BY <1>1 DEF vars, ActivationInv, TypeOK, RegistryExact, LockInv, PhaseInv,
                Activated, Closing
<1>2. CASE Next
    BY <1>1, <1>2, StopInv, StopCancelInv, SessionStepInv, ProbeStepInv
       DEF Next, Terminated
<1> QED BY <1>1, <1>2

\* The freshly started server satisfies the invariant.
LEMMA InitInv == Init => ActivationInv
<1> SUFFICES ASSUME Init PROVE ActivationInv
    OBVIOUS
<1>1. TypeOK
    BY DEF Init, TypeOK, Pcs, ProbeStates
<1>2. RegistryExact
    BY DEF Init, RegistryExact, Activated
<1>3. LockInv
    BY DEF Init, LockInv, HoldsLock
<1>4. PhaseInv
    BY DEF Init, PhaseInv, Activated, Closing, Pairs
<1> QED BY <1>1, <1>2, <1>3, <1>4 DEF ActivationInv

-----------------------------------------------------------------------------
(* The theorems.                                                           *)

\* The inductive invariant: types, the registry, what the holder of an
\* activation lock may rely on, and the phases of a connection.
THEOREM ActivationSafe == Spec => []ActivationInv
BY InitInv, NextInv, PTL DEF Spec

\* Types of the sessions, the registry, the locks and the probes.
THEOREM TypeCorrect == Spec => []TypeOK
<1>1. ActivationInv => TypeOK
    BY DEF ActivationInv
<1> QED BY <1>1, ActivationSafe, PTL

\* A tester address maps to the one activated session that is not closing, in
\* every interleaving of activations, probes, evictions, timers, teardowns
\* and server stop, for any number of connections and addresses.
THEOREM RegistryCorrect == Spec => []RegistryExact
<1>1. ActivationInv => RegistryExact
    BY DEF ActivationInv
<1> QED BY <1>1, ActivationSafe, PTL

-----------------------------------------------------------------------------
(* Capacity.                                                               *)

Held(reg) == {a \in Addr : reg[a] # NoSession}

\* The number of registered addresses is monotonic in the registry.
LEMMA CountMonotonic ==
    ASSUME NEW r1, NEW r2, Held(r1) \subseteq Held(r2)
    PROVE  Count(r1) \in Nat /\ Count(r2) \in Nat /\ Count(r1) <= Count(r2)
<1>1. IsFiniteSet(Held(r2))
    BY FS_Subset, ConstantsAssumption DEF Held
<1>2. /\ IsFiniteSet(Held(r1))
      /\ Cardinality(Held(r1)) <= Cardinality(Held(r2))
    BY <1>1, FS_Subset
<1> QED BY <1>1, <1>2, FS_CardinalityType DEF Count, Held

\* Registering one address adds at most one.
LEMMA CountRegister ==
    ASSUME NEW r1, NEW r2, NEW a \in Addr, Held(r2) \subseteq Held(r1) \cup {a}
    PROVE  Count(r2) <= Count(r1) + 1
<1>1. IsFiniteSet(Held(r1))
    BY FS_Subset, ConstantsAssumption DEF Held
<1>2. /\ IsFiniteSet(Held(r1) \cup {a})
      /\ Cardinality(Held(r1) \cup {a}) <= Cardinality(Held(r1)) + 1
    BY <1>1, FS_AddElement, FS_CardinalityType
<1>3. /\ IsFiniteSet(Held(r2))
      /\ Cardinality(Held(r2)) <= Cardinality(Held(r1) \cup {a})
    BY <1>2, FS_Subset
<1> QED BY <1>1, <1>2, <1>3, FS_CardinalityType DEF Count, Held

\* Sockets and registrations may only be given back.
Shrinks == openSockets' \subseteq openSockets /\ Held(registry') \subseteq Held(registry)

\* Fewer open sockets, smaller count.
LEMMA SocketsShrink ==
    ASSUME TypeOK, openSockets' \subseteq openSockets
    PROVE  /\ Cardinality(openSockets) \in Nat
           /\ Cardinality(openSockets') \in Nat
           /\ Cardinality(openSockets') <= Cardinality(openSockets)
<1>1. IsFiniteSet(openSockets)
    BY FS_Subset, ConstantsAssumption DEF TypeOK
<1>2. /\ IsFiniteSet(openSockets')
      /\ Cardinality(openSockets') <= Cardinality(openSockets)
    BY <1>1, FS_Subset
<1> QED BY <1>1, <1>2, FS_CardinalityType

\* A step that registers no address and opens no socket keeps the bounds.
LEMMA ShrinkCapacity ==
    ASSUME TypeOK, CapacityBound, Shrinks
    PROVE  CapacityBound'
<1>1. Count(registry') <= Count(registry) /\ Count(registry) \in Nat /\ Count(registry') \in Nat
    BY CountMonotonic DEF Shrinks
<1>2. Count(registry)' = Count(registry')
    BY DEF Count
<1> QED BY <1>1, <1>2, SocketsShrink, ConstantsAssumption DEF CapacityBound, Shrinks

\* Closing sessions gives back what they hold.
LEMMA CloseShrinks ==
    ASSUME NEW E, NEW Q, Close(E, Q)
    PROVE  Shrinks
BY DEF Close, CloseTransport, Unregister, Shrinks, Held

\* A commit below the limit, or of an address already held by the session.
LEMMA CommitCapacity ==
    ASSUME TypeOK, CapacityBound, NEW c \in Sessions, NEW E, Commit(c, E),
           req[c] \in Addr,
           \/ Count(Unregister(E)) < MaxConnections
           \/ Unregister(E)[req[c]] # NoSession
    PROVE  CapacityBound'
<1>1. openSockets' \subseteq openSockets
    BY DEF Commit, CloseTransport
<1>2. Held(Unregister(E)) \subseteq Held(registry)
    BY DEF Held, Unregister
<1>3. /\ Count(Unregister(E)) \in Nat
      /\ Count(registry) \in Nat
      /\ Count(Unregister(E)) <= Count(registry)
    BY <1>2, CountMonotonic
<1>4. Held(registry') \subseteq Held(Unregister(E)) \cup {req[c]}
    BY UnregisterType DEF Commit, Held
<1>5. Count(registry') <= MaxConnections
    <2>1. CASE Count(Unregister(E)) < MaxConnections
        <3>1. Count(registry') <= Count(Unregister(E)) + 1
            BY <1>4, CountRegister
        <3>2. Count(registry') \in Nat
            BY CountMonotonic
        <3> QED BY <1>3, <2>1, <3>1, <3>2, ConstantsAssumption
    <2>2. CASE Unregister(E)[req[c]] # NoSession
        <3>1. Held(registry') \subseteq Held(Unregister(E))
            BY <1>4, <2>2 DEF Held
        <3>2. /\ Count(registry') \in Nat
              /\ Count(registry') <= Count(Unregister(E))
            BY <3>1, CountMonotonic
        <3> QED BY <1>3, <3>2, ConstantsAssumption DEF CapacityBound
    <2> QED BY <2>1, <2>2
<1>6. Count(registry)' = Count(registry')
    BY DEF Count
<1> QED BY <1>1, <1>5, <1>6, SocketsShrink, ConstantsAssumption DEF CapacityBound

\* Admission commits only below the limit.
LEMMA AdmitCapacity ==
    ASSUME TypeOK, CapacityBound, NEW c \in Sessions, NEW E, Admit(c, E),
           req[c] \in Addr, Activated(c) => Unregister(E)[req[c]] # NoSession
    PROVE  CapacityBound'
<1>1. CASE Commit(c, E)
    <2>2. CASE Activated(c) \/ Count(Unregister(E)) < MaxConnections
        BY <1>1, <2>2, CommitCapacity
    <2>3. CASE ~(Activated(c) \/ Count(Unregister(E)) < MaxConnections)
        BY <2>3, CloseShrinks, ShrinkCapacity DEF Admit
    <2> QED BY <2>2, <2>3
<1>2. CASE ~Commit(c, E)
    BY <1>2, CloseShrinks, ShrinkCapacity DEF Admit
<1> QED BY <1>1, <1>2

\* A look at the registry, with what follows it, keeps the bounds.
LEMMA ConflictLookupCapacity ==
    ASSUME ActivationInv, CapacityBound, NEW c \in Sessions, ConflictLookup(c),
           ~Closing(c), pc[c] \in {"lockWait", "probing"}
    PROVE  CapacityBound'
<1>0. /\ req[c] \in Addr
      /\ Activated(c) => sa[c] = req[c]
      /\ TypeOK
    BY DEF ActivationInv, LockInv, HoldsLock
<1>1. CASE registry[req[c]] \in {NoSession, c}
    <2>1. Admit(c, {})
        BY <1>1 DEF ConflictLookup
    <2>2. Activated(c) => registry[req[c]] = c
        BY <1>0 DEF ActivationInv, RegistryExact
    <2>3. Activated(c) => Unregister({})[req[c]] # NoSession
        BY <1>0, <2>2, ConstantsAssumption DEF Unregister
    <2> QED BY <1>0, <2>1, <2>3, AdmitCapacity
<1>2. CASE registry[req[c]] \notin {NoSession, c}
    BY <1>0, <1>2, ShrinkCapacity DEF ConflictLookup, Shrinks, Held
<1> QED BY <1>1, <1>2

\* Acting on the result of a probe keeps the bounds.
LEMMA DecideCapacity ==
    ASSUME ActivationInv, CapacityBound, NEW c \in Sessions, NEW e \in Sessions,
           NEW alive \in BOOLEAN, pc[c] = "probing", e # c, Decide(c, e, alive)
    PROVE  CapacityBound'
<1>0. /\ req[c] \in Addr
      /\ Activated(c) => sa[c] = req[c]
      /\ TypeOK
    BY DEF ActivationInv, LockInv, HoldsLock
<1>1. CASE Closing(c)
    BY <1>0, <1>1, CloseShrinks, ShrinkCapacity DEF Decide, ExitRun
<1>2. CASE ~Closing(c) /\ registry[req[c]] # e
    BY <1>2, ConflictLookupCapacity DEF Decide
<1>3. CASE ~Closing(c) /\ registry[req[c]] = e /\ alive
    BY <1>0, <1>3, CloseShrinks, ShrinkCapacity DEF Decide
<1>4. CASE ~Closing(c) /\ registry[req[c]] = e /\ ~alive
    <2>1. Admit(c, {e})
        BY <1>4 DEF Decide
    <2>2. ~Activated(c)
        BY <1>0, <1>4 DEF ActivationInv, RegistryExact
    <2> QED BY <1>0, <2>1, <2>2, AdmitCapacity
<1> QED BY <1>1, <1>2, <1>3, <1>4

\* No step of a probe_alive call registers an address or opens a socket.
LEMMA ProbeStepCapacity ==
    ASSUME ActivationInv, CapacityBound, NEW c \in Sessions,
           NEW e \in Sessions, ProbeStep(c, e)
    PROVE  CapacityBound'
<1>0. TypeOK
    BY DEF ActivationInv
<1>1. e # c
    BY DEF ActivationInv, PhaseInv, ProbeStep, ProbeStart, ProbeSent,
           ProbeSendFails, ProbeAnswered, ProbeTimeout
<1>2. ASSUME NEW state, SetProbe(c, e, state) PROVE CapacityBound'
    BY <1>0, <1>2, ShrinkCapacity DEF SetProbe, Shrinks
<1>3. ASSUME NEW alive \in BOOLEAN, ProbeReturns(c, e, alive) PROVE CapacityBound'
    <2>1. CASE pc[c] = "probing" /\ Decide(c, e, alive)
        BY <1>1, <2>1, DecideCapacity
    <2>2. CASE ~(pc[c] = "probing" /\ Decide(c, e, alive))
        BY <1>0, <1>3, <2>2, ShrinkCapacity DEF ProbeReturns, Shrinks
    <2> QED BY <2>1, <2>2
<1>4. CASE ProbeStart(c, e)
    BY <1>2, <1>3, <1>4 DEF ProbeStart
<1>5. CASE ProbeSent(c, e)
    BY <1>2, <1>5 DEF ProbeSent
<1>6. CASE ProbeSendFails(c, e) \/ ProbeTimeout(c, e)
    BY <1>3, <1>6 DEF ProbeSendFails, ProbeTimeout
<1>7. CASE ProbeAnswered(c, e)
    BY <1>3, <1>7 DEF ProbeAnswered, Closing
<1> QED BY <1>4, <1>5, <1>6, <1>7 DEF ProbeStep

\* Admission: reserve lets one socket more than max_connections in.
LEMMA HandleConnectionCapacity ==
    ASSUME TypeOK, CapacityBound, NEW s \in Sessions, HandleConnection(s)
    PROVE  CapacityBound'
<1>1. registry' = registry
    BY DEF HandleConnection
<1>2. CASE Reserve(s) /\ openSockets' = openSockets \cup {s}
    <2>1. IsFiniteSet(openSockets)
        BY FS_Subset, ConstantsAssumption DEF TypeOK
    <2>2. Cardinality(openSockets) \in Nat
        BY <2>1, FS_CardinalityType
    <2>3. Cardinality(openSockets') <= Cardinality(openSockets) + 1
        BY <1>2, <2>1, <2>2, FS_AddElement
    <2>4. Cardinality(openSockets') \in Nat
        BY <1>2, <2>1, FS_AddElement, FS_CardinalityType
    <2>5. Cardinality(openSockets') <= MaxConnections + 1
        BY <1>2, <2>2, <2>3, <2>4, ConstantsAssumption DEF Reserve
    <2> QED BY <1>1, <2>5 DEF CapacityBound, Count
<1>3. CASE UNCHANGED openSockets
    BY <1>1, <1>3, ShrinkCapacity DEF Shrinks
<1> QED BY <1>2, <1>3 DEF HandleConnection

\* Every step of a session keeps the bounds.
LEMMA SessionStepCapacity ==
    ASSUME ActivationInv, CapacityBound, NEW s \in Sessions, SessionStep(s)
    PROVE  CapacityBound'
<1>0. TypeOK
    BY DEF ActivationInv
<1>1. ASSUME ExitRun(s) PROVE CapacityBound'
    BY <1>0, <1>1, CloseShrinks, ShrinkCapacity DEF ExitRun
<1>2. ASSUME UNCHANGED <<registry, openSockets>> PROVE CapacityBound'
    BY <1>0, <1>2, ShrinkCapacity DEF Shrinks
<1>3. CASE \/ Accept(s) \/ CleanupDone(s) \/ Finish(s) \/ Forget(s)
           \/ ReadServed(s) \/ ReadRefused(s) \/ TesterAlive(s) \/ ReadAlive(s)
           \/ \E a \in Addr : ReadActivation(s, a)
    BY <1>2, <1>3 DEF Accept, CleanupDone, Finish, Forget, ReadServed,
                      ReadRefused, TesterAlive, ReadAlive, ReadActivation
<1>4. CASE ReadEof(s) \/ ServeDone(s) \/ DenyDone(s) \/ Unwound(s) \/ RespondFails(s)
    BY <1>1, <1>2, <1>4 DEF ReadEof, ServeDone, DenyDone, Unwound, RespondFails
<1>5. CASE HandleConnection(s)
    BY <1>0, <1>5, HandleConnectionCapacity
<1>6. CASE Cancelled(s)
    BY <1>0, <1>1, <1>2, <1>6, CloseShrinks, ShrinkCapacity DEF Cancelled
<1>7. CASE TimerFire(s) \/ ReclaimWake(s)
    BY <1>0, <1>7, CloseShrinks, ShrinkCapacity DEF TimerFire, ReclaimWake
<1>8. CASE LockGranted(s)
    <2>1. CASE Closing(s)
        BY <1>1, <1>8, <2>1 DEF LockGranted
    <2>2. CASE ~Closing(s)
        BY <1>8, <2>2, ConflictLookupCapacity DEF LockGranted
    <2> QED BY <2>1, <2>2
<1>9. CASE CapacityLockGranted(s) \/ ReclaimDone(s)
    <2>0. req[s] \in Addr
        BY <1>9 DEF ActivationInv, LockInv, HoldsLock, CapacityLockGranted,
                    ReclaimDone
    <2>1. Unregister({}) = registry
        BY <1>0 DEF Unregister, TypeOK
    <2>2. ASSUME Commit(s, {}), Count(registry) < MaxConnections
          PROVE  CapacityBound'
        BY <1>0, <2>0, <2>1, <2>2, CommitCapacity
    <2>3. Count(registry) \in Nat
        BY CountMonotonic
    <2>4. Count(registry) >= MaxConnections <=> ~(Count(registry) < MaxConnections)
        BY <2>3, ConstantsAssumption
    <2>5. CASE CapacityLockGranted(s)
        BY <1>1, <1>2, <2>2, <2>5 DEF CapacityLockGranted
    <2>6. CASE ReclaimDone(s)
        BY <1>0, <1>1, <2>2, <2>4, <2>6, CloseShrinks, ShrinkCapacity
           DEF ReclaimDone
    <2> QED BY <1>9, <2>5, <2>6
<1>10. CASE RespondDone(s)
    BY <1>1, <1>2, <1>10 DEF RespondDone
<1> QED BY <1>3, <1>4, <1>5, <1>6, <1>7, <1>8, <1>9, <1>10 DEF SessionStep

\* max_connections is never exceeded, however many activations, probes and
\* evictions overlap, and at most one further socket is open.
THEOREM CapacityRespected == Spec => []CapacityBound
<1>1. Init => CapacityBound
    <2> SUFFICES ASSUME Init PROVE CapacityBound
        OBVIOUS
    <2>1. Held(registry) = {}
        BY DEF Init, Held
    <2>2. Count(registry) = 0
        BY <2>1, FS_EmptySet DEF Count, Held
    <2>3. Cardinality(openSockets) = 0
        BY FS_EmptySet DEF Init
    <2> QED BY <2>2, <2>3, ConstantsAssumption DEF CapacityBound
<1>2. ASSUME ActivationInv, CapacityBound, [Next]_vars PROVE CapacityBound'
    <2>1. TypeOK
        BY <1>2 DEF ActivationInv
    <2>2. CASE UNCHANGED vars
        BY <1>2, <2>1, <2>2, ShrinkCapacity DEF vars, Shrinks
    <2>3. CASE Stop \/ StopCancel \/ Terminated
        BY <1>2, <2>1, <2>3, ShrinkCapacity
           DEF Stop, StopCancel, Terminated, vars, Shrinks
    <2>4. CASE \E s \in Sessions : SessionStep(s)
        BY <1>2, <2>4, SessionStepCapacity
    <2>5. CASE \E c, e \in Sessions : ProbeStep(c, e)
        BY <1>2, <2>5, ProbeStepCapacity
    <2> QED BY <1>2, <2>2, <2>3, <2>4, <2>5 DEF Next
<1> QED BY <1>1, <1>2, ActivationSafe, PTL DEF Spec

-----------------------------------------------------------------------------
(* Slots and timers.                                                       *)

\* Accounting in the next state, for one session: it is counted if and only if
\* it has been admitted and is not closing, and its timer is that of its phase.
SlotNext(t) ==
    t \in openSockets' <=>
        cleanup'[t] = "no" /\ pc'[t] \notin {"absent", "accepted", "finished"}
TimerNext(t) ==
    pc'[t] \in {"idle", "serving"} /\ cleanup'[t] = "no" =>
        timer'[t] = IF sa'[t] # NoAddr THEN "general" ELSE "initial"

\* Both invariants hold after a step when they do for each session.
LEMMA AccountsNextSuffices ==
    ASSUME TypeOK',
           \A t \in Sessions : (server' = "up" => SlotNext(t)) /\ TimerNext(t)
    PROVE  SocketAccounting' /\ TimerArmed'
BY DEF SocketAccounting, TimerArmed, SlotNext, TimerNext, TypeOK, Activated, Closing

\* What a step may do to a session it does not close: nothing, or move it, away
\* from the reads, between awaits that lie after its admission.
Moves(t) ==
    \/ pc'[t] = pc[t] /\ sa'[t] = sa[t]
    \/ /\ pc[t] \notin {"absent", "accepted", "finished"}
       /\ pc'[t] \notin {"absent", "accepted", "finished", "idle", "serving"}

\* A step that closes the sessions in E gives their slots back, and no other.
LEMMA CloseAccounts ==
    ASSUME ActivationInv, SocketAccounting, TimerArmed, TypeOK',
           NEW E, NEW Q, CloseTransport(E, Q), server' = server,
           \A t \in Sessions : Moves(t)
    PROVE  SocketAccounting' /\ TimerArmed'
<1>1. SUFFICES ASSUME NEW t \in Sessions
               PROVE  (server' = "up" => SlotNext(t)) /\ TimerNext(t)
    BY AccountsNextSuffices
<1>2. /\ cleanup'[t] = "no" <=> cleanup[t] = "no" /\ t \notin E
      /\ timer'[t] = IF t \in E THEN "none" ELSE timer[t]
      /\ t \in openSockets' <=> t \in openSockets /\ t \notin E
    BY DEF CloseTransport, ActivationInv, TypeOK
<1>3. Moves(t)
    OBVIOUS
<1>4. server = "up" =>
         (t \in openSockets <=>
             cleanup[t] = "no" /\ pc[t] \notin {"absent", "accepted", "finished"})
    BY DEF SocketAccounting, Closing
<1>5. pc[t] \in {"idle", "serving"} /\ cleanup[t] = "no" =>
         timer[t] = IF sa[t] # NoAddr THEN "general" ELSE "initial"
    BY DEF TimerArmed, Activated, Closing
<1>6. server' = "up" => SlotNext(t)
    BY <1>2, <1>3, <1>4 DEF SlotNext, Moves
<1>7. TimerNext(t)
    BY <1>2, <1>3, <1>5 DEF TimerNext, Moves
<1> QED BY <1>6, <1>7

\* Leaving run().
LEMMA ExitRunAccounts ==
    ASSUME ActivationInv, SocketAccounting, TimerArmed, TypeOK',
           NEW s \in Sessions, ExitRun(s),
           pc[s] \notin {"absent", "accepted", "finished"}
    PROVE  SocketAccounting' /\ TimerArmed'
<1>1. \A t \in Sessions : Moves(t)
    BY DEF ActivationInv, TypeOK, ExitRun, Moves
<1> QED BY <1>1, CloseAccounts DEF ExitRun, Close

\* A step that only moves session c away from the reads, and may register it.
LEMMA MoveAccounts ==
    ASSUME ActivationInv, SocketAccounting, TimerArmed, TypeOK',
           NEW c \in Sessions, NEW E, NEW Q, CloseTransport(E, Q),
           server' = server, NEW at,
           pc[c] \notin {"absent", "accepted", "finished"},
           at \notin {"absent", "accepted", "finished", "idle", "serving"},
           pc' = [pc EXCEPT ![c] = at],
           \A t \in Sessions \ {c} : sa'[t] = sa[t]
    PROVE  SocketAccounting' /\ TimerArmed'
<1>1. \A t \in Sessions : Moves(t)
    BY DEF ActivationInv, TypeOK, Moves
<1> QED BY <1>1, CloseAccounts

\* Admission at the end of a decision.
LEMMA AdmitAccounts ==
    ASSUME ActivationInv, SocketAccounting, TimerArmed, TypeOK',
           NEW c \in Sessions, NEW E, Admit(c, E),
           pc[c] \notin {"absent", "accepted", "finished"}
    PROVE  SocketAccounting' /\ TimerArmed'
<1>1. CASE Commit(c, E)
    <2>1. \A t \in Sessions \ {c} : sa'[t] = sa[t]
        BY <1>1 DEF Commit, ActivationInv, TypeOK
    <2> QED BY <1>1, <2>1, MoveAccounts DEF Commit
<1>2. CASE ~Commit(c, E)
    <2>1. /\ Close(E, {c})
          /\ pc' = [pc EXCEPT ![c] = "capWait"]
          /\ UNCHANGED <<sa, req, server>>
        BY <1>2 DEF Admit
    <2> QED BY <2>1, MoveAccounts DEF Close
<1> QED BY <1>1, <1>2

\* A step that opens or closes nothing and leaves timers, addresses and the
\* state of the server alone.
LEMMA StillAccounts ==
    ASSUME ActivationInv, SocketAccounting, TimerArmed, TypeOK',
           UNCHANGED <<sa, timer, openSockets, server>>,
           \A t \in Sessions : cleanup'[t] = "no" <=> cleanup[t] = "no",
           \A t \in Sessions :
              \/ Moves(t)
              \/ pc[t] \in {"idle", "serving"} /\ pc'[t] \in {"idle", "serving"}
              \/ pc[t] = "stopping" /\ pc'[t] = "finished"
              \/ pc[t] = "absent" /\ pc'[t] = "accepted"
              \/ server # "up" /\ pc'[t] = "finished"
    PROVE  SocketAccounting' /\ TimerArmed'
<1>1. SUFFICES ASSUME NEW t \in Sessions
               PROVE  (server' = "up" => SlotNext(t)) /\ TimerNext(t)
    BY AccountsNextSuffices
<1>2. cleanup[t] # "no" \/ pc[t] # "stopping"
    BY DEF ActivationInv, PhaseInv, Closing
<1>3. server = "up" =>
         (t \in openSockets <=>
             cleanup[t] = "no" /\ pc[t] \notin {"absent", "accepted", "finished"})
    BY DEF SocketAccounting, Closing
<1>4. pc[t] \in {"idle", "serving"} /\ cleanup[t] = "no" =>
         timer[t] = IF sa[t] # NoAddr THEN "general" ELSE "initial"
    BY DEF TimerArmed, Activated, Closing
<1> QED BY <1>2, <1>3, <1>4 DEF SlotNext, TimerNext, Moves

\* One pass of the conflict loop.
LEMMA ConflictLookupAccounts ==
    ASSUME ActivationInv, SocketAccounting, TimerArmed, TypeOK',
           NEW c \in Sessions, ConflictLookup(c),
           pc[c] \notin {"absent", "accepted", "finished"}
    PROVE  SocketAccounting' /\ TimerArmed'
<1>1. CASE registry[req[c]] \in {NoSession, c}
    BY <1>1, AdmitAccounts DEF ConflictLookup
<1>2. CASE registry[req[c]] \notin {NoSession, c}
    <2>1. \A t \in Sessions : Moves(t)
        BY <1>2 DEF ConflictLookup, ActivationInv, TypeOK, Moves
    <2> QED BY <1>2, <2>1, StillAccounts DEF ConflictLookup
<1> QED BY <1>1, <1>2

\* A step of a probe_alive call.
LEMMA ProbeStepAccounts ==
    ASSUME ActivationInv, SocketAccounting, TimerArmed, TypeOK',
           NEW c \in Sessions, NEW e \in Sessions, ProbeStep(c, e)
    PROVE  SocketAccounting' /\ TimerArmed'
<1>1. ASSUME UNCHANGED <<pc, sa, cleanup, timer, openSockets, server>>
      PROVE  SocketAccounting' /\ TimerArmed'
    BY <1>1, StillAccounts DEF Moves
<1>2. ASSUME NEW alive, pc[c] = "probing", Decide(c, e, alive)
      PROVE  SocketAccounting' /\ TimerArmed'
    <2>1. CASE Closing(c)
        BY <1>2, <2>1, ExitRunAccounts DEF Decide
    <2>2. CASE ~Closing(c) /\ registry[req[c]] # e
        BY <1>2, <2>2, ConflictLookupAccounts DEF Decide
    <2>3. CASE ~Closing(c) /\ registry[req[c]] = e /\ alive
        BY <1>2, <2>3, MoveAccounts DEF Decide, Close
    <2>4. CASE ~Closing(c) /\ registry[req[c]] = e /\ ~alive
        BY <1>2, <2>4, AdmitAccounts DEF Decide
    <2> QED BY <2>1, <2>2, <2>3, <2>4
<1>3. ASSUME NEW alive, ProbeReturns(c, e, alive)
      PROVE  SocketAccounting' /\ TimerArmed'
    BY <1>1, <1>2, <1>3 DEF ProbeReturns
<1> QED BY <1>1, <1>3 DEF ProbeStep, ProbeStart, ProbeSent, ProbeSendFails,
                          ProbeAnswered, ProbeTimeout, SetProbe

\* A step of a session.
LEMMA SessionStepAccounts ==
    ASSUME ActivationInv, SocketAccounting, TimerArmed, TypeOK',
           NEW s \in Sessions, SessionStep(s)
    PROVE  SocketAccounting' /\ TimerArmed'
<1>0. TypeOK
    BY DEF ActivationInv
<1>1. CASE Accept(s)
    BY <1>0, <1>1, StillAccounts DEF Accept, Moves, TypeOK
<1>2. CASE HandleConnection(s)
    <2>1. CASE server = "up" /\ Reserve(s)
        <3>1. SUFFICES ASSUME NEW t \in Sessions
                       PROVE  (server' = "up" => SlotNext(t)) /\ TimerNext(t)
            BY AccountsNextSuffices
        <3>2. sa[s] = NoAddr /\ cleanup[s] = "no"
            BY <1>2 DEF HandleConnection, ActivationInv, PhaseInv, Activated, Closing
        <3>3. CASE t = s
            BY <1>0, <1>2, <2>1, <3>2, <3>3
               DEF HandleConnection, SlotNext, TimerNext, TypeOK
        <3>4. CASE t # s
            BY <1>0, <1>2, <2>1, <3>4
               DEF HandleConnection, SlotNext, TimerNext, TypeOK,
                   SocketAccounting, TimerArmed, Activated, Closing
        <3> QED BY <3>3, <3>4
    <2>2. CASE ~(server = "up" /\ Reserve(s))
        <3>1. SUFFICES ASSUME NEW t \in Sessions
                       PROVE  (server' = "up" => SlotNext(t)) /\ TimerNext(t)
            BY AccountsNextSuffices
        <3>2. pc'[t] = IF t = s THEN "finished" ELSE pc[t]
            BY <1>0, <1>2, <2>2 DEF HandleConnection, TypeOK
        <3> QED BY <1>0, <1>2, <2>2, <3>2
                DEF HandleConnection, SlotNext, TimerNext, TypeOK,
                    SocketAccounting, TimerArmed, Activated, Closing
    <2> QED BY <2>1, <2>2
<1>3. CASE CleanupDone(s)
    <2>1. \A t \in Sessions : cleanup'[t] = "no" <=> cleanup[t] = "no"
        BY <1>0, <1>3 DEF CleanupDone, TypeOK
    <2> QED BY <1>3, <2>1, StillAccounts DEF CleanupDone, Moves
<1>4. CASE Finish(s)
    BY <1>0, <1>4, StillAccounts DEF Finish, Moves, TypeOK
<1>5. CASE Forget(s)
    <2>1. SUFFICES ASSUME NEW t \in Sessions
                   PROVE  (server' = "up" => SlotNext(t)) /\ TimerNext(t)
        BY AccountsNextSuffices
    <2>2. CASE t = s
        BY <1>0, <1>5, <2>2 DEF Forget, SlotNext, TimerNext, TypeOK,
                    SocketAccounting, TimerArmed, Activated, Closing
    <2>3. CASE t # s
        BY <1>0, <1>5, <2>3 DEF Forget, SlotNext, TimerNext, TypeOK,
                    SocketAccounting, TimerArmed, Activated, Closing
    <2> QED BY <2>2, <2>3
<1>6. CASE Cancelled(s)
    <2>1. CASE pc[s] = "accepted"
        BY <1>0, <1>6, <2>1, StillAccounts DEF Cancelled, Moves, TypeOK
    <2>2. CASE pc[s] \in {"reclaim", "drain"}
        BY <1>6, <2>2, MoveAccounts DEF Cancelled, Close
    <2>3. CASE pc[s] \notin {"accepted", "reclaim", "drain"}
        BY <1>6, <2>3, ExitRunAccounts DEF Cancelled
    <2> QED BY <2>1, <2>2, <2>3
<1>7. CASE ReadEof(s) \/ DenyDone(s) \/ Unwound(s) \/ RespondFails(s)
    BY <1>7, ExitRunAccounts DEF ReadEof, DenyDone, Unwound, RespondFails
<1>8. CASE ReadServed(s) \/ ServeDone(s)
    <2>1. CASE ExitRun(s)
        BY <1>8, <2>1, ExitRunAccounts DEF ReadServed, ServeDone
    <2>2. CASE ~ExitRun(s)
        <3>1. \A t \in Sessions :
                 \/ Moves(t)
                 \/ pc[t] \in {"idle", "serving"} /\ pc'[t] \in {"idle", "serving"}
            BY <1>0, <1>8, <2>2 DEF ReadServed, ServeDone, Moves, TypeOK
        <3>2. UNCHANGED <<sa, timer, openSockets, server, cleanup>>
            BY <1>8, <2>2 DEF ReadServed, ServeDone
        <3> QED BY <3>1, <3>2, StillAccounts
    <2> QED BY <2>1, <2>2
<1>9. CASE ReadRefused(s) \/ (\E a \in Addr : ReadActivation(s, a))
    <2>0. /\ UNCHANGED <<sa, openSockets, server, cleanup>>
          /\ pc[s] = "idle"
          /\ \E at \in {"denying", "lockWait"} : pc' = [pc EXCEPT ![s] = at]
          /\ \E tm : timer' = [timer EXCEPT ![s] = tm]
        BY <1>9 DEF ReadRefused, ReadActivation
    <2>1. SUFFICES ASSUME NEW t \in Sessions
                   PROVE  (server' = "up" => SlotNext(t)) /\ TimerNext(t)
        BY AccountsNextSuffices
    <2>2. CASE t = s
        BY <1>0, <2>0, <2>2 DEF SlotNext, TimerNext, TypeOK,
                    SocketAccounting, TimerArmed, Activated, Closing
    <2>3. CASE t # s
        BY <1>0, <2>0, <2>3 DEF SlotNext, TimerNext, TypeOK,
                    SocketAccounting, TimerArmed, Activated, Closing
    <2> QED BY <2>2, <2>3
<1>10. CASE TesterAlive(s) \/ ReadAlive(s)
    BY <1>10, StillAccounts DEF TesterAlive, ReadAlive, Moves
<1>11. CASE TimerFire(s)
    BY <1>11, CloseAccounts DEF TimerFire, Close, Moves
<1>12. CASE LockGranted(s)
    <2>1. CASE Closing(s)
        BY <1>12, <2>1, ExitRunAccounts DEF LockGranted
    <2>2. CASE ~Closing(s)
        BY <1>12, <2>2, ConflictLookupAccounts DEF LockGranted
    <2> QED BY <2>1, <2>2
<1>13. ASSUME Commit(s, {}), pc[s] \in {"capWait", "drain"}
       PROVE  SocketAccounting' /\ TimerArmed'
    <2>1. \A t \in Sessions \ {s} : sa'[t] = sa[t]
        BY <1>0, <1>13 DEF Commit, TypeOK
    <2> QED BY <1>13, <2>1, MoveAccounts DEF Commit
<1>14. CASE CapacityLockGranted(s)
    <2>1. CASE Closing(s)
        BY <1>14, <2>1, ExitRunAccounts DEF CapacityLockGranted
    <2>2. CASE ~Closing(s) /\ Count(registry) < MaxConnections
        BY <1>13, <1>14, <2>2 DEF CapacityLockGranted
    <2>3. CASE ~Closing(s) /\ ~(Count(registry) < MaxConnections)
        <3>1. /\ pc[s] = "capWait"
              /\ pc' = [pc EXCEPT ![s] = "reclaim"]
              /\ UNCHANGED <<sa, timer, openSockets, server, cleanup>>
            BY <1>14, <2>3 DEF CapacityLockGranted
        <3>2. \A t \in Sessions : Moves(t)
            BY <1>0, <3>1 DEF Moves, TypeOK
        <3> QED BY <3>1, <3>2, StillAccounts
    <2> QED BY <2>1, <2>2, <2>3
<1>15. CASE ReclaimWake(s)
    BY <1>15, MoveAccounts DEF ReclaimWake, Close
<1>16. CASE ReclaimDone(s)
    <2>1. CASE Closing(s)
        BY <1>16, <2>1, ExitRunAccounts DEF ReclaimDone
    <2>2. CASE ~Closing(s)
        BY <1>13, <1>16, <2>2, MoveAccounts DEF ReclaimDone, Close
    <2> QED BY <2>1, <2>2
<1>17. CASE RespondDone(s)
    <2>1. CASE Closing(s)
        BY <1>17, <2>1, ExitRunAccounts DEF RespondDone
    <2>2. CASE ~Closing(s)
        <3>1. SUFFICES ASSUME NEW t \in Sessions
                       PROVE  (server' = "up" => SlotNext(t)) /\ TimerNext(t)
            BY AccountsNextSuffices
        <3>2. sa[s] # NoAddr
            BY <1>17 DEF RespondDone, ActivationInv, LockInv, Activated
        <3>3. CASE t = s
            BY <1>0, <1>17, <2>2, <3>2, <3>3
               DEF RespondDone, SlotNext, TimerNext, TypeOK, SocketAccounting,
                   Closing
        <3>4. CASE t # s
            BY <1>0, <1>17, <2>2, <3>4
               DEF RespondDone, SlotNext, TimerNext, TypeOK, SocketAccounting,
                   TimerArmed, Activated, Closing
        <3> QED BY <3>3, <3>4
    <2> QED BY <2>1, <2>2
<1> QED BY <1>1, <1>2, <1>3, <1>4, <1>5, <1>6, <1>7, <1>8, <1>9, <1>10,
           <1>11, <1>12, <1>14, <1>15, <1>16, <1>17 DEF SessionStep

\* The slots and the timers stay exact together, given ActivationInv.
LEMMA AccountsExact == Spec => [](SocketAccounting /\ TimerArmed)
<1>1. Init => SocketAccounting /\ TimerArmed
    BY DEF Init, SocketAccounting, TimerArmed
<1>2. ASSUME ActivationInv, SocketAccounting /\ TimerArmed, [Next]_vars
      PROVE  (SocketAccounting /\ TimerArmed)'
    <2>1. TypeOK'
        BY <1>2, NextInv DEF ActivationInv
    <2>2. CASE UNCHANGED vars
        BY <1>2, <2>1, <2>2, StillAccounts DEF vars, Moves
    <2>3. CASE Stop \/ StopCancel
        BY <1>2, <2>3 DEF Stop, StopCancel, SocketAccounting, TimerArmed,
                          Activated, Closing
    <2>4. CASE \E s \in Sessions : SessionStep(s)
        BY <1>2, <2>1, <2>4, SessionStepAccounts
    <2>5. CASE \E c, e \in Sessions : ProbeStep(c, e)
        BY <1>2, <2>1, <2>5, ProbeStepAccounts
    <2> QED BY <1>2, <2>2, <2>3, <2>4, <2>5 DEF Next, Terminated
<1> QED BY <1>1, <1>2, ActivationSafe, PTL DEF Spec

\* No socket slot leaks and none is released early, for any number of
\* connections: until stop() the counted sockets are exactly the admitted
\* connections that have not begun to close (reserve, release).
THEOREM SocketsAccounted == Spec => []SocketAccounting
BY AccountsExact, PTL

\* A connection that waits for a frame, or handles one, runs under the
\* inactivity timer of its phase, whatever activations and evictions overlap.
THEOREM TimersArmed == Spec => []TimerArmed
BY AccountsExact, PTL

=============================================================================
