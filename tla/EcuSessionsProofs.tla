-------------------------- MODULE EcuSessionsProofs --------------------------
(***************************************************************************)
(* Proofs about EcuSessions for any sets of connections, addresses and     *)
(* state objects and any max_concurrent_sessions: SessionInv is inductive, *)
(* and no step forgets a registration or a UDS state it may not forget.    *)
(***************************************************************************)
EXTENDS EcuSessions, FiniteSetTheorems, TLAPS

-----------------------------------------------------------------------------
(* The table of state objects.                                             *)

\* maybe_drop_session_state leaves a table.
LEMMA DropTidyType ==
    ASSUME TypeOK, NEW s \in Sessions
    PROVE  DropTidy(s) \in [Addr -> Objects \cup {None}]
BY DEF DropTidy, MaybeDrop, TypeOK

\* It forgets at most the connection's own entry, when its state is at rest.
LEMMA DropTidyKeeps ==
    ASSUME TypeOK, NEW s \in Sessions, NEW a \in Addr
    PROVE  \/ DropTidy(s)[a] = table[a]
           \/ /\ DropTidy(s)[a] = None /\ table[a] # None /\ mode[table[a]] = "tidy"
              /\ state[s] = table[a] /\ addr[s] = a
<1>1. CASE state[s] = None
    BY <1>1 DEF DropTidy
<1>2. CASE state[s] # None
    <2>1. DropTidy(s)[a] =
             IF a = addr[s] /\ table[a] = state[s] /\ mode[state[s]] = "tidy"
             THEN None ELSE table[a]
        BY <1>2 DEF DropTidy, MaybeDrop
    <2> QED BY <1>2, <2>1
<1> QED BY <1>1, <1>2

\* unregister leaves a registry, and removes s only.
LEMMA UnregisterKeeps ==
    ASSUME TypeOK, NEW s \in Sessions
    PROVE  /\ Unregister(s) \in [Addr -> Sessions \cup {None}]
           /\ \A a \in Addr :
                 Unregister(s)[a] = IF a = addr[s] /\ registry[a] = s THEN None
                                    ELSE registry[a]
BY DEF Unregister, TypeOK

-----------------------------------------------------------------------------
(* Types.                                                                  *)

\* The tail of a Routing Activation keeps the types of what it assigns.
LEMMA AdmitType ==
    ASSUME TypeOK, NEW c \in Sessions, want[c] \in Addr,
           NEW reg \in [Addr -> Sessions \cup {None}],
           NEW tab \in [Addr -> Objects \cup {None}],
           Admit(c, reg, tab)
    PROVE  /\ pc' \in [Sessions -> Pcs]
           /\ addr' \in [Sessions -> Addr \cup {None}]
           /\ registry' \in [Addr -> Sessions \cup {None}]
           /\ state' \in [Sessions -> Objects \cup {None}]
           /\ table' \in [Addr -> Objects \cup {None}]
           /\ mode' \in [Objects -> {"tidy", "held", "ext"}]
           /\ s3' \subseteq Objects
           /\ owner' \in [Objects -> Addr \cup {None}]
<1>1. CASE Count(reg) >= MaxSessions
    BY <1>1 DEF Admit, TypeOK, Pcs
<1>2. CASE ~(Count(reg) >= MaxSessions)
    <2>0. Commit(c, reg, tab)
        BY <1>2 DEF Admit
    <2>1. /\ pc' \in [Sessions -> Pcs]
          /\ addr' \in [Sessions -> Addr \cup {None}]
          /\ registry' \in [Addr -> Sessions \cup {None}]
        BY <2>0 DEF Commit, TypeOK, Pcs
    <2>2. CASE tab[want[c]] # None
        BY <2>0, <2>1, <2>2 DEF Commit, TypeOK
    <2>3. CASE tab[want[c]] = None
        <3>1. PICK o \in Unused :
                 /\ state' = [state EXCEPT ![c] = o]
                 /\ table' = [tab EXCEPT ![want[c]] = o]
                 /\ mode' = [mode EXCEPT ![o] = "tidy"]
                 /\ UNCHANGED s3
                 /\ owner' = [owner EXCEPT ![o] = want[c]]
            BY <2>0, <2>3 DEF Commit
        <3>2. o \in Objects
            BY DEF Unused
        <3> QED BY <2>1, <3>1, <3>2 DEF TypeOK
    <2> QED BY <2>2, <2>3
<1> QED BY <1>1, <1>2

\* An eviction keeps the types.
LEMMA EvictType ==
    ASSUME TypeOK, ContenderInv, UNCHANGED resetDrops,
           NEW c \in Sessions, pc[c] = "probing", Evict(c)
    PROVE  TypeOK'
<1>1. want[c] \in Addr /\ target[c] \in Sessions
    BY DEF ContenderInv
<1>2. Admit(c, Unregister(target[c]), DropTidy(target[c]))
    BY DEF Evict
<1>3. /\ pc' \in [Sessions -> Pcs]
      /\ addr' \in [Sessions -> Addr \cup {None}]
      /\ registry' \in [Addr -> Sessions \cup {None}]
      /\ state' \in [Sessions -> Objects \cup {None}]
      /\ table' \in [Addr -> Objects \cup {None}]
      /\ mode' \in [Objects -> {"tidy", "held", "ext"}]
      /\ s3' \subseteq Objects
      /\ owner' \in [Objects -> Addr \cup {None}]
    BY <1>1, <1>2, AdmitType, DropTidyType, UnregisterKeeps
<1>4. /\ target' \in [Sessions -> Sessions \cup {None}]
      /\ event' \in [Sessions -> Sessions \cup {None}]
      /\ waits' \in [Sessions -> Sessions \cup {None}]
      /\ isset' \subseteq Sessions
    BY <1>1 DEF Evict, ProbeEnds, TypeOK
<1>5. /\ want' \in [Sessions -> Addr \cup {None}]
      /\ finalized' \subseteq Sessions
      /\ worker' \subseteq Sessions
      /\ resetting' \subseteq Sessions
      /\ resetDrops' \in BOOLEAN
    BY <1>1 DEF Evict, TypeOK
<1> QED BY <1>3, <1>4, <1>5 DEF TypeOK

\* Every step of a connection keeps the types.
LEMMA SessionStepType ==
    ASSUME TypeOK, ContenderInv, UNCHANGED resetDrops,
           NEW s \in Sessions, SessionStep(s)
    PROVE  TypeOK'
<1>1. CASE Connect(s) \/ ReadEof(s) \/ TimerFire(s) \/ ReadOther(s) \/ SendDone(s)
    BY <1>1 DEF Connect, ReadEof, TimerFire, ReadOther, SendDone, Leave,
                states, probes, TypeOK, Pcs
<1>2. CASE StopWorker(s)
    BY <1>2, DropTidyType DEF StopWorker, probes, TypeOK, Pcs
<1>3. CASE Finish(s)
    BY <1>3, UnregisterKeeps DEF Finish, states, probes, TypeOK, Pcs
<1>4. CASE Forget(s)
    BY <1>4 DEF Forget, TypeOK, Pcs
<1>5. CASE ReadAlive(s)
    BY <1>5 DEF ReadAlive, pumps, states, TypeOK
<1>6. CASE \E a \in Addr : ReadActivation(s, a)
    BY <1>6 DEF ReadActivation, states, probes, TypeOK, Pcs
<1>7. CASE HookDone(s)
    <2>0. want[s] \in Addr /\ UNCHANGED <<want, finalized, worker, resetting>>
        BY <1>7 DEF HookDone, ContenderInv
    <2>1. CASE Admit(s, registry, table) /\ UNCHANGED probes
        <3>1. /\ registry \in [Addr -> Sessions \cup {None}]
              /\ table \in [Addr -> Objects \cup {None}]
            BY DEF TypeOK
        <3> QED BY <2>0, <2>1, <3>1, AdmitType DEF TypeOK, probes
    <2>2. CASE /\ registry[want[s]] \notin {None, s}
               /\ pc' = [pc EXCEPT ![s] = "probing"]
               /\ target' = [target EXCEPT ![s] = registry[want[s]]]
               /\ event' = [event EXCEPT ![registry[want[s]]] = s]
               /\ isset' = isset \ {s}
               /\ UNCHANGED <<addr, registry, states, waits>>
        BY <2>0, <2>2 DEF TypeOK, Pcs, states
    <2>3. CASE /\ \E p \in {"denying", "sending"} : pc' = [pc EXCEPT ![s] = p]
               /\ UNCHANGED <<addr, registry, states, probes>>
        BY <2>0, <2>3 DEF TypeOK, Pcs, states, probes
    <2> QED BY <1>7, <2>1, <2>2, <2>3 DEF HookDone
<1>8. CASE ProbeSent(s)
    <2>1. CASE Evict(s)
        BY <1>8, <2>1, EvictType DEF ProbeSent
    <2>2. CASE ~Evict(s)
        <3>1. target[s] \in Sessions
            BY <1>8 DEF ProbeSent, ContenderInv
        <3> QED BY <1>8, <2>2, <3>1 DEF ProbeSent, TypeOK, pumps, states
    <2> QED BY <2>1, <2>2
<1>9. CASE ProbeAnswered(s)
    <2>1. target[s] \in Sessions
        BY <1>9 DEF ProbeAnswered, ContenderInv
    <2> QED BY <1>9, <2>1 DEF ProbeAnswered, ProbeEnds, TypeOK, Pcs, states
<1>10. CASE ProbeTimeout(s)
    BY <1>10, EvictType DEF ProbeTimeout
<1>11. ASSUME NEW m \in {"tidy", "held", "ext"}, Serve(s, m) PROVE TypeOK'
    BY <1>11 DEF Serve, Refresh, TypeOK, pumps, probes
<1>12. CASE \E m \in {"tidy", "ext"} : EnterSession(s, m)
    BY <1>11, <1>12 DEF EnterSession
<1>13. CASE SecurityAccess(s)
    BY <1>11, <1>13 DEF SecurityAccess
<1>14. CASE EcuReset(s)
    <2>1. CASE Serve(s, "tidy")
        BY <1>11, <2>1
    <2>2. CASE ~Serve(s, "tidy")
        BY <1>14, <2>2 DEF EcuReset, Refresh, TypeOK, probes
    <2> QED BY <2>1, <2>2
<1>15. CASE ResetAnswered(s)
    BY <1>15 DEF ResetAnswered, states, probes, TypeOK
<1> QED BY <1>1, <1>2, <1>3, <1>4, <1>5, <1>6, <1>7, <1>8, <1>9, <1>10,
           <1>12, <1>13, <1>14, <1>15 DEF SessionStep

\* Every step keeps the types.
LEMMA NextType ==
    ASSUME TypeOK, ContenderInv, [Next]_vars
    PROVE  TypeOK'
<1>1. CASE UNCHANGED vars
    BY <1>1 DEF vars, pumps, states, probes, TypeOK
<1>2. CASE \E s \in Sessions : SessionStep(s) /\ UNCHANGED resetDrops
    BY <1>2, SessionStepType
<1>3. CASE \E o \in Objects : S3Expire(o) /\ UNCHANGED resetDrops
    BY <1>3 DEF S3Expire, MaybeDrop, TypeOK, pumps, probes
<1> QED BY <1>1, <1>2, <1>3 DEF Next

-----------------------------------------------------------------------------
(* The entries of the registry and the contenders.                         *)

\* The first half of RegistryBounded.
Entries ==
    \A a \in Addr : registry[a] # None =>
        addr[registry[a]] = a /\ pc[registry[a]] \notin {"absent", "finished"}

\* A step that moves s to another await, leaves registry and addresses alone
\* and ends no registered connection.
LEMMA MoveEntries ==
    ASSUME TypeOK, Entries, ContenderInv, NEW s \in Sessions, NEW at,
           pc' = [pc EXCEPT ![s] = at],
           at \notin {"absent", "finished", "probing"},
           at = "hook" => want'[s] \in Addr,
           \A t \in Sessions \ {s} : want'[t] = want[t] /\ target'[t] = target[t],
           UNCHANGED <<addr, registry>>
    PROVE  Entries' /\ ContenderInv'
<1>1. \A t \in Sessions : pc'[t] = IF t = s THEN at ELSE pc[t]
    BY DEF TypeOK
<1>2. Entries'
    BY <1>1 DEF Entries, TypeOK
<1>3. ContenderInv'
    BY <1>1 DEF ContenderInv, Activated
<1> QED BY <1>2, <1>3

\* A step that no pump takes.
LEMMA StillEntries ==
    ASSUME Entries, ContenderInv, UNCHANGED <<pc, addr, want, target, registry>>
    PROVE  Entries' /\ ContenderInv'
BY DEF Entries, ContenderInv, Activated

\* A contender without an address commits, or is denied, with a registry from
\* which at most other connections have been removed.
LEMMA AdmitEntries ==
    ASSUME TypeOK, Entries, ContenderInv, NEW c \in Sessions, want[c] \in Addr,
           ~Activated(c), NEW reg \in [Addr -> Sessions \cup {None}], NEW tab,
           \A a \in Addr : reg[a] \in {None, registry[a]},
           Admit(c, reg, tab), UNCHANGED want,
           \A t \in Sessions \ {c} : target'[t] = target[t]
    PROVE  Entries' /\ ContenderInv'
<1> USE ConstantsAssumption
<1>0. \A a \in Addr : reg[a] # c
    BY DEF Entries, Activated
<1>1. CASE Count(reg) >= MaxSessions
    <2>1. /\ pc' = [pc EXCEPT ![c] = "denying"]
          /\ registry' = reg
          /\ UNCHANGED addr
        BY <1>1 DEF Admit
    <2>2. \A t \in Sessions : pc'[t] = IF t = c THEN "denying" ELSE pc[t]
        BY <2>1 DEF TypeOK
    <2>3. Entries'
        BY <2>1, <2>2 DEF Entries, TypeOK
    <2>4. ContenderInv'
        BY <2>1, <2>2 DEF ContenderInv, Activated
    <2> QED BY <2>3, <2>4
<1>2. CASE ~(Count(reg) >= MaxSessions)
    <2>1. /\ pc' = [pc EXCEPT ![c] = "sending"]
          /\ addr' = [addr EXCEPT ![c] = want[c]]
          /\ registry' = [reg EXCEPT ![want[c]] = c]
        BY <1>2 DEF Admit, Commit
    <2>2. \A t \in Sessions : /\ pc'[t] = IF t = c THEN "sending" ELSE pc[t]
                              /\ addr'[t] = IF t = c THEN want[c] ELSE addr[t]
        BY <2>1 DEF TypeOK
    <2>3. \A a \in Addr : registry'[a] = IF a = want[c] THEN c ELSE reg[a]
        BY <2>1
    <2>4. Entries'
        BY <1>0, <2>2, <2>3 DEF Entries, TypeOK
    <2>5. ContenderInv'
        BY <2>2 DEF ContenderInv, Activated
    <2> QED BY <2>4, <2>5
<1> QED BY <1>1, <1>2

\* An eviction removes the target, if it is still registered.
LEMMA EvictEntries ==
    ASSUME TypeOK, Entries, ContenderInv, NEW c \in Sessions,
           pc[c] = "probing", Evict(c)
    PROVE  Entries' /\ ContenderInv'
<1>1. want[c] \in Addr /\ target[c] \in Sessions /\ ~Activated(c)
    BY DEF ContenderInv
<1>2. /\ Unregister(target[c]) \in [Addr -> Sessions \cup {None}]
      /\ \A a \in Addr : Unregister(target[c])[a] \in {None, registry[a]}
    BY <1>1, UnregisterKeeps
<1>3. \A t \in Sessions \ {c} : target'[t] = target[t]
    BY DEF Evict, ProbeEnds, TypeOK
<1> QED BY <1>1, <1>2, <1>3, AdmitEntries DEF Evict

\* Every step of a connection.
LEMMA SessionStepEntries ==
    ASSUME TypeOK, Entries, ContenderInv, NEW s \in Sessions, SessionStep(s)
    PROVE  Entries' /\ ContenderInv'
<1> USE ConstantsAssumption
<1>1. CASE Connect(s) \/ ReadEof(s) \/ StopWorker(s) \/ ReadOther(s) \/ SendDone(s)
    <2>1. /\ \E at \in {"idle", "stopping", "closing", "sending", "denying"} :
                pc' = [pc EXCEPT ![s] = at]
          /\ UNCHANGED <<addr, registry, target>>
          /\ \A t \in Sessions \ {s} : want'[t] = want[t]
        BY <1>1 DEF Connect, ReadEof, StopWorker, ReadOther, SendDone, Leave,
                    probes, TypeOK
    <2> QED BY <2>1, MoveEntries
<1>2. CASE Finish(s)
    <2>1. /\ \A t \in Sessions : pc'[t] = IF t = s THEN "finished" ELSE pc[t]
          /\ UNCHANGED <<addr, want, target>>
          /\ registry' = Unregister(s)
        BY <1>2 DEF Finish, probes, TypeOK
    <2>2. Entries'
        BY <2>1, UnregisterKeeps DEF Entries, TypeOK
    <2>3. ContenderInv'
        BY <2>1 DEF ContenderInv, Activated
    <2> QED BY <2>2, <2>3
<1>3. CASE Forget(s)
    <2>1. /\ pc[s] = "finished"
          /\ \A t \in Sessions : pc'[t] = IF t = s THEN "absent" ELSE pc[t]
          /\ \A t \in Sessions : addr'[t] = IF t = s THEN None ELSE addr[t]
          /\ UNCHANGED <<registry, want, target>>
        BY <1>3 DEF Forget, TypeOK
    <2>2. \A a \in Addr : registry[a] # s
        BY <2>1 DEF Entries
    <2>3. Entries'
        BY <2>1, <2>2 DEF Entries, TypeOK
    <2>4. ContenderInv'
        BY <2>1 DEF ContenderInv, Activated
    <2> QED BY <2>3, <2>4
<1>4. CASE TimerFire(s) \/ ReadAlive(s)
    BY <1>4, StillEntries DEF TimerFire, ReadAlive, pumps, probes
<1>5. CASE \E a \in Addr : ReadActivation(s, a)
    <2>1. /\ pc' = [pc EXCEPT ![s] = "hook"]
          /\ \E a \in Addr : want' = [want EXCEPT ![s] = a]
          /\ UNCHANGED <<addr, registry, target>>
        BY <1>5 DEF ReadActivation, probes
    <2>2. want'[s] \in Addr /\ \A t \in Sessions \ {s} : want'[t] = want[t]
        BY <2>1 DEF TypeOK
    <2> QED BY <2>1, <2>2, MoveEntries
<1>6. CASE HookDone(s)
    <2>0. pc[s] = "hook" /\ want[s] \in Addr /\ UNCHANGED want
        BY <1>6 DEF HookDone, ContenderInv
    <2>1. CASE ~Activated(s) /\ Admit(s, registry, table) /\ UNCHANGED probes
        <3>1. /\ registry \in [Addr -> Sessions \cup {None}]
              /\ \A a \in Addr : registry[a] \in {None, registry[a]}
              /\ \A t \in Sessions \ {s} : target'[t] = target[t]
            BY <2>1 DEF TypeOK, probes
        <3> QED BY <2>0, <2>1, <3>1, AdmitEntries
    <2>2. CASE /\ ~Activated(s)
               /\ registry[want[s]] \notin {None, s}
               /\ pc' = [pc EXCEPT ![s] = "probing"]
               /\ target' = [target EXCEPT ![s] = registry[want[s]]]
               /\ UNCHANGED <<addr, registry>>
        <3>1. \A t \in Sessions :
                 /\ pc'[t] = IF t = s THEN "probing" ELSE pc[t]
                 /\ target'[t] = IF t = s THEN registry[want[s]] ELSE target[t]
            BY <2>2 DEF TypeOK
        <3>2. registry[want[s]] \in Sessions
            BY <2>0, <2>2 DEF TypeOK
        <3>3. Entries'
            BY <2>2, <3>1 DEF Entries, TypeOK
        <3>4. ContenderInv'
            BY <2>0, <2>2, <3>1, <3>2 DEF ContenderInv, Activated
        <3> QED BY <3>3, <3>4
    <2>3. CASE /\ \E p \in {"denying", "sending"} : pc' = [pc EXCEPT ![s] = p]
               /\ UNCHANGED <<addr, registry, target>>
        BY <2>0, <2>3, MoveEntries
    <2> QED BY <1>6, <2>1, <2>2, <2>3 DEF HookDone, probes
<1>7. CASE ProbeSent(s)
    <2>1. CASE Evict(s)
        BY <1>7, <2>1, EvictEntries DEF ProbeSent
    <2>2. CASE ~Evict(s)
        BY <1>7, <2>2, StillEntries DEF ProbeSent, pumps
    <2> QED BY <2>1, <2>2
<1>8. CASE ProbeAnswered(s)
    <2>1. \A t \in Sessions \ {s} : target'[t] = target[t]
        BY <1>8 DEF ProbeAnswered, ProbeEnds, TypeOK
    <2> QED BY <1>8, <2>1, MoveEntries DEF ProbeAnswered
<1>9. CASE ProbeTimeout(s)
    BY <1>9, EvictEntries DEF ProbeTimeout
<1>10. CASE \/ \E m \in {"tidy", "ext"} : EnterSession(s, m)
            \/ SecurityAccess(s) \/ EcuReset(s) \/ ResetAnswered(s)
    BY <1>10, StillEntries DEF EnterSession, SecurityAccess, EcuReset, Serve,
                               ResetAnswered, pumps, probes
<1> QED BY <1>1, <1>2, <1>3, <1>4, <1>5, <1>6, <1>7, <1>8, <1>9, <1>10
        DEF SessionStep

\* Every step.
LEMMA NextEntries ==
    ASSUME TypeOK, Entries, ContenderInv, [Next]_vars
    PROVE  Entries' /\ ContenderInv'
<1>1. CASE UNCHANGED vars \/ \E o \in Objects : S3Expire(o)
    BY <1>1, StillEntries DEF vars, pumps, probes, S3Expire
<1> QED BY <1>1, SessionStepEntries DEF Next

-----------------------------------------------------------------------------
(* The limit.                                                              *)

Held(reg) == {a \in Addr : reg[a] # None}

\* The count is monotonic in the addresses that are held.
LEMMA CountMonotonic ==
    ASSUME NEW r1, NEW r2, Held(r1) \subseteq Held(r2)
    PROVE  Count(r1) \in Nat /\ Count(r2) \in Nat /\ Count(r1) <= Count(r2)
<1>1. IsFiniteSet(Held(r2))
    BY FS_Subset, ConstantsAssumption DEF Held
<1>2. IsFiniteSet(Held(r1)) /\ Cardinality(Held(r1)) <= Cardinality(Held(r2))
    BY <1>1, FS_Subset
<1> QED BY <1>1, <1>2, FS_CardinalityType DEF Count, Held

\* One more address, one more at most.
LEMMA CountRegister ==
    ASSUME NEW r1, NEW r2, NEW a \in Addr, Held(r2) \subseteq Held(r1) \cup {a}
    PROVE  Count(r2) \in Nat /\ Count(r1) \in Nat /\ Count(r2) <= Count(r1) + 1
<1>1. IsFiniteSet(Held(r1))
    BY FS_Subset, ConstantsAssumption DEF Held
<1>2. /\ IsFiniteSet(Held(r1) \cup {a})
      /\ Cardinality(Held(r1) \cup {a}) <= Cardinality(Held(r1)) + 1
    BY <1>1, FS_AddElement, FS_CardinalityType
<1>3. /\ IsFiniteSet(Held(r2))
      /\ Cardinality(Held(r2)) <= Cardinality(Held(r1) \cup {a})
    BY <1>2, FS_Subset
<1> QED BY <1>1, <1>2, <1>3, FS_CardinalityType DEF Count, Held

\* A step that registers nobody keeps the limit.
LEMMA ShrinkCount ==
    ASSUME Count(registry) <= MaxSessions, Held(registry') \subseteq Held(registry)
    PROVE  Count(registry)' <= MaxSessions
<1>1. Count(registry') <= Count(registry) /\ Count(registry') \in Nat /\ Count(registry) \in Nat
    BY CountMonotonic
<1>2. Count(registry)' = Count(registry')
    BY DEF Count
<1> QED BY <1>1, <1>2, ConstantsAssumption

\* The test and register are one step.
LEMMA AdmitCount ==
    ASSUME NEW c \in Sessions, NEW tab, want[c] \in Addr,
           NEW reg \in [Addr -> Sessions \cup {None}],
           \A a \in Addr : reg[a] \in {None, registry[a]},
           Count(registry) <= MaxSessions, Admit(c, reg, tab)
    PROVE  Count(registry)' <= MaxSessions
<1>1. CASE Count(reg) >= MaxSessions
    BY <1>1, ShrinkCount DEF Admit, Held
<1>2. CASE ~(Count(reg) >= MaxSessions)
    <2>1. registry' = [reg EXCEPT ![want[c]] = c]
        BY <1>2 DEF Admit, Commit
    <2>2. Held(registry') \subseteq Held(reg) \cup {want[c]}
        BY <2>1 DEF Held
    <2>3. Count(registry') <= Count(reg) + 1 /\ Count(reg) \in Nat /\ Count(registry') \in Nat
        BY <2>2, CountRegister
    <2>4. Count(registry)' = Count(registry')
        BY DEF Count
    <2> QED BY <1>2, <2>3, <2>4, ConstantsAssumption
<1> QED BY <1>1, <1>2

\* Every step keeps the limit.
LEMMA NextCount ==
    ASSUME TypeOK, ContenderInv, Count(registry) <= MaxSessions, [Next]_vars
    PROVE  Count(registry)' <= MaxSessions
<1>1. CASE UNCHANGED registry
    BY <1>1 DEF Count
<1>2. ASSUME NEW s \in Sessions, Finish(s)
      PROVE  Count(registry)' <= MaxSessions
    <2>1. Held(registry') \subseteq Held(registry)
        BY <1>2, UnregisterKeeps DEF Finish, Held
    <2> QED BY <2>1, ShrinkCount
<1>3. ASSUME NEW s \in Sessions, HookDone(s)
      PROVE  Count(registry)' <= MaxSessions
    <2>1. CASE Admit(s, registry, table)
        <3>1. /\ want[s] \in Addr
              /\ registry \in [Addr -> Sessions \cup {None}]
              /\ \A a \in Addr : registry[a] \in {None, registry[a]}
            BY <1>3 DEF HookDone, ContenderInv, TypeOK
        <3> QED BY <2>1, <3>1, AdmitCount
    <2>2. CASE ~Admit(s, registry, table)
        BY <1>1, <1>3, <2>2 DEF HookDone
    <2> QED BY <2>1, <2>2
<1>4. ASSUME NEW s \in Sessions, pc[s] = "probing", Evict(s)
      PROVE  Count(registry)' <= MaxSessions
    <2>1. want[s] \in Addr /\ target[s] \in Sessions
        BY <1>4 DEF ContenderInv
    <2>2. /\ Unregister(target[s]) \in [Addr -> Sessions \cup {None}]
          /\ \A a \in Addr : Unregister(target[s])[a] \in {None, registry[a]}
        BY <2>1, UnregisterKeeps
    <2> QED BY <1>4, <2>1, <2>2, AdmitCount DEF Evict
<1>5. ASSUME NEW s \in Sessions, SessionStep(s)
      PROVE  Count(registry)' <= MaxSessions
    <2>1. CASE Finish(s) \/ HookDone(s)
        BY <1>2, <1>3, <2>1
    <2>2. CASE ProbeSent(s) \/ ProbeTimeout(s)
        BY <1>1, <1>4, <2>2 DEF ProbeSent, ProbeTimeout
    <2>3. CASE ~(Finish(s) \/ HookDone(s) \/ ProbeSent(s) \/ ProbeTimeout(s))
        <3>1. UNCHANGED registry
            BY <1>5, <2>3 DEF SessionStep, Connect, ReadEof, StopWorker, Forget,
               TimerFire, ReadOther, SendDone, ReadAlive, ReadActivation,
               ProbeAnswered, EnterSession, SecurityAccess, EcuReset,
               ResetAnswered, Serve
        <3> QED BY <1>1, <3>1
    <2> QED BY <2>1, <2>2, <2>3
<1> QED BY <1>1, <1>5 DEF Next, S3Expire, vars

-----------------------------------------------------------------------------
(* The state objects.                                                      *)

\* A step that leaves the objects alone, or only forgets some.
LEMMA ForgetTable ==
    ASSUME TableOwned, S3Armed, UNCHANGED <<mode, s3, owner>>,
           \A a \in Addr : table'[a] \in {None, table[a]}
    PROVE  TableOwned' /\ S3Armed'
BY DEF TableOwned, S3Armed

\* A Routing Activation finds the state of its address or makes a new one.
LEMMA AdmitTable ==
    ASSUME TypeOK, TableOwned, S3Armed, NEW c \in Sessions, want[c] \in Addr,
           NEW reg, NEW tab \in [Addr -> Objects \cup {None}],
           \A a \in Addr : tab[a] \in {None, table[a]},
           Admit(c, reg, tab)
    PROVE  TableOwned' /\ S3Armed'
<1>1. CASE table' = tab /\ UNCHANGED <<mode, s3, owner>>
    BY <1>1, ForgetTable
<1>2. CASE ~(table' = tab /\ UNCHANGED <<mode, s3, owner>>)
    <2>1. PICK o \in Unused :
             /\ table' = [tab EXCEPT ![want[c]] = o]
             /\ mode' = [mode EXCEPT ![o] = "tidy"]
             /\ UNCHANGED s3
             /\ owner' = [owner EXCEPT ![o] = want[c]]
        BY <1>2 DEF Admit, Commit
    <2>2. /\ o \in Objects
          /\ \A a \in Addr : table[a] # o
        BY DEF Unused
    <2>3. \A a \in Addr : table'[a] = IF a = want[c] THEN o ELSE tab[a]
        BY <2>1
    <2>4. /\ \A x \in Objects : x # o => mode'[x] = mode[x] /\ owner'[x] = owner[x]
          /\ mode'[o] = "tidy" /\ owner'[o] = want[c]
        BY <2>1, <2>2 DEF TypeOK
    <2>5. ASSUME NEW a \in Addr, table'[a] # None
          PROVE  \/ a = want[c] /\ table'[a] = o
                 \/ table'[a] = table[a] /\ table[a] \in Objects \ {o}
        BY <2>2, <2>3, <2>5 DEF TypeOK
    <2>6. TableOwned'
        BY <2>4, <2>5 DEF TableOwned
    <2>7. S3Armed'
        BY <2>1, <2>4, <2>5 DEF S3Armed
    <2> QED BY <2>6, <2>7
<1> QED BY <1>1, <1>2

\* A UDS request restarts the S3 timer of the state object it ran on.
LEMMA ServeTable ==
    ASSUME TypeOK, TableOwned, S3Armed, NEW s \in Sessions, NEW m, Serve(s, m)
    PROVE  TableOwned' /\ S3Armed'
<1>1. /\ state[s] \in Objects
      /\ mode' = [mode EXCEPT ![state[s]] = m]
      /\ s3' = IF m = "ext" THEN s3 \cup {state[s]} ELSE s3 \ {state[s]}
      /\ UNCHANGED <<table, owner>>
    BY DEF Serve, Refresh, TypeOK
<1>2. \A x \in Objects : mode'[x] = IF x = state[s] THEN m ELSE mode[x]
    BY <1>1 DEF TypeOK
<1>3. \A a \in Addr : table[a] # None => table[a] \in Objects
    BY DEF TypeOK
<1> QED BY <1>1, <1>2, <1>3 DEF TableOwned, S3Armed

\* Every step of a connection.
LEMMA SessionStepTable ==
    ASSUME TypeOK, ContenderInv, TableOwned, StateAddressed, S3Armed,
           NEW s \in Sessions, SessionStep(s)
    PROVE  TableOwned' /\ S3Armed'
<1>1. ASSUME UNCHANGED <<table, mode, s3, owner>>
      PROVE  TableOwned' /\ S3Armed'
    BY <1>1, ForgetTable
<1>2. ASSUME pc[s] = "probing", Evict(s)
      PROVE  TableOwned' /\ S3Armed'
    <2>1. want[s] \in Addr /\ target[s] \in Sessions
        BY <1>2 DEF ContenderInv
    <2>2. /\ DropTidy(target[s]) \in [Addr -> Objects \cup {None}]
          /\ \A a \in Addr : DropTidy(target[s])[a] \in {None, table[a]}
        BY <2>1, DropTidyType, DropTidyKeeps
    <2> QED BY <1>2, <2>1, <2>2, AdmitTable DEF Evict
<1>3. CASE \/ Connect(s) \/ ReadEof(s) \/ Finish(s) \/ Forget(s) \/ TimerFire(s)
           \/ ReadOther(s) \/ SendDone(s) \/ ReadAlive(s) \/ ProbeAnswered(s)
           \/ ResetAnswered(s) \/ \E a \in Addr : ReadActivation(s, a)
    BY <1>1, <1>3 DEF ResetAnswered, Connect, ReadEof, Finish, Forget, TimerFire, ReadOther,
                      SendDone, ReadAlive, ProbeAnswered, ReadActivation, states
<1>4. CASE StopWorker(s)
    <2>1. \A a \in Addr : table'[a] \in {None, table[a]}
        BY <1>4, DropTidyKeeps DEF StopWorker
    <2> QED BY <1>4, <2>1, ForgetTable DEF StopWorker
<1>5. CASE HookDone(s)
    <2>1. CASE Admit(s, registry, table)
        <3>1. /\ want[s] \in Addr
              /\ table \in [Addr -> Objects \cup {None}]
              /\ \A a \in Addr : table[a] \in {None, table[a]}
            BY <1>5 DEF HookDone, ContenderInv, TypeOK
        <3> QED BY <2>1, <3>1, AdmitTable
    <2>2. CASE ~Admit(s, registry, table)
        BY <1>1, <1>5, <2>2 DEF HookDone, states
    <2> QED BY <2>1, <2>2
<1>6. CASE ProbeSent(s) \/ ProbeTimeout(s)
    BY <1>1, <1>2, <1>6 DEF ProbeSent, ProbeTimeout, states
<1>7. CASE (\E m \in {"tidy", "ext"} : EnterSession(s, m)) \/ SecurityAccess(s)
    BY <1>7, ServeTable DEF EnterSession, SecurityAccess
<1>8. CASE EcuReset(s)
    <2>1. CASE Serve(s, "tidy")
        BY <2>1, ServeTable
    <2>2. CASE ~Serve(s, "tidy")
        <3>1. /\ state[s] # None
              /\ table' = [table EXCEPT ![addr[s]] = None]
              /\ s3' = Refresh(state[s], mode[state[s]]) \ {table[addr[s]]}
              /\ UNCHANGED <<mode, owner>>
            BY <1>8, <2>2 DEF EcuReset
        <3>2. \A a \in Addr : table'[a] = IF a = addr[s] THEN None ELSE table[a]
            BY <3>1 DEF TypeOK
        <3>3. TableOwned'
            BY <3>1, <3>2 DEF TableOwned
        <3>4. ASSUME NEW a \in Addr, table'[a] # None, mode'[table'[a]] = "ext"
              PROVE  table'[a] \in s3'
            <4>1. table'[a] = table[a] /\ a # addr[s] /\ mode[table[a]] = "ext"
                BY <3>1, <3>2, <3>4
            <4>2. table[a] \in s3
                BY <3>4, <4>1 DEF S3Armed
            <4>3. table[a] \in Refresh(state[s], mode[state[s]])
                BY <4>1, <4>2 DEF Refresh
            <4>4. addr[s] \in Addr
                BY <3>1 DEF StateAddressed, Activated, TypeOK
            <4>5. table[a] # table[addr[s]]
                BY <3>4, <4>1, <4>4 DEF TableOwned
            <4> QED BY <3>1, <4>1, <4>3, <4>5
        <3>5. S3Armed'
            BY <3>4 DEF S3Armed
        <3> QED BY <3>3, <3>5
    <2> QED BY <2>1, <2>2
<1> QED BY <1>3, <1>4, <1>5, <1>6, <1>7, <1>8 DEF SessionStep

\* Every step.
LEMMA NextTable ==
    ASSUME TypeOK, ContenderInv, TableOwned, StateAddressed, S3Armed, [Next]_vars
    PROVE  TableOwned' /\ S3Armed'
<1>1. CASE UNCHANGED vars
    BY <1>1, ForgetTable DEF vars, states
<1>2. ASSUME NEW o \in Objects, S3Expire(o)
      PROVE  TableOwned' /\ S3Armed'
    <2>1. /\ \A a \in Addr : table'[a] \in {None, table[a]}
          /\ \A x \in Objects : mode'[x] = IF x = o THEN "tidy" ELSE mode[x]
          /\ s3' = s3 \ {o}
          /\ UNCHANGED owner
        BY <1>2 DEF S3Expire, MaybeDrop, TypeOK
    <2>2. \A a \in Addr : table[a] # None => table[a] \in Objects
        BY DEF TypeOK
    <2> QED BY <2>1, <2>2 DEF TableOwned, S3Armed
<1> QED BY <1>1, <1>2, SessionStepTable DEF Next

\* A connection gets its state object with its address, and loses it with it.
LEMMA NextAddressed ==
    ASSUME TypeOK, ContenderInv, StateAddressed, [Next]_vars
    PROVE  StateAddressed'
<1> USE ConstantsAssumption
<1>1. ASSUME UNCHANGED <<addr, state>>
      PROVE  StateAddressed'
    BY <1>1 DEF StateAddressed, Activated
<1>2. ASSUME NEW c \in Sessions, want[c] \in Addr, NEW reg, NEW tab,
             Admit(c, reg, tab)
      PROVE  StateAddressed'
    <2>1. CASE UNCHANGED <<addr, state>>
        BY <1>1, <2>1
    <2>2. CASE ~UNCHANGED <<addr, state>>
        <3>1. /\ addr' = [addr EXCEPT ![c] = want[c]]
              /\ \E o : state' = [state EXCEPT ![c] = o]
            BY <1>2, <2>2 DEF Admit, Commit
        <3> QED BY <1>2, <3>1 DEF StateAddressed, Activated, TypeOK
    <2> QED BY <2>1, <2>2
<1>3. ASSUME NEW s \in Sessions, SessionStep(s)
      PROVE  StateAddressed'
    <2>1. CASE HookDone(s)
        <3>1. want[s] \in Addr
            BY <2>1 DEF HookDone, ContenderInv
        <3> QED BY <1>1, <1>2, <2>1, <3>1 DEF HookDone, states
    <2>2. CASE ProbeSent(s) \/ ProbeTimeout(s)
        <3>1. want[s] \in Addr
            BY <2>2 DEF ProbeSent, ProbeTimeout, ContenderInv
        <3> QED BY <1>1, <1>2, <2>2, <3>1
                DEF ProbeSent, ProbeTimeout, Evict, states, pumps
    <2>3. CASE Forget(s)
        BY <2>3 DEF Forget, StateAddressed, Activated, TypeOK
    <2>4. CASE ~(HookDone(s) \/ ProbeSent(s) \/ ProbeTimeout(s) \/ Forget(s))
        <3>1. UNCHANGED <<addr, state>>
            BY <1>3, <2>4 DEF SessionStep, Connect, ReadEof, StopWorker, Finish,
               TimerFire, ReadOther, SendDone, ReadAlive, ReadActivation,
               ProbeAnswered, EnterSession, SecurityAccess, EcuReset,
               ResetAnswered, Serve,
               pumps, states
        <3> QED BY <1>1, <3>1
    <2> QED BY <2>1, <2>2, <2>3, <2>4
<1> QED BY <1>1, <1>3 DEF Next, S3Expire, vars, pumps, states

-----------------------------------------------------------------------------
(* The theorems.                                                           *)

\* The inductive invariant.
THEOREM SessionsSafe == Spec => []SessionInv
<1>1. Init => SessionInv
    <2> SUFFICES ASSUME Init PROVE SessionInv
        OBVIOUS
    <2>1. TypeOK
        BY DEF Init, TypeOK, Pcs
    <2>2. Held(registry) = {}
        BY DEF Init, Held
    <2>3. Count(registry) <= MaxSessions
        BY <2>2, FS_EmptySet, ConstantsAssumption DEF Count, Held
    <2>4. ContenderInv /\ TableOwned /\ StateAddressed /\ S3Armed
        BY DEF Init, ContenderInv, TableOwned, StateAddressed, S3Armed
    <2>5. Entries
        BY DEF Init, Entries
    <2> QED BY <2>1, <2>3, <2>4, <2>5
            DEF SessionInv, RegistryInv, RegistryBounded, Entries
<1>2. SessionInv /\ [Next]_vars => SessionInv'
    <2> SUFFICES ASSUME SessionInv, [Next]_vars PROVE SessionInv'
        OBVIOUS
    <2>1. /\ TypeOK /\ Entries /\ Count(registry) <= MaxSessions /\ ContenderInv
          /\ TableOwned /\ StateAddressed /\ S3Armed
        BY DEF SessionInv, RegistryInv, RegistryBounded, Entries
    <2>2. TypeOK'
        BY <2>1, NextType
    <2>3. Entries' /\ ContenderInv'
        BY <2>1, NextEntries
    <2>4. Count(registry)' <= MaxSessions
        BY <2>1, NextCount
    <2>5. TableOwned' /\ StateAddressed' /\ S3Armed'
        BY <2>1, NextTable, NextAddressed
    <2>6. RegistryBounded'
        BY <2>3, <2>4 DEF RegistryBounded, Entries
    <2> QED BY <2>2, <2>3, <2>5, <2>6 DEF SessionInv, RegistryInv
<1> QED BY <1>1, <1>2, PTL DEF Spec

\* The registry names only connections whose run() has not ended (a finalized
\* one stays until it ends), under their own address, and never more than
\* max_concurrent_sessions of them, although contenders decide without a lock.
THEOREM RegistryCorrect == Spec => []RegistryInv
<1>1. SessionInv => RegistryInv
    BY DEF SessionInv
<1> QED BY <1>1, SessionsSafe, PTL

\* A non-default diagnostic session that a tester can find again is always
\* under its S3 timer, whatever connections come and go.
THEOREM S3AlwaysArmed == Spec => []S3Armed
<1>1. SessionInv => S3Armed
    BY DEF SessionInv
<1> QED BY <1>1, SessionsSafe, PTL

\* A registered connection loses its entry only when it is evicted or its own
\* run() ends: the late finally clause of an evicted connection removes no
\* successor (SessionRegistry.unregister).
THEOREM OwnEntryOnly == Spec => OnlyOwnerUnregisters
<1>1. ASSUME SessionInv, [Next]_vars
      PROVE  [\A a \in Addr, s \in Sessions :
                 registry[a] = s /\ registry'[a] = None =>
                     pc'[s] = "finished" \/ s \in finalized']_vars
    <2> SUFFICES ASSUME NEW a \in Addr, NEW s \in Sessions, Next,
                        registry[a] = s, registry'[a] = None
                 PROVE  pc'[s] = "finished" \/ s \in finalized'
        BY <1>1
    <2>0. TypeOK /\ ContenderInv /\ s # None
        BY <1>1, ConstantsAssumption DEF SessionInv, RegistryInv
    <2>1. ASSUME NEW c \in Sessions, Finish(c)
          PROVE  pc'[s] = "finished"
        <3>1. s = c
            BY <2>0, <2>1, UnregisterKeeps DEF Finish
        <3> QED BY <2>0, <2>1, <3>1 DEF Finish, TypeOK
    <2>2. ASSUME NEW c \in Sessions, NEW reg \in [Addr -> Sessions \cup {None}],
                 NEW tab, want[c] \in Addr, Admit(c, reg, tab)
          PROVE  reg[a] = None
        BY <2>0, <2>2, ConstantsAssumption DEF Admit, Commit
    <2>3. ASSUME NEW c \in Sessions, HookDone(c)
          PROVE  FALSE
        <3>1. want[c] \in Addr /\ registry \in [Addr -> Sessions \cup {None}]
            BY <2>0, <2>3 DEF HookDone, ContenderInv, TypeOK
        <3>2. ~Admit(c, registry, table)
            BY <2>0, <2>2, <3>1
        <3> QED BY <2>0, <2>3, <3>2 DEF HookDone
    <2>4. ASSUME NEW c \in Sessions, pc[c] = "probing", Evict(c)
          PROVE  s \in finalized'
        <3>1. want[c] \in Addr /\ target[c] \in Sessions
            BY <2>0, <2>4 DEF ContenderInv
        <3>2. Unregister(target[c])[a] = None
            BY <2>0, <2>2, <2>4, <3>1, UnregisterKeeps DEF Evict
        <3>3. target[c] = s
            BY <2>0, <3>1, <3>2, UnregisterKeeps
        <3> QED BY <2>4, <3>3 DEF Evict
    <2>5. ASSUME NEW c \in Sessions, SessionStep(c)
          PROVE  pc'[s] = "finished" \/ s \in finalized'
        <3>1. CASE Finish(c) \/ HookDone(c)
            BY <2>1, <2>3, <3>1
        <3>2. CASE ProbeSent(c) \/ ProbeTimeout(c)
            BY <2>0, <2>4, <3>2 DEF ProbeSent, ProbeTimeout
        <3>3. CASE ~(Finish(c) \/ HookDone(c) \/ ProbeSent(c) \/ ProbeTimeout(c))
            BY <2>0, <2>5, <3>3
               DEF SessionStep, Connect, ReadEof, StopWorker, Forget,
                   TimerFire, ReadOther, SendDone, ReadAlive, ReadActivation,
                   ProbeAnswered, EnterSession, SecurityAccess, EcuReset,
               ResetAnswered, Serve
        <3> QED BY <3>1, <3>2, <3>3
    <2> QED BY <2>0, <2>5 DEF Next, S3Expire
<1> QED BY <1>1, SessionsSafe, PTL DEF Spec, OnlyOwnerUnregisters

\* A UDS state leaves the table only when its own S3 timer expires, by an
\* ECUReset that is to drop the connection, or, at rest, with a connection that
\* uses it and ends: neither the end nor the eviction of a connection, nor a new
\* Routing Activation, forgets a session, and a late close takes no entry of a
\* successor (maybe_drop_session_state).
THEOREM StateNotForgotten == Spec => StateKept
<1> DEFINE Allowed(a) ==
        \/ table[a] \in s3 /\ table[a] \notin s3'
        \/ resetDrops /\ \E s \in resetting' \ resetting : addr[s] = a
        \/ /\ mode[table[a]] = "tidy"
           /\ \E s \in Sessions : /\ state[s] = table[a] /\ addr[s] = a
                                  /\ Ended(s)'
       Kept == \A a \in Addr : table[a] # None /\ table'[a] # table[a] => Allowed(a)
<1>1. ASSUME SessionInv, [Next]_vars
      PROVE  [Kept]_vars
    <2> SUFFICES ASSUME NEW a \in Addr, Next, table[a] # None, table'[a] # table[a]
                 PROVE  Allowed(a)
        BY <1>1
    <2>0. TypeOK /\ ContenderInv
        BY <1>1 DEF SessionInv, RegistryInv
    <2>1. ASSUME NEW c \in Sessions, NEW reg, want[c] \in Addr,
                 NEW tab \in [Addr -> Objects \cup {None}], Admit(c, reg, tab)
          PROVE  tab[a] # table[a]
        BY <2>0, <2>1 DEF Admit, Commit
    <2>2. ASSUME NEW c \in Sessions, pc[c] = "probing", Evict(c)
          PROVE  Allowed(a)
        <3>1. want[c] \in Addr /\ target[c] \in Sessions
            BY <2>0, <2>2 DEF ContenderInv
        <3>2. PICK e \in Sessions : e = target[c]
            BY <3>1
        <3>3. DropTidy(e)[a] # table[a]
            BY <2>0, <2>1, <2>2, <3>1, <3>2, DropTidyType DEF Evict
        <3>4. mode[table[a]] = "tidy" /\ state[e] = table[a] /\ addr[e] = a
            BY <2>0, <3>3, DropTidyKeeps
        <3>5. Ended(e)'
            BY <2>2, <3>2 DEF Evict, Ended
        <3> QED BY <3>4, <3>5
    <2>3. ASSUME NEW c \in Sessions, HookDone(c)
          PROVE  FALSE
        <3>1. want[c] \in Addr /\ table \in [Addr -> Objects \cup {None}]
            BY <2>0, <2>3 DEF HookDone, ContenderInv, TypeOK
        <3>2. ~Admit(c, registry, table)
            BY <2>1, <3>1
        <3> QED BY <2>0, <2>3, <3>2 DEF HookDone, states
    <2>4. ASSUME NEW c \in Sessions, StopWorker(c)
          PROVE  Allowed(a)
        <3>1. /\ mode[table[a]] = "tidy"
              /\ state[c] = table[a] /\ addr[c] = a
            BY <2>0, <2>4, DropTidyKeeps DEF StopWorker
        <3>2. Ended(c)'
            BY <2>0, <2>4 DEF StopWorker, Ended, TypeOK
        <3> QED BY <3>1, <3>2
    <2>5. ASSUME NEW c \in Sessions, EcuReset(c)
          PROVE  Allowed(a)
        <3>1. /\ resetDrops /\ c \in resetting' \ resetting
              /\ table' = [table EXCEPT ![addr[c]] = None]
            BY <2>5 DEF EcuReset, Serve
        <3>2. addr[c] = a
            BY <2>0, <3>1 DEF TypeOK
        <3> QED BY <3>1, <3>2
    <2>6. ASSUME NEW o \in Objects, S3Expire(o)
          PROVE  Allowed(a)
        BY <2>0, <2>6 DEF S3Expire, MaybeDrop, TypeOK
    <2>7. ASSUME NEW c \in Sessions, SessionStep(c)
          PROVE  Allowed(a)
        <3> HIDE DEF Allowed
        <3>1. CASE HookDone(c) \/ StopWorker(c) \/ EcuReset(c)
            BY <2>3, <2>4, <2>5, <3>1
        <3>2. CASE ProbeSent(c) \/ ProbeTimeout(c)
            BY <2>2, <3>2 DEF ProbeSent, ProbeTimeout, states
        <3>3. CASE ~(HookDone(c) \/ StopWorker(c) \/ EcuReset(c) \/ ProbeSent(c)
                        \/ ProbeTimeout(c))
            BY <2>7, <3>3
               DEF SessionStep, Connect, ReadEof, Finish, Forget,
                   TimerFire, ReadOther, SendDone, ReadAlive, ReadActivation,
                   ProbeAnswered, EnterSession, SecurityAccess, ResetAnswered,
                   Serve, states
        <3> QED BY <3>1, <3>2, <3>3
    <2> QED BY <2>6, <2>7 DEF Next
<1> QED BY <1>1, SessionsSafe, PTL DEF Spec, StateKept

=============================================================================
