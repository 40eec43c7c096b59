-------------------------- MODULE TesterEchoProofs --------------------------
(***************************************************************************)
(* Proofs about the registry of the echo ECU, alone and beside the PC      *)
(* tester, and about tester and node staying in step, for any number of    *)
(* connections, addresses, attempts and lines.                             *)
(***************************************************************************)
EXTENDS TesterEcho, SequenceTheorems, TLAPS

-----------------------------------------------------------------------------
(* The echo ECU.                                                           *)

\* The initial state.
LEMMA InitEcho == Init => EchoInv
BY DEF Init, EchoInv, RegistryInv, TypeOK, RegisteredLive, OwnEntry,
       ContenderInv, Maybe

\* unregister() leaves a registry without the address of s.
LEMMA UnregisterForm ==
    ASSUME TypeOK, NEW s \in Sessions
    PROVE  /\ Unregister(s) \in [Addr -> Maybe(Sessions)]
           /\ \A a \in Addr : /\ Unregister(s)[a] \in {None, registry[a]}
                              /\ addr[s] = a => Unregister(s)[a] = None
BY ConstantsAssumption DEF Unregister, TypeOK, Maybe

\* A step that moves one session, keeps the addresses and forgets entries at
\* most.
LEMMA MoveEcho ==
    ASSUME EchoInv, TypeOK', NEW s \in Sessions, NEW where,
           pc' = [pc EXCEPT ![s] = where], where # "probing",
           \A a \in Addr : registry'[a] \in {None, registry[a]},
           \A a \in Addr : where = "closed" => registry'[a] # s \/ s \in moved,
           UNCHANGED <<addr, moved>>,
           \A c \in Sessions \ {s} : want'[c] = want[c] /\ target'[c] = target[c]
    PROVE  EchoInv'
<1>1. \A c \in Sessions : pc'[c] = IF c = s THEN where ELSE pc[c]
    BY DEF EchoInv, RegistryInv, TypeOK
<1>2. \A a \in Addr : registry'[a] # None => registry'[a] \in Sessions
    BY DEF TypeOK, Maybe
<1>3. RegisteredLive'
    BY <1>1, <1>2 DEF EchoInv, RegistryInv, RegisteredLive
<1>4. OwnEntry'
    BY DEF EchoInv, OwnEntry
<1>5. ContenderInv'
    BY <1>1, ConstantsAssumption DEF EchoInv, ContenderInv
<1> QED BY <1>3, <1>4, <1>5 DEF EchoInv, RegistryInv

\* A session takes its address, in a registry from which entries have gone.
LEMMA CommitEcho ==
    ASSUME EchoInv, TypeOK', NEW c \in Sessions, NEW a \in Addr, NEW reg,
           reg \in [Addr -> Maybe(Sessions)],
           \A b \in Addr : reg[b] \in {None, registry[b]},
           Commit(c, a, reg),
           \A d \in Sessions \ {c} : want'[d] = want[d] /\ target'[d] = target[d]
    PROVE  EchoInv'
<1>0. TypeOK
    BY DEF EchoInv, RegistryInv
<1>1. \A d \in Sessions : /\ pc'[d] = IF d = c THEN "sending" ELSE pc[d]
                          /\ addr'[d] = IF d = c THEN a ELSE addr[d]
    BY <1>0 DEF Commit, Goto, TypeOK
<1>2. \A b \in Addr : registry'[b] = IF b = a THEN c ELSE reg[b]
    BY DEF Commit
<1>3. moved \subseteq moved' /\ (addr[c] \notin {None, a} => c \in moved')
    BY DEF Commit
<1>4. ASSUME NEW b \in Addr, registry'[b] \notin moved' \cup {None}
      PROVE  addr'[registry'[b]] = b /\ pc'[registry'[b]] # "closed"
    <2>1. CASE b = a
        BY <1>1, <1>2, <2>1
    <2>2. CASE b # a
        <3>1. registry'[b] = registry[b] /\ registry[b] \in Sessions
            BY <1>0, <1>2, <1>4, <2>2 DEF TypeOK, Maybe
        <3>2. addr[registry[b]] = b /\ pc[registry[b]] # "closed"
            BY <1>3, <1>4, <3>1 DEF EchoInv, RegistryInv, RegisteredLive, OwnEntry
        <3>3. registry[b] # c
            BY <1>3, <1>4, <2>2, <3>1, <3>2, ConstantsAssumption
        <3> QED BY <1>1, <3>1, <3>2, <3>3
    <2> QED BY <2>1, <2>2
<1>5. ContenderInv'
    BY <1>1, <1>2, ConstantsAssumption DEF EchoInv, ContenderInv
<1> QED BY <1>4, <1>5 DEF EchoInv, RegistryInv, RegisteredLive, OwnEntry

\* The end of a probe keeps the types and touches no other contender.
LEMMA ProbeEndsForm ==
    ASSUME TypeOK, NEW c \in Sessions, ProbeEnds(c)
    PROVE  /\ want' \in [Sessions -> Maybe(Addr)]
           /\ target' \in [Sessions -> Maybe(Sessions)]
           /\ event' \in [Sessions -> Maybe(Sessions)]
           /\ waits' \in [Sessions -> Maybe(Sessions)]
           /\ isset' \subseteq Sessions
           /\ \A d \in Sessions \ {c} : want'[d] = want[d] /\ target'[d] = target[d]
<1>1. /\ want' \in [Sessions -> Maybe(Addr)]
      /\ target' \in [Sessions -> Maybe(Sessions)]
      /\ event' \in [Sessions -> Maybe(Sessions)]
      /\ waits' \in [Sessions -> Maybe(Sessions)]
    BY DEF ProbeEnds, TypeOK, Maybe
<1>2. isset' \subseteq Sessions
    BY DEF ProbeEnds, TypeOK
<1>3. \A d \in Sessions \ {c} : want'[d] = want[d] /\ target'[d] = target[d]
    BY DEF ProbeEnds, TypeOK
<1> QED BY <1>1, <1>2, <1>3

\* The owner is given up.
LEMMA EvictEcho ==
    ASSUME EchoInv, NEW c \in Sessions, pc[c] = "probing", Evict(c)
    PROVE  EchoInv'
<1>0. TypeOK
    BY DEF EchoInv, RegistryInv
<1>1. want[c] \in Addr /\ target[c] \in Sessions
    BY DEF EchoInv, ContenderInv
<1>2. ProbeEnds(c) /\ Commit(c, want[c], Unregister(target[c]))
    BY DEF Evict
<1>3. /\ Unregister(target[c]) \in [Addr -> Maybe(Sessions)]
      /\ \A b \in Addr : Unregister(target[c])[b] \in {None, registry[b]}
    BY <1>0, <1>1, UnregisterForm
<1>4. TypeOK'
    <2>1. /\ pc' = [pc EXCEPT ![c] = "sending"]
          /\ addr' = [addr EXCEPT ![c] = want[c]]
          /\ registry' = [Unregister(target[c]) EXCEPT ![want[c]] = c]
          /\ shut' = shut \cup {target[c]}
        BY <1>2 DEF Commit, Goto, Evict
    <2>2. registry' \in [Addr -> Maybe(Sessions)]
        BY <1>3, <2>1 DEF Maybe
    <2>3. addr' \in [Sessions -> Maybe(Addr)]
        BY <1>0, <1>1, <2>1 DEF TypeOK, Maybe
    <2>4. pc' \in [Sessions -> {"new", "idle", "probing", "sending", "leaving",
                                "closing", "closed"}]
        BY <1>0, <2>1 DEF TypeOK
    <2>5. shut' \subseteq Sessions
        BY <1>0, <1>1, <2>1 DEF TypeOK
    <2>6. moved' \subseteq Sessions
        BY <1>0, <1>2 DEF Commit, TypeOK
    <2> QED BY <1>0, <1>2, <2>2, <2>3, <2>4, <2>5, <2>6, ProbeEndsForm DEF TypeOK
<1> QED BY <1>0, <1>1, <1>2, <1>3, <1>4, CommitEcho, ProbeEndsForm

\* A Routing Activation Request.
LEMMA ReadActivationEcho ==
    ASSUME EchoInv, NEW c \in Sessions, NEW a \in Addr, ReadActivation(c, a)
    PROVE  EchoInv'
<1>0. TypeOK /\ pc[c] = "idle" /\ UNCHANGED shut
    BY DEF EchoInv, RegistryInv, ReadActivation
<1>1. CASE Commit(c, a, registry) /\ UNCHANGED <<want, probe>>
    <2>1. TypeOK'
        <3>1. /\ pc' = [pc EXCEPT ![c] = "sending"]
              /\ addr' = [addr EXCEPT ![c] = a]
              /\ registry' = [registry EXCEPT ![a] = c]
              /\ moved' \in {moved, moved \cup {c}}
            BY <1>1 DEF Commit, Goto
        <3> QED BY <1>0, <1>1, <3>1 DEF TypeOK, Maybe, probe
    <2> QED BY <1>0, <1>1, <2>1, CommitEcho DEF TypeOK, probe
<1>2. CASE /\ registry[a] \notin {None, c}
           /\ Goto(c, "probing")
           /\ want' = [want EXCEPT ![c] = a]
           /\ target' = [target EXCEPT ![c] = registry[a]]
           /\ event' = [event EXCEPT ![registry[a]] = c]
           /\ isset' = isset \ {c}
           /\ UNCHANGED <<addr, waits, registry, moved>>
    <2>1. registry[a] \in Sessions
        BY <1>0, <1>2 DEF TypeOK, Maybe
    <2>2. TypeOK'
        <3>1. pc' \in [Sessions -> {"new", "idle", "probing", "sending",
                                    "leaving", "closing", "closed"}]
            BY <1>0, <1>2 DEF Goto, TypeOK
        <3>2. want' \in [Sessions -> Maybe(Addr)]
            BY <1>0, <1>2 DEF TypeOK, Maybe
        <3>3. /\ target' \in [Sessions -> Maybe(Sessions)]
              /\ event' \in [Sessions -> Maybe(Sessions)]
            BY <1>0, <1>2, <2>1 DEF TypeOK, Maybe
        <3> QED BY <1>0, <1>2, <3>1, <3>2, <3>3 DEF TypeOK
    <2>3. \A d \in Sessions : /\ pc'[d] = IF d = c THEN "probing" ELSE pc[d]
                              /\ want'[d] = IF d = c THEN a ELSE want[d]
                              /\ target'[d] = IF d = c THEN registry[a] ELSE target[d]
        BY <1>0, <1>2 DEF Goto, TypeOK
    <2>4. ContenderInv'
        BY <1>0, <1>2, <2>1, <2>3 DEF EchoInv, ContenderInv
    <2>5. RegisteredLive'
        <3>1. \A b \in Addr : registry[b] # None => registry[b] \in Sessions
            BY <1>0 DEF TypeOK, Maybe
        <3> QED BY <1>2, <2>3, <3>1 DEF EchoInv, RegistryInv, RegisteredLive
    <2>6. OwnEntry'
        BY <1>2 DEF EchoInv, OwnEntry
    <2> QED BY <2>2, <2>4, <2>5, <2>6 DEF EchoInv, RegistryInv
<1> QED BY <1>1, <1>2 DEF ReadActivation

\* Every step of a session.
LEMMA StepEcho ==
    ASSUME EchoInv, NEW s \in Sessions, Step(s)
    PROVE  EchoInv'
<1>0. TypeOK
    BY DEF EchoInv, RegistryInv
<1>1. CASE Connect(s) \/ ReadOther(s) \/ ReadEof(s) \/ SendDone(s)
    <2>1. PICK where \in {"idle", "sending", "leaving", "closing"} :
             pc' = [pc EXCEPT ![s] = where]
        BY <1>1 DEF Connect, ReadOther, ReadEof, SendDone, Goto
    <2>2. /\ UNCHANGED <<addr, want, probe, registry, moved>>
          /\ shut' \in {shut, shut \cup {s}}
        BY <1>1 DEF Connect, ReadOther, ReadEof, SendDone
    <2>3. TypeOK'
        BY <1>0, <2>1, <2>2 DEF TypeOK, probe
    <2> QED BY <2>1, <2>2, <2>3, MoveEcho DEF probe
<1>2. CASE ReadAlive(s)
    <2>1. TypeOK'
        BY <1>0, <1>2 DEF ReadAlive, TypeOK, Maybe
    <2> QED BY <1>2, <2>1 DEF ReadAlive, EchoInv, RegistryInv, RegisteredLive,
                              OwnEntry, ContenderInv
<1>3. CASE Finish(s)
    <2>1. pc' = [pc EXCEPT ![s] = "closed"] /\ registry' = Unregister(s)
          /\ UNCHANGED <<addr, shut, want, probe, moved>>
        BY <1>3 DEF Finish, Goto
    <2>2. TypeOK'
        BY <1>0, <2>1, UnregisterForm DEF TypeOK, probe
    <2>3. \A a \in Addr : registry'[a] # s \/ s \in moved
        <3> SUFFICES ASSUME NEW a \in Addr, registry'[a] = s, s \notin moved
                     PROVE  FALSE
            OBVIOUS
        <3>1. registry[a] = s
            BY <1>0, <2>1, UnregisterForm, ConstantsAssumption
        <3>2. addr[s] = a
            BY <3>1, ConstantsAssumption DEF EchoInv, OwnEntry
        <3> QED BY <1>0, <2>1, <3>2, UnregisterForm, ConstantsAssumption
    <2>4. \A a \in Addr : registry'[a] \in {None, registry[a]}
        BY <1>0, <2>1, UnregisterForm
    <2> QED BY <2>1, <2>2, <2>3, <2>4, MoveEcho DEF probe
<1>4. CASE \E a \in Addr : ReadActivation(s, a)
    BY <1>4, ReadActivationEcho
<1>5. CASE ProbeTimeout(s) \/ (pc[s] = "probing" /\ Evict(s))
    BY <1>5, EvictEcho DEF ProbeTimeout
<1>6. CASE ProbeAnswered(s)
    <2>1. pc' = [pc EXCEPT ![s] = "sending"] /\ ProbeEnds(s)
          /\ UNCHANGED <<addr, shut, registry, moved>>
        BY <1>6 DEF ProbeAnswered, Goto
    <2>2. TypeOK'
        BY <1>0, <2>1, ProbeEndsForm DEF TypeOK
    <2>3. \A d \in Sessions \ {s} : want'[d] = want[d] /\ target'[d] = target[d]
        BY <1>0, <2>1, ProbeEndsForm
    <2>4. "sending" # "probing" /\ "sending" # "closed" /\ UNCHANGED <<addr, moved>>
          /\ \A a \in Addr : registry'[a] \in {None, registry[a]}
        BY <2>1
    <2> QED BY <2>1, <2>2, <2>3, <2>4, MoveEcho
<1>7. CASE /\ pc[s] = "probing"
           /\ waits' = [waits EXCEPT ![s] = event[target[s]]]
           /\ UNCHANGED <<pc, addr, shut, want, registry, moved, target, event,
                           isset>>
    <2>1. target[s] \in Sessions
        BY <1>7 DEF EchoInv, ContenderInv
    <2>2. TypeOK'
        BY <1>0, <1>7, <2>1 DEF TypeOK, Maybe
    <2> QED BY <1>7, <2>2 DEF EchoInv, RegistryInv, RegisteredLive, OwnEntry,
                              ContenderInv
<1> QED BY <1>1, <1>2, <1>3, <1>4, <1>5, <1>6, <1>7
           DEF Step, Decide, ProbeSent

\* The name of an ended session that nothing names stands for a new one.
LEMMA ReuseEcho ==
    ASSUME EchoInv, NEW s \in Sessions, Reuse(s)
    PROVE  EchoInv'
<1>0. TypeOK
    BY DEF EchoInv, RegistryInv
<1>1. /\ pc' = [pc EXCEPT ![s] = "new"] /\ addr' = [addr EXCEPT ![s] = None]
      /\ shut' = shut \ {s} /\ moved' = moved \ {s}
      /\ UNCHANGED <<want, target, event, waits, isset, registry>>
      /\ \A a \in Addr : registry[a] # s
    BY DEF Reuse, Goto, probe
<1>2. TypeOK'
    BY <1>0, <1>1 DEF TypeOK, Maybe
<1>3. \A c \in Sessions : /\ pc'[c] = IF c = s THEN "new" ELSE pc[c]
                          /\ addr'[c] = IF c = s THEN None ELSE addr[c]
    BY <1>0, <1>1 DEF TypeOK
<1>4. ASSUME NEW a \in Addr, registry'[a] \notin moved' \cup {None}
      PROVE  addr'[registry'[a]] = a /\ pc'[registry'[a]] # "closed"
    <2>1. registry[a] \in Sessions \ {s} /\ registry[a] \notin moved \cup {None}
        BY <1>0, <1>1, <1>4 DEF TypeOK, Maybe
    <2>2. addr[registry[a]] = a /\ pc[registry[a]] # "closed"
        BY <2>1 DEF EchoInv, RegistryInv, RegisteredLive, OwnEntry
    <2> QED BY <1>1, <1>3, <2>1, <2>2
<1>5. ContenderInv'
    BY <1>1, <1>3 DEF EchoInv, ContenderInv
<1> QED BY <1>2, <1>4, <1>5 DEF EchoInv, RegistryInv, RegisteredLive, OwnEntry

\* Every step of the ECU.
LEMMA NextEcho ==
    ASSUME EchoInv, [Next]_vars
    PROVE  EchoInv'
<1>1. CASE UNCHANGED vars
    BY <1>1 DEF vars, probe, EchoInv, RegistryInv, TypeOK, RegisteredLive,
                OwnEntry, ContenderInv
<1>2. CASE Next
    BY <1>1, <1>2, StepEcho, ReuseEcho DEF Next, Terminated
<1> QED BY <1>1, <1>2

\* The echo ECU alone: no registered session that kept to one address has
\* ended, although evictions and late teardowns remove entries by address
\* (register, unregister).
THEOREM EchoRegistered == Spec => []RegistryInv
<1>1. EchoInv /\ [Next]_vars => EchoInv'
    BY NextEcho
<1>2. EchoInv => RegistryInv
    BY DEF EchoInv
<1> QED BY <1>1, <1>2, InitEcho, PTL DEF Spec

-----------------------------------------------------------------------------
(* The PC tester beside other peers.  The node serves the tester's         *)
(* requests as it serves any peer's, because what the tester sends names   *)
(* an address, and because a request stays in the channel while it is      *)
(* probed.                                                                 *)

Channel ==
    /\ cast \in Casts
    /\ up \in [Own -> Seq(T!Requests)]
    /\ sent \in Nat
    /\ arg \in Addr \cup {None} /\ tester_addr \in Addr
    /\ conn \in cast.own \cup {None}
    /\ \A s \in cast.own : pc[s] = "probing" => up[s] # <<>>

\* The casts are made of connections, each the tester's or a peer's.
LEMMA CastForm ==
    ASSUME NEW k \in Casts
    PROVE  /\ k.own \subseteq Own /\ k.own \subseteq Sessions
           /\ k.own \cap k.peers = {}
           /\ k.addrs \subseteq Addr
<1>1. k \in [own : SUBSET Own, peers : SUBSET Sessions, lines : 0..MaxTyped,
            addrs : SUBSET Addr, relay : BOOLEAN]
    BY TesterAssumption
<1>2. k.own \in SUBSET Own /\ k.addrs \in SUBSET Addr
    BY <1>1
<1> QED BY <1>2, TesterAssumption

\* A step of the ECU for s moves no other session.
LEMMA StepLocal ==
    ASSUME TypeOK, NEW s \in Sessions, Step(s)
    PROVE  \A c \in Sessions \ {s} : pc'[c] = pc[c]
<1>1. pc' = pc \/ \E where : pc' = [pc EXCEPT ![s] = where]
    BY DEF Step, Connect, ReadOther, ReadAlive, ReadEof, ReadActivation, Commit,
           SendDone, Finish, Decide, ProbeSent, Evict, ProbeAnswered,
           ProbeTimeout, Goto
<1> QED BY <1>1 DEF TypeOK

\* What the ECU does with a frame of the tester is a step of EchoEcu.
LEMMA ServedMaps ==
    ASSUME Channel, NEW s \in cast.own, Served(s)
    PROVE  s \in Own /\ (Step(s) \/ UNCHANGED vars)
<1>1. s \in Own
    BY TesterAssumption DEF Channel
<1>2. CASE /\ pc[s] = "idle" /\ up[s] # <<>>
           /\ LET r == Head(up[s]) IN Serve(s, r) \/ Refuse(s, r) \/ GiveUp(s, r)
    <2>0. up[s] \in Seq(T!Requests)
        BY <1>1 DEF Channel
    <2>1. Head(up[s]) \in T!Requests
        BY <1>2, <2>0
    <2>2. Head(up[s]).addr \in Addr
        BY <2>1, TesterAssumption DEF T!Requests, T!Addresses
    <2>3. CASE Serve(s, Head(up[s]))
        BY <1>1, <2>2, <2>3 DEF Serve, Step
    <2>4. CASE Refuse(s, Head(up[s])) \/ GiveUp(s, Head(up[s]))
        BY <1>1, <2>4 DEF Refuse, GiveUp, Step
    <2> QED BY <1>2, <2>3, <2>4
<1>3. CASE Decide(s)
    BY <1>1, <1>3 DEF Step
<1>4. CASE ReadEof(s) \/ SendDone(s) \/ Finish(s)
    BY <1>1, <1>4 DEF Step
<1> QED BY <1>2, <1>3, <1>4 DEF Served, Handle

\* A step of the composition is, for the ECU, a step of EchoEcu or none.
LEMMA EcuMaps ==
    ASSUME Channel, [EchoNext]_allVars
    PROVE  [Next]_vars
<1>1. CASE UNCHANGED allVars \/ Ended
    BY <1>1 DEF allVars, Ended, vars, probe
<1>2. CASE TesterStep
    BY <1>2, CastForm DEF TesterStep, Channel, Next, Step
<1>3. CASE \E c \in Own : ReaderStep(c) \/ Break(c)
    BY <1>3 DEF ReaderStep, Break
<1>4. CASE \E c \in Own : Reopen(c)
    BY <1>4, TesterAssumption DEF Reopen, Next
<1>5. CASE \E s \in Sessions : Ecu(s)
    BY <1>5, ServedMaps DEF Ecu, Next
<1> QED BY <1>1, <1>2, <1>3, <1>4, <1>5 DEF EchoNext

\* Appending keeps a sequence a sequence, and leaves it with an element.
LEMMA AppendForm ==
    ASSUME NEW S, NEW q \in Seq(S), NEW x \in S
    PROVE  Append(q, x) \in Seq(S) /\ Append(q, x) # <<>>
BY AppendProperties

\* A request that the tester may send.
LEMMA RequestForm ==
    ASSUME NEW op \in T!Ops \cup {"reply"}, NEW a \in Addr, NEW n \in Nat
    PROVE  [op |-> op, addr |-> a, no |-> n] \in T!Requests
BY DEF T!Requests, T!Addresses

\* The tester writes a request, or none.
LEMMA TransmitForm ==
    ASSUME Channel, NEW c, NEW op \in T!Ops, NEW n \in Nat, T!Transmit(c, op, n)
    PROVE  /\ sent' \in Nat
           /\ up' \in [Own -> Seq(T!Requests)]
           /\ \A s \in Own : up[s] # <<>> => up'[s] # <<>>
<1> DEFINE r == [op |-> op, addr |-> T!Asked, no |-> n]
<1>0. T!Asked \in Addr
    BY DEF T!Asked, Channel
<1>1. r \in T!Requests
    BY <1>0, RequestForm
<1>2. up \in [Own -> Seq(T!Requests)]
    BY DEF Channel
<1>3. sent' = n /\ (up' = up \/ up' = [up EXCEPT ![c] = Append(up[c], r)])
    BY DEF T!Transmit
<1> HIDE DEF r
<1>4. CASE up' = up
    BY <1>2, <1>3, <1>4
<1>5. CASE up' = [up EXCEPT ![c] = Append(up[c], r)]
    <2>1. \A s \in Own : /\ Append(up[s], r) \in Seq(T!Requests)
                         /\ Append(up[s], r) # <<>>
        BY <1>1, <1>2
    <2> QED BY <1>2, <1>3, <1>5, <2>1
<1> QED BY <1>3, <1>4, <1>5

\* The steps of the tester.
LEMMA TesterChannel ==
    ASSUME Channel, TypeOK, TesterStep
    PROVE  Channel'
<1>0. cast' = cast /\ cast \in Casts /\ cast.own \subseteq Own
      /\ cast.own \subseteq Sessions
    BY CastForm DEF TesterStep, Channel
<1>1. /\ sent' \in Nat
      /\ up' \in [Own -> Seq(T!Requests)]
      /\ \A s \in Own : up[s] # <<>> => up'[s] # <<>>
    <2>1. ASSUME UNCHANGED up, sent' \in {sent, 0}
          PROVE  /\ sent' \in Nat
                 /\ up' \in [Own -> Seq(T!Requests)]
                 /\ \A s \in Own : up[s] # <<>> => up'[s] # <<>>
        BY <2>1 DEF Channel
    <2>2. CASE \E c \in cast.own : T!Connect(c)
        <3>1. PICK c \in cast.own : T!Connect(c)
            BY <2>2
        <3>2. \/ T!Transmit(c, "activate", 1)
              \/ UNCHANGED up /\ sent' = 0
            BY <3>1 DEF T!Connect
        <3> QED BY <2>1, <3>2, TransmitForm DEF T!Ops
    <2>3. CASE T!Run
        <3>1. \/ UNCHANGED up /\ sent' \in {sent, 0}
              \/ T!Transmit(conn, "alive", sent)
              \/ cmd \in {"activate", "info", "diag"} /\ T!Transmit(conn, cmd, sent + 1)
            BY <2>3 DEF T!Run, T!ConnectionLost, T!Exit
        <3>2. sent \in Nat /\ sent + 1 \in Nat
            BY DEF Channel
        <3> QED BY <2>1, <3>1, <3>2, TransmitForm DEF T!Ops
    <2>4. CASE T!Take
        <3>1. UNCHANGED up /\ sent' \in {sent, 0}
            BY <2>4 DEF T!Take, T!Activation, T!Exit
        <3> QED BY <2>1, <3>1
    <2>5. CASE T!RecvTimeout \/ T!ConnectFails \/ T!Quit
        <3>1. UNCHANGED up /\ sent' \in {sent, 0}
            BY <2>5 DEF T!RecvTimeout, T!ConnectionLost, T!ConnectFails, T!Quit,
                        T!Exit
        <3> QED BY <2>1, <3>1
    <2>6. CASE \E op, a : T!Type(op, a)
        <3>1. UNCHANGED <<up, sent>>
            BY <2>6 DEF T!Type, T!link
        <3> QED BY <2>1, <3>1
    <2> QED BY <2>2, <2>3, <2>4, <2>5, <2>6 DEF TesterStep, T!Progress
<1>2. \A s \in cast.own : pc'[s] = "probing" => pc[s] = "probing"
    <2>1. CASE UNCHANGED vars
        BY <2>1 DEF vars
    <2>2. CASE \E c \in cast.own : Connect(c)
        <3>1. PICK c \in cast.own : pc' = [pc EXCEPT ![c] = "idle"]
            BY <2>2 DEF Connect, Goto
        <3> QED BY <1>0, <3>1 DEF TypeOK
    <2> QED BY <2>1, <2>2 DEF TesterStep
<1>3. conn' \in cast.own \cup {None}
    <2>1. CASE \E c \in cast.own : T!Connect(c)
        BY <2>1 DEF T!Connect
    <2>2. CASE T!Progress \/ T!Quit \/ \E op, a : T!Type(op, a)
        <3>1. conn' \in {conn, None}
            BY <2>2 DEF T!Progress, T!Run, T!Take, T!Activation, T!RecvTimeout,
                        T!ConnectFails, T!ConnectionLost, T!Prompt, T!Quit,
                        T!Type, T!link, T!Exit, T!Disconnect
        <3> QED BY <3>1 DEF Channel
    <2> QED BY <2>1, <2>2 DEF TesterStep
<1>4. arg' \in Addr \cup {None} /\ tester_addr' \in Addr
    <2>1. CASE \E c \in cast.own : T!Connect(c)
        BY <2>1 DEF T!Connect, Channel
    <2>2. CASE T!Progress \/ T!Quit
        <3>0. T!Asked \in Addr
            BY DEF T!Asked, Channel
        <3>1. arg' \in {arg, None} /\ tester_addr' \in {tester_addr, Home, T!Asked}
            BY <2>2 DEF T!Progress, T!Run, T!Take, T!Activation, T!RecvTimeout,
                        T!ConnectFails, T!ConnectionLost, T!Prompt, T!Quit, T!Exit
        <3> QED BY <3>0, <3>1, TesterAssumption DEF Channel
    <2>3. CASE \E op \in T!Ops, a \in cast.addrs \cup {None} : T!Type(op, a)
        BY <1>0, <2>3, CastForm DEF T!Type, Channel
    <2> QED BY <2>1, <2>2, <2>3 DEF TesterStep
<1> QED BY <1>0, <1>1, <1>2, <1>3, <1>4 DEF Channel

\* The background reader answers an Alive Check.
LEMMA ReaderChannel ==
    ASSUME Channel, NEW c \in Own, ReaderStep(c)
    PROVE  Channel'
<1>1. UNCHANGED <<cast, pc, sent, arg, tester_addr, conn>>
    BY DEF ReaderStep, T!Reader, T!ReaderTakes, T!ReaderEnds, T!repl, vars
<1> DEFINE r == [op |-> "alive", addr |-> tester_addr, no |-> 0]
<1>2. up' = up \/ up' = [up EXCEPT ![c] = Append(up[c], r)]
    BY DEF ReaderStep, T!Reader, T!ReaderTakes, T!ReaderEnds
<1>3. r \in T!Requests
    BY RequestForm DEF T!Ops, Channel
<1>4. up \in [Own -> Seq(T!Requests)] /\ cast.own \subseteq Own
    BY CastForm DEF Channel
<1> HIDE DEF r
<1>5. \A s \in Own : Append(up[s], r) \in Seq(T!Requests) /\ Append(up[s], r) # <<>>
    BY <1>3, <1>4, AppendForm
<1>6. up' \in [Own -> Seq(T!Requests)]
    BY <1>2, <1>4, <1>5
<1>7. \A s \in Own : up[s] # <<>> => up'[s] # <<>>
    BY <1>2, <1>4, <1>5
<1> QED BY <1>1, <1>4, <1>6, <1>7 DEF Channel

\* The network loses the connection, but not the request that is probed for.
LEMMA BreakChannel ==
    ASSUME Channel, NEW c \in Own, Break(c)
    PROVE  Channel'
<1>1. UNCHANGED <<cast, pc, sent, arg, tester_addr, conn>>
    BY DEF Break, vars, repl
<1>2. up \in [Own -> Seq(T!Requests)] /\ cast.own \subseteq Own
    BY CastForm DEF Channel
<1>3. up' = [up EXCEPT ![c] = IF pc[c] = "probing" THEN SubSeq(up[c], 1, 1) ELSE <<>>]
    BY DEF Break
<1>4. \A s \in Own : up[s] # <<>> =>
         SubSeq(up[s], 1, 1) \in Seq(T!Requests) /\ SubSeq(up[s], 1, 1) # <<>>
    BY <1>2
<1>5. pc[c] = "probing" => up[c] # <<>>
    BY TesterAssumption, ConstantsAssumption DEF Channel, Break
<1>6. up' \in [Own -> Seq(T!Requests)]
    BY <1>2, <1>3, <1>4, <1>5
<1>7. \A s \in cast.own : pc[s] = "probing" => up'[s] # <<>>
    BY <1>2, <1>3, <1>4, <1>5 DEF Channel
<1> QED BY <1>1, <1>6, <1>7 DEF Channel

\* A connection that both ends have left stands for a new one.
LEMMA ReopenChannel ==
    ASSUME Channel, TypeOK, NEW c \in Own, Reopen(c)
    PROVE  Channel'
<1>1. UNCHANGED <<cast, sent, arg, tester_addr, conn>>
    BY DEF Reopen, repl
<1>2. up' = [up EXCEPT ![c] = <<>>] /\ pc' = [pc EXCEPT ![c] = "new"]
    BY DEF Reopen, Reuse, Goto
<1>3. up \in [Own -> Seq(T!Requests)] /\ cast.own \subseteq Own
      /\ cast.own \subseteq Sessions
    BY CastForm DEF Channel
<1>4. up' \in [Own -> Seq(T!Requests)]
    BY <1>2, <1>3, EmptySeq
<1>5. \A s \in cast.own : pc'[s] = "probing" => up'[s] # <<>>
    BY <1>2, <1>3 DEF Channel, TypeOK
<1> QED BY <1>1, <1>4, <1>5 DEF Channel

\* The node takes a request of the tester from the channel, or a peer moves.
LEMMA EcuChannel ==
    ASSUME Channel, EchoInv, NEW s \in Sessions, Ecu(s)
    PROVE  Channel'
<1>0. TypeOK
    BY DEF EchoInv, RegistryInv
<1>1. UNCHANGED <<cast, sent, arg, tester_addr, conn>>
    BY DEF Ecu, repl
<1>2. up \in [Own -> Seq(T!Requests)] /\ cast.own \subseteq Own
      /\ cast.own \subseteq Sessions /\ cast.own \cap cast.peers = {}
    BY CastForm DEF Channel
<1>3. CASE s \in cast.peers /\ Step(s) /\ UNCHANGED up
    <2>1. \A c \in cast.own : pc'[c] = pc[c]
        BY <1>0, <1>2, <1>3, StepLocal
    <2> QED BY <1>1, <1>3, <2>1 DEF Channel
<1>4. CASE s \in cast.own /\ Served(s)
    <2>1. \A c \in cast.own \ {s} : pc'[c] = pc[c]
        <3>1. Step(s) \/ UNCHANGED vars
            BY <1>4, ServedMaps
        <3> QED BY <1>0, <1>2, <3>1, StepLocal DEF vars
    <2>2. CASE UNCHANGED up /\ (pc'[s] = "probing" => pc[s] = "probing" \/ up[s] # <<>>)
        BY <1>1, <1>4, <2>1, <2>2 DEF Channel
    <2>3. ASSUME NEW q \in Seq(T!Requests), up' = [up EXCEPT ![s] = q],
                 pc'[s] # "probing" \/ q # <<>>
          PROVE  Channel'
        <3>1. up' \in [Own -> Seq(T!Requests)]
            BY <1>2, <2>3
        <3>2. \A c \in cast.own : pc'[c] = "probing" => up'[c] # <<>>
            BY <1>2, <1>4, <2>1, <2>3 DEF Channel
        <3> QED BY <1>1, <3>1, <3>2 DEF Channel
    <2>4. CASE Handle(s)
        <3>1. up[s] # <<>> /\ up[s] \in Seq(T!Requests)
            BY <1>2, <1>4, <2>4 DEF Handle
        <3>2. CASE UNCHANGED up
            BY <2>2, <3>1, <3>2
        <3>3. CASE pc'[s] # "probing" /\ up' = [up EXCEPT ![s] = Tail(up[s])]
            <4>1. Tail(up[s]) \in Seq(T!Requests)
                BY <3>1
            <4> QED BY <2>3, <3>3, <4>1
        <3>4. CASE pc'[s] # "probing" /\ up' = [up EXCEPT ![s][1].op = "reply"]
            <4> DEFINE q == [up[s] EXCEPT ![1].op = "reply"]
            <4>1. up[s][1] \in T!Requests
                BY <3>1
            <4>2. [up[s][1] EXCEPT !.op = "reply"] \in T!Requests
                BY <4>1 DEF T!Requests
            <4>3. q \in Seq(T!Requests)
                BY <3>1, <4>2
            <4>4. up' = [up EXCEPT ![s] = q]
                BY <3>4
            <4> QED BY <2>3, <3>4, <4>3, <4>4
        <3> QED BY <2>4, <3>2, <3>3, <3>4 DEF Handle, Onward
    <2>5. CASE ReadEof(s) /\ up' = [up EXCEPT ![s] = <<>>]
        <3>1. pc'[s] # "probing"
            BY <1>0, <2>5 DEF ReadEof, Goto, TypeOK
        <3> QED BY <2>3, <2>5, <3>1, EmptySeq
    <2>6. CASE SendDone(s) /\ pc'[s] = "idle" /\ UNCHANGED up
        BY <2>2, <2>6
    <2>7. CASE SendDone(s) /\ pc'[s] = "closing" /\ up' = [up EXCEPT ![s] = <<>>]
        BY <2>3, <2>7, EmptySeq
    <2>8. CASE Finish(s) /\ UNCHANGED up
        <3>1. pc'[s] # "probing"
            BY <1>0, <2>8 DEF Finish, Goto, TypeOK
        <3> QED BY <2>2, <2>8, <3>1
    <2> QED BY <1>4, <2>4, <2>5, <2>6, <2>7, <2>8 DEF Served
<1> QED BY <1>3, <1>4 DEF Ecu

\* Every step of the composition keeps the channel.
LEMMA NextChannel ==
    ASSUME Channel, EchoInv, [EchoNext]_allVars
    PROVE  Channel'
<1>1. CASE UNCHANGED allVars \/ Ended
    BY <1>1 DEF allVars, Ended, Channel, repl, link
<1>2. CASE TesterStep
    BY <1>2, TesterChannel DEF EchoInv, RegistryInv
<1>3. CASE \E c \in Own : Reopen(c)
    BY <1>3, ReopenChannel DEF EchoInv, RegistryInv
<1> QED BY <1>1, <1>2, <1>3, ReaderChannel, BreakChannel, EcuChannel DEF EchoNext

\* The initial state.
LEMMA InitChannel == EchoInit => Channel /\ EchoInv
<1> SUFFICES ASSUME EchoInit PROVE Channel /\ EchoInv
    OBVIOUS
<1>1. EchoInv
    BY InitEcho DEF EchoInit
<1>2. /\ up = [c \in Own |-> <<>>] /\ sent = 0 /\ conn = None /\ cast \in Casts
      /\ arg = None /\ tester_addr = Home
    BY DEF EchoInit, T!TesterInit
<1>3. \A s \in cast.own : pc[s] = "new"
    BY <1>2, CastForm DEF EchoInit, Init
<1> QED BY <1>1, <1>2, <1>3, TesterAssumption DEF Channel

\* Beside the PC tester, whose connections break and are opened again and
\* whose lines may activate other addresses, no session is registered once it
\* has ended, unless it activated two addresses (register, unregister, run).
THEOREM TesterRegistered == EchoSpec => []RegistryInv
<1>1. EchoInit => Channel /\ EchoInv
    BY InitChannel
<1>2. Channel /\ EchoInv /\ [EchoNext]_allVars => (Channel /\ EchoInv)'
    BY NextChannel, EcuMaps, NextEcho
<1>3. EchoInv => RegistryInv
    BY DEF EchoInv
<1> QED BY <1>1, <1>2, <1>3, PTL DEF EchoSpec

-----------------------------------------------------------------------------
(* Tester and node stay in step.  What is under way on a connection        *)
(* changes in four ways: part of it is taken or lost, the reader moves an  *)
(* answer to the queue or sends an Alive Check Response, the node writes   *)
(* an Alive Check Request, or it answers the request at the head.          *)

\* p is a contiguous part of q.
Piece(p, q) ==
    \E k \in Nat : \A i \in DOMAIN p : i + k \in DOMAIN q /\ p[i] = q[i + k]

\* What is left of a sequence that is consumed, cut short or emptied.
LEMMA Pieces ==
    ASSUME NEW S, NEW q \in Seq(S)
    PROVE  /\ Piece(q, q)
           /\ Piece(<<>>, q)
           /\ \A n \in 0..Len(q) : /\ SubSeq(q, 1, n) \in Seq(S)
                                   /\ Piece(SubSeq(q, 1, n), q)
           /\ q # <<>> => Tail(q) \in Seq(S) /\ Piece(Tail(q), q)
<1>1. Piece(q, q)
    <2>1. \A i \in DOMAIN q : i + 0 \in DOMAIN q /\ q[i] = q[i + 0]
        OBVIOUS
    <2> QED BY <2>1 DEF Piece
<1>2. Piece(<<>>, q)
    <2>1. \A i \in DOMAIN <<>> : FALSE
        OBVIOUS
    <2> QED BY <2>1 DEF Piece
<1>3. ASSUME NEW n \in 0..Len(q)
      PROVE  SubSeq(q, 1, n) \in Seq(S) /\ Piece(SubSeq(q, 1, n), q)
    <2> DEFINE p == SubSeq(q, 1, n)
    <2>1. p \in Seq(S) /\ Len(p) = n /\ \A i \in 1..n : p[i] = q[i]
        BY <1>3
    <2> HIDE DEF p
    <2>2. \A i \in DOMAIN p : i + 0 \in DOMAIN q /\ p[i] = q[i + 0]
        BY <2>1
    <2> QED BY <2>1, <2>2 DEF Piece, p
<1>4. ASSUME q # <<>>
      PROVE  Tail(q) \in Seq(S) /\ Piece(Tail(q), q)
    <2> DEFINE p == Tail(q)
    <2>1. p \in Seq(S) /\ Len(p) = Len(q) - 1 /\ \A i \in 1..Len(p) : p[i] = q[i + 1]
        BY <1>4, HeadTailProperties
    <2> HIDE DEF p
    <2>2. \A i \in DOMAIN p : i + 1 \in DOMAIN q /\ p[i] = q[i + 1]
        BY <2>1
    <2> QED BY <2>1, <2>2 DEF Piece, p
<1> QED BY <1>1, <1>2, <1>3, <1>4

\* The channels of a connection are sequences, and so is the queue.
LEMMA Streams ==
    ASSUME T!TesterTypeOK, NEW c \in Own
    PROVE  /\ up[c] \in Seq(T!Requests)
           /\ down[c] \in Seq(T!Frames)
           /\ queue \in Seq(T!Frames)
BY DEF T!TesterTypeOK

\* Answers that are due come from the queue and from the connection.
LEMMA DueForm ==
    ASSUME NEW c \in Own, NEW f
    PROVE  f \in Due(c) <=> /\ IsAnswer(f)
                            /\ \/ \E i \in DOMAIN queue : f = queue[i]
                               \/ \E i \in DOMAIN down[c] : f = down[c][i]
BY DEF Due

\* When parts of what is under way are taken or lost, the rest is in turn.
LEMMA TurnPieces ==
    ASSUME NEW c \in Own, T!TesterTypeOK, T!TesterTypeOK', Turn(c),
           Piece(up'[c], up[c]), Piece(down'[c], down[c]), Piece(queue', queue),
           UNCHANGED <<tpc, job, cmd, sent>>
    PROVE  Turn(c)'
<1>1. PICK u \in Nat : \A i \in DOMAIN up'[c] :
         i + u \in DOMAIN up[c] /\ up'[c][i] = up[c][i + u]
    BY DEF Piece
<1>2. PICK d \in Nat : \A i \in DOMAIN down'[c] :
         i + d \in DOMAIN down[c] /\ down'[c][i] = down[c][i + d]
    BY DEF Piece
<1>3. PICK q \in Nat : \A i \in DOMAIN queue' :
         i + q \in DOMAIN queue /\ queue'[i] = queue[i + q]
    BY DEF Piece
<1>4. /\ DOMAIN up'[c] \subseteq Nat
      /\ DOMAIN down'[c] \subseteq Nat
      /\ DOMAIN queue' \subseteq Nat
    <2>1. /\ up'[c] \in Seq(T!Requests)
          /\ down'[c] \in Seq(T!Frames)
          /\ queue' \in Seq(T!Frames)
        BY DEF T!TesterTypeOK
    <2> QED BY <2>1
<1>5. Due(c)' \subseteq Due(c)
    BY <1>2, <1>3 DEF Due
<1>6. ASSUME NEW i \in DOMAIN up'[c], Asks(up'[c][i])
      PROVE  /\ tpc \in {"recv", "recv2"} /\ up'[c][i].no = sent
             /\ \A j \in DOMAIN up'[c] : Asks(up'[c][j]) => i = j
             /\ \A f \in Due(c)' : f.kind \in {"ack", "pending"} /\ up'[c][i].op = "reply"
    <2>1. i + u \in DOMAIN up[c] /\ up'[c][i] = up[c][i + u]
        BY <1>1
    <2>2. \A j \in DOMAIN up'[c] : Asks(up'[c][j]) => i + u = j + u
        BY <1>1, <1>6, <2>1 DEF Turn
    <2>3. \A j \in DOMAIN up'[c] : Asks(up'[c][j]) => i = j
        BY <1>4, <2>2
    <2> QED BY <1>5, <1>6, <2>1, <2>3 DEF Turn
<1>7. \A f \in Due(c)' : tpc \in {"recv", "recv2"} /\ f.no = sent
    BY <1>5 DEF Turn
<1>8. \A i, j \in DOMAIN queue' : i < j => Follows(queue'[i], queue'[j])
    <2> SUFFICES ASSUME NEW i \in DOMAIN queue', NEW j \in DOMAIN queue', i < j
                 PROVE  Follows(queue'[i], queue'[j])
        OBVIOUS
    <2>1. i + q < j + q
        BY <1>4
    <2> QED BY <1>3, <2>1 DEF Turn
<1>9. \A i, j \in DOMAIN down'[c] :
         i < j /\ IsAnswer(down'[c][i]) /\ IsAnswer(down'[c][j])
            => Follows(down'[c][i], down'[c][j])
    <2> SUFFICES ASSUME NEW i \in DOMAIN down'[c], NEW j \in DOMAIN down'[c], i < j,
                        IsAnswer(down'[c][i]), IsAnswer(down'[c][j])
                 PROVE  Follows(down'[c][i], down'[c][j])
        OBVIOUS
    <2>1. i + d < j + d
        BY <1>4
    <2> QED BY <1>2, <2>1 DEF Turn
<1>10. \A i \in DOMAIN queue', j \in DOMAIN down'[c] :
          IsAnswer(down'[c][j]) => Follows(queue'[i], down'[c][j])
    BY <1>2, <1>3 DEF Turn
<1>11. ~(tpc = "recv" /\ job = "command" /\ cmd = "diag") =>
          /\ \A f \in Due(c)' : f.kind # "ack"
          /\ \A i \in DOMAIN up'[c] : up'[c][i].op # "diag"
    BY <1>1, <1>5 DEF Turn
<1> QED BY <1>6, <1>7, <1>8, <1>9, <1>10, <1>11 DEF Turn, Asks, Follows, IsAnswer

\* What a sequence holds once an element is appended to it.
LEMMA Appended ==
    ASSUME NEW S, NEW q \in Seq(S), NEW x \in S
    PROVE  /\ DOMAIN Append(q, x) = 1..(Len(q) + 1)
           /\ DOMAIN q = 1..Len(q) /\ Len(q) \in Nat
           /\ \A i \in DOMAIN q : Append(q, x)[i] = q[i]
           /\ Append(q, x)[Len(q) + 1] = x
BY AppendProperties

\* The reader answers an Alive Check Request.
LEMMA TurnAlive ==
    ASSUME NEW c \in Own, T!TesterTypeOK, T!TesterTypeOK', Turn(c), NEW r \in T!Requests,
           r.op = "alive", up'[c] = Append(up[c], r),
           Piece(down'[c], down[c]), UNCHANGED <<tpc, job, cmd, sent, queue>>
    PROVE  Turn(c)'
<1>1. PICK d \in Nat : \A i \in DOMAIN down'[c] :
         i + d \in DOMAIN down[c] /\ down'[c][i] = down[c][i + d]
    BY DEF Piece
<1>2. down'[c] \in Seq(T!Frames)
    BY DEF T!TesterTypeOK
<1>3. Due(c)' \subseteq Due(c)
    BY <1>1 DEF Due
<1>4. \A i \in DOMAIN up'[c] : \/ i \in DOMAIN up[c] /\ up'[c][i] = up[c][i]
                               \/ up'[c][i].op = "alive"
    <2>1. up[c] \in Seq(T!Requests)
        BY Streams
    <2> QED BY <2>1, Appended
<1>5. \A i \in DOMAIN up'[c] :
         Asks(up'[c][i]) => i \in DOMAIN up[c] /\ up'[c][i] = up[c][i]
    BY <1>4 DEF Asks
<1>6. \A i \in DOMAIN up'[c] :
         Asks(up'[c][i]) =>
             /\ tpc \in {"recv", "recv2"} /\ up'[c][i].no = sent
             /\ \A j \in DOMAIN up'[c] : Asks(up'[c][j]) => i = j
             /\ \A f \in Due(c)' : f.kind \in {"ack", "pending"} /\ up'[c][i].op = "reply"
    BY <1>3, <1>5 DEF Turn
<1>7. \A i, j \in DOMAIN down'[c] :
         i < j /\ IsAnswer(down'[c][i]) /\ IsAnswer(down'[c][j])
            => Follows(down'[c][i], down'[c][j])
    <2> SUFFICES ASSUME NEW i \in DOMAIN down'[c], NEW j \in DOMAIN down'[c], i < j,
                        IsAnswer(down'[c][i]), IsAnswer(down'[c][j])
                 PROVE  Follows(down'[c][i], down'[c][j])
        OBVIOUS
    <2>1. i + d < j + d
        BY <1>2
    <2> QED BY <1>1, <2>1 DEF Turn
<1>8. \A i \in DOMAIN queue, j \in DOMAIN down'[c] :
         IsAnswer(down'[c][j]) => Follows(queue[i], down'[c][j])
    BY <1>1 DEF Turn
<1>9. ~(tpc = "recv" /\ job = "command" /\ cmd = "diag") =>
         /\ \A f \in Due(c)' : f.kind # "ack"
         /\ \A i \in DOMAIN up'[c] : up'[c][i].op # "diag"
    BY <1>3, <1>4 DEF Turn
<1> QED BY <1>3, <1>6, <1>7, <1>8, <1>9 DEF Turn

\* The reader queues an answer.
LEMMA TurnQueued ==
    ASSUME NEW c \in Own, T!TesterTypeOK, T!TesterTypeOK', Turn(c),
           down[c] # <<>>, IsAnswer(Head(down[c])),
           down'[c] = Tail(down[c]), queue' = Append(queue, Head(down[c])),
           up'[c] = up[c], UNCHANGED <<tpc, job, cmd, sent>>
    PROVE  Turn(c)'
<1>0. /\ \A i, j \in DOMAIN down[c] :
            i < j /\ IsAnswer(down[c][i]) /\ IsAnswer(down[c][j])
               => Follows(down[c][i], down[c][j])
      /\ \A i \in DOMAIN queue, j \in DOMAIN down[c] :
            IsAnswer(down[c][j]) => Follows(queue[i], down[c][j])
    BY DEF Turn
<1> DEFINE h == Head(down[c])
<1>1. /\ down[c] \in Seq(T!Frames) /\ queue \in Seq(T!Frames)
      /\ h \in T!Frames /\ 1 \in DOMAIN down[c] /\ h = down[c][1]
    BY Streams
<1>2. \A i \in DOMAIN down'[c] : /\ i \in Nat /\ i + 1 \in DOMAIN down[c] /\ 1 < i + 1
                                 /\ down'[c][i] = down[c][i + 1]
    BY <1>1, HeadTailProperties
<1>3. /\ \A i \in DOMAIN queue' : \/ i \in DOMAIN queue /\ queue'[i] = queue[i]
                                  \/ i = Len(queue) + 1 /\ queue'[i] = h
      /\ \A i \in DOMAIN queue : i <= Len(queue)
      /\ Len(queue) \in Nat /\ DOMAIN queue' \subseteq Nat
    BY <1>1, Appended
<1> HIDE DEF h
<1>4. Due(c)' \subseteq Due(c)
    <2> SUFFICES ASSUME NEW f \in Due(c)' PROVE f \in Due(c)
        OBVIOUS
    <2>1. IsAnswer(f) /\ \/ \E i \in DOMAIN queue' : f = queue'[i]
                         \/ \E i \in DOMAIN down'[c] : f = down'[c][i]
        BY DEF Due
    <2> QED BY <1>1, <1>2, <1>3, <2>1, DueForm
<1>5. \A i, j \in DOMAIN queue' : i < j => Follows(queue'[i], queue'[j])
    <2> SUFFICES ASSUME NEW i \in DOMAIN queue', NEW j \in DOMAIN queue', i < j
                 PROVE  Follows(queue'[i], queue'[j])
        OBVIOUS
    <2>1. i \in DOMAIN queue /\ queue'[i] = queue[i]
        <3>1. j <= Len(queue) + 1
            BY <1>3
        <3> QED BY <1>3, <3>1
    <2>2. CASE j \in DOMAIN queue /\ queue'[j] = queue[j]
        BY <2>1, <2>2 DEF Turn
    <2>3. CASE queue'[j] = h
        BY <1>1, <2>1, <2>3 DEF Turn, h
    <2> QED BY <1>3, <2>2, <2>3
<1>6. \A i, j \in DOMAIN down'[c] :
         i < j /\ IsAnswer(down'[c][i]) /\ IsAnswer(down'[c][j])
            => Follows(down'[c][i], down'[c][j])
    <2> SUFFICES ASSUME NEW i \in DOMAIN down'[c], NEW j \in DOMAIN down'[c], i < j,
                        IsAnswer(down'[c][i]), IsAnswer(down'[c][j])
                 PROVE  Follows(down'[c][i], down'[c][j])
        OBVIOUS
    <2>1. /\ i + 1 \in DOMAIN down[c] /\ down'[c][i] = down[c][i + 1]
          /\ j + 1 \in DOMAIN down[c] /\ down'[c][j] = down[c][j + 1]
          /\ i + 1 < j + 1
        BY <1>2
    <2> QED BY <1>0, <2>1
<1>7. \A i \in DOMAIN queue', j \in DOMAIN down'[c] :
         IsAnswer(down'[c][j]) => Follows(queue'[i], down'[c][j])
    <2> SUFFICES ASSUME NEW i \in DOMAIN queue', NEW j \in DOMAIN down'[c],
                        IsAnswer(down'[c][j])
                 PROVE  Follows(queue'[i], down'[c][j])
        OBVIOUS
    <2>1. j + 1 \in DOMAIN down[c] /\ 1 < j + 1 /\ down'[c][j] = down[c][j + 1]
        BY <1>2
    <2>2. CASE i \in DOMAIN queue /\ queue'[i] = queue[i]
        BY <2>1, <2>2 DEF Turn
    <2>3. CASE queue'[i] = h
        BY <1>0, <1>1, <2>1, <2>3 DEF h
    <2> QED BY <1>3, <2>2, <2>3
<1> QED BY <1>4, <1>5, <1>6, <1>7 DEF Turn

\* The node writes a frame g.  Every answer that was due before it goes first.
LEMMA TurnWritten ==
    ASSUME NEW c \in Own, T!TesterTypeOK, Turn(c), NEW g \in T!Frames,
           down'[c] = Append(down[c], g), UNCHANGED queue,
           IsAnswer(g) => \A f \in Due(c) : Follows(f, g)
    PROVE  /\ Due(c)' \subseteq Due(c) \cup {g}
           /\ ~IsAnswer(g) => Due(c)' \subseteq Due(c)
           /\ \A i, j \in DOMAIN queue' : i < j => Follows(queue'[i], queue'[j])
           /\ \A i, j \in DOMAIN down'[c] :
                 i < j /\ IsAnswer(down'[c][i]) /\ IsAnswer(down'[c][j])
                    => Follows(down'[c][i], down'[c][j])
           /\ (\A i \in DOMAIN queue : IsAnswer(queue[i])) =>
              \A i \in DOMAIN queue', j \in DOMAIN down'[c] :
                 IsAnswer(down'[c][j]) => Follows(queue'[i], down'[c][j])
<1>1. down[c] \in Seq(T!Frames)
    BY Streams
<1>2. /\ \A i \in DOMAIN down'[c] : \/ i \in DOMAIN down[c] /\ down'[c][i] = down[c][i]
                                    \/ i = Len(down[c]) + 1 /\ down'[c][i] = g
      /\ \A i \in DOMAIN down[c] : i <= Len(down[c])
      /\ Len(down[c]) \in Nat /\ DOMAIN down'[c] \subseteq Nat
    BY <1>1, Appended
<1>3. \A f \in Due(c)' : f \in Due(c) \/ (f = g /\ IsAnswer(g))
    <2> SUFFICES ASSUME NEW f \in Due(c)'
                 PROVE  f \in Due(c) \/ (f = g /\ IsAnswer(g))
        OBVIOUS
    <2>1. IsAnswer(f) /\ \/ \E i \in DOMAIN queue : f = queue[i]
                         \/ \E i \in DOMAIN down'[c] : f = down'[c][i]
        BY DEF Due
    <2> QED BY <1>2, <2>1, DueForm
<1>4. \A i, j \in DOMAIN down'[c] :
         i < j /\ IsAnswer(down'[c][i]) /\ IsAnswer(down'[c][j])
            => Follows(down'[c][i], down'[c][j])
    <2> SUFFICES ASSUME NEW i \in DOMAIN down'[c], NEW j \in DOMAIN down'[c], i < j,
                        IsAnswer(down'[c][i]), IsAnswer(down'[c][j])
                 PROVE  Follows(down'[c][i], down'[c][j])
        OBVIOUS
    <2>1. i \in DOMAIN down[c] /\ down'[c][i] = down[c][i]
        <3>1. j <= Len(down[c]) + 1
            BY <1>2
        <3> QED BY <1>2, <3>1
    <2>2. CASE j \in DOMAIN down[c] /\ down'[c][j] = down[c][j]
        BY <2>1, <2>2 DEF Turn
    <2>3. CASE down'[c][j] = g
        <3>1. down[c][i] \in Due(c)
            BY <2>1, DueForm
        <3> QED BY <2>1, <2>3, <3>1
    <2> QED BY <1>2, <2>2, <2>3
<1>5. ASSUME \A i \in DOMAIN queue : IsAnswer(queue[i]),
             NEW i \in DOMAIN queue', NEW j \in DOMAIN down'[c], IsAnswer(down'[c][j])
      PROVE  Follows(queue'[i], down'[c][j])
    <2>1. CASE j \in DOMAIN down[c] /\ down'[c][j] = down[c][j]
        BY <1>5, <2>1 DEF Turn
    <2>2. CASE down'[c][j] = g
        <3>1. queue[i] \in Due(c)
            BY <1>5, DueForm
        <3> QED BY <1>5, <2>2, <3>1
    <2> QED BY <1>2, <2>1, <2>2
<1>6. \A i, j \in DOMAIN queue' : i < j => Follows(queue'[i], queue'[j])
    BY DEF Turn
<1> QED BY <1>3, <1>4, <1>5, <1>6

\* The node writes an Alive Check Request.
LEMMA TurnProbed ==
    ASSUME NEW c \in Own, T!TesterTypeOK, Turn(c), NEW g \in T!Frames, ~IsAnswer(g),
           \A i \in DOMAIN queue : IsAnswer(queue[i]),
           down'[c] = Append(down[c], g), up'[c] = up[c],
           UNCHANGED <<tpc, job, cmd, sent, queue>>
    PROVE  Turn(c)'
<1>1. Due(c)' \subseteq Due(c)
    BY TurnWritten
<1>2. /\ \A i, j \in DOMAIN down'[c] :
            i < j /\ IsAnswer(down'[c][i]) /\ IsAnswer(down'[c][j])
               => Follows(down'[c][i], down'[c][j])
      /\ \A i \in DOMAIN queue', j \in DOMAIN down'[c] :
            IsAnswer(down'[c][j]) => Follows(queue'[i], down'[c][j])
    BY TurnWritten
<1> QED BY <1>1, <1>2 DEF Turn

\* The node answers the request at the head of up[c] with g: it takes the
\* request, or leaves the reply that follows an ACK or a ResponsePending.  A
\* Routing Activation that is granted gives the session its address.
Answers(c, g) ==
    /\ up[c] # <<>> /\ Asks(up[c][1])
    /\ g \in T!Frames /\ g.on = c /\ IsAnswer(g) /\ g.no = up[c][1].no
    /\ g.kind \in T!Activated <=> up[c][1].op = "activate"
    /\ addr'[c] = IF g.kind = "ra10" THEN up[c][1].addr ELSE addr[c]
    /\ \/ /\ up'[c] = Tail(up[c])
          /\ g.kind \notin {"ack", "pending"}
          /\ up[c][1].op = "reply" => g.kind = "uds"
       \/ /\ up'[c] = [up[c] EXCEPT ![1].op = "reply"]
          /\ up[c][1].op = "diag"
          /\ g.kind = "ack"
       \/ /\ up'[c] = up[c]
          /\ up[c][1].op = "reply"
          /\ g.kind = "pending"

\* What is left in the channel once a request is answered.
LEMMA AnsweredForm ==
    ASSUME NEW c \in Own, T!TesterTypeOK, NEW g, Answers(c, g),
           \A j \in DOMAIN up[c] : Asks(up[c][j]) => 1 = j
    PROVE  /\ 1 \in DOMAIN up[c]
           /\ \A i \in DOMAIN up'[c] : Asks(up'[c][i]) =>
                 /\ i = 1 /\ up'[c][i].op = "reply" /\ up'[c][i].no = up[c][1].no
                 /\ up[c][1].op \in {"diag", "reply"} /\ g.kind \in {"ack", "pending"}
<1>1. up[c] \in Seq(T!Requests) /\ 1 \in DOMAIN up[c]
    BY Streams DEF Answers
<1>2. CASE up'[c] = Tail(up[c])
    <2>1. \A i \in DOMAIN up'[c] : /\ i + 1 \in DOMAIN up[c] /\ i + 1 # 1
                                   /\ up'[c][i] = up[c][i + 1]
        BY <1>1, <1>2, HeadTailProperties
    <2> QED BY <1>1, <2>1
<1>3. CASE /\ up'[c] = [up[c] EXCEPT ![1].op = "reply"]
           /\ up[c][1].op = "diag" /\ g.kind = "ack"
    <2>1. /\ DOMAIN up'[c] = DOMAIN up[c]
          /\ \A i \in DOMAIN up[c] : i # 1 => up'[c][i] = up[c][i]
          /\ up'[c][1] = [up[c][1] EXCEPT !.op = "reply"]
        BY <1>1, <1>3
    <2>2. up'[c][1].op = "reply" /\ up'[c][1].no = up[c][1].no
        BY <1>1, <2>1 DEF T!Requests
    <2> QED BY <1>1, <1>3, <2>1, <2>2
<1>4. CASE up'[c] = up[c] /\ up[c][1].op = "reply" /\ g.kind = "pending"
    BY <1>1, <1>4
<1> QED BY <1>2, <1>3, <1>4 DEF Answers

\* A connection on which a request is answered is still in turn.
LEMMA TurnAnswered ==
    ASSUME NEW c \in Own, T!TesterTypeOK, T!TesterTypeOK', Turn(c),
           \A i \in DOMAIN queue : IsAnswer(queue[i]),
           NEW g, Answers(c, g), down'[c] = down[c] \/ down'[c] = Append(down[c], g),
           UNCHANGED <<tpc, job, cmd, sent, queue>>
    PROVE  Turn(c)'
<1>0. g \in T!Frames /\ IsAnswer(g) /\ Asks(up[c][1]) /\ g.no = up[c][1].no
    BY DEF Answers
<1>1. 1 \in DOMAIN up[c]
    BY Streams DEF Answers
<1>2. /\ tpc \in {"recv", "recv2"} /\ g.no = sent
      /\ \A j \in DOMAIN up[c] : Asks(up[c][j]) => 1 = j
      /\ \A f \in Due(c) : f.kind \in {"ack", "pending"} /\ up[c][1].op = "reply"
    BY <1>0, <1>1 DEF Turn
<1>3. \A f \in Due(c) : Follows(f, g)
    BY <1>2 DEF Follows, Answers
<1>4. /\ Due(c)' \subseteq Due(c) \cup {g}
      /\ \A i, j \in DOMAIN queue' : i < j => Follows(queue'[i], queue'[j])
      /\ \A i, j \in DOMAIN down'[c] :
            i < j /\ IsAnswer(down'[c][i]) /\ IsAnswer(down'[c][j])
               => Follows(down'[c][i], down'[c][j])
      /\ \A i \in DOMAIN queue', j \in DOMAIN down'[c] :
            IsAnswer(down'[c][j]) => Follows(queue'[i], down'[c][j])
    <2>1. CASE down'[c] = Append(down[c], g)
        BY <1>0, <1>3, <2>1, TurnWritten
    <2>2. CASE down'[c] = down[c]
        <3>1. Due(c)' = Due(c)
            BY <2>2 DEF Due
        <3> QED BY <2>2, <3>1 DEF Turn
    <2> QED BY <2>1, <2>2
<1>5. \A f \in Due(c)' : tpc \in {"recv", "recv2"} /\ f.no = sent
    BY <1>2, <1>4 DEF Turn
<1>6. \A i \in DOMAIN up'[c] : Asks(up'[c][i]) =>
         /\ i = 1 /\ up'[c][i].op = "reply" /\ up'[c][i].no = sent
         /\ g.kind \in {"ack", "pending"}
    BY <1>0, <1>2, AnsweredForm
<1>7. \A i \in DOMAIN up'[c] : Asks(up'[c][i]) =>
         /\ tpc \in {"recv", "recv2"} /\ up'[c][i].no = sent
         /\ \A j \in DOMAIN up'[c] : Asks(up'[c][j]) => i = j
         /\ \A f \in Due(c)' : f.kind \in {"ack", "pending"} /\ up'[c][i].op = "reply"
    BY <1>2, <1>4, <1>6
<1>8. ~(tpc = "recv" /\ job = "command" /\ cmd = "diag") =>
         /\ \A f \in Due(c)' : f.kind # "ack"
         /\ \A i \in DOMAIN up'[c] : up'[c][i].op # "diag"
    <2>1. \A i \in DOMAIN up'[c] : up'[c][i].op # "diag"
        BY <1>6 DEF Asks
    <2>2. up[c][1].op = "diag" => tpc = "recv" /\ job = "command" /\ cmd = "diag"
        BY <1>1 DEF Turn
    <2>3. g.kind = "ack" => up[c][1].op = "diag"
        BY DEF Answers
    <2> QED BY <1>4, <2>1, <2>2, <2>3 DEF Turn
<1> QED BY <1>4, <1>5, <1>7, <1>8 DEF Turn

\* Nothing but Alive Checks is under way on connection c.
Quiet(c) ==
    /\ Due(c) = {}
    /\ \A i \in DOMAIN up[c] : ~Asks(up[c][i])

\* It is quiet when no command waits, and in turn when it is quiet.
LEMMA TurnQuiet ==
    ASSUME NEW c \in Own, \A i \in DOMAIN queue : IsAnswer(queue[i])
    PROVE  /\ Turn(c) /\ tpc \notin {"recv", "recv2"} => Quiet(c)
           /\ Quiet(c) => Turn(c)
<1>1. Turn(c) /\ tpc \notin {"recv", "recv2"} => Quiet(c)
    BY DEF Turn, Quiet
<1>2. ASSUME Quiet(c) PROVE Turn(c)
    <2>1. /\ \A i \in DOMAIN queue : FALSE
          /\ \A i \in DOMAIN down[c] : ~IsAnswer(down[c][i])
        BY <1>2, DueForm DEF Quiet
    <2>2. \A i \in DOMAIN up[c] : up[c][i].op # "diag" /\ ~Asks(up[c][i])
        BY <1>2 DEF Quiet, Asks
    <2> QED BY <1>2, <2>1, <2>2 DEF Turn, Quiet
<1> QED BY <1>1, <1>2

\* A command takes its answer: after an ACK the connection is still in turn,
\* after any other answer but a ResponsePending it is quiet.
LEMMA TurnTaken ==
    ASSUME NEW c \in Own, T!TesterTypeOK, Turn(c), queue # <<>>,
           \A i \in DOMAIN queue : IsAnswer(queue[i]),
           queue' = Tail(queue), up'[c] = up[c], down'[c] = down[c]
    PROVE  /\ Head(queue).kind \notin {"ack", "pending"} => Quiet(c)'
           /\ /\ Head(queue).kind = "ack"
              /\ tpc = "recv" /\ tpc' = "recv2"
              /\ UNCHANGED <<job, cmd, sent>>
              => Turn(c)'
<1> DEFINE h == Head(queue)
<1>1. queue \in Seq(T!Frames) /\ 1 \in DOMAIN queue /\ h = queue[1]
    BY Streams
<1>2. \A i \in DOMAIN queue' : /\ i \in Nat /\ i + 1 \in DOMAIN queue /\ 1 < i + 1
                               /\ queue'[i] = queue[i + 1]
    BY <1>1, HeadTailProperties
<1> HIDE DEF h
<1>3. h \in Due(c)
    BY <1>1, DueForm
<1>4. \A f \in Due(c)' : Follows(h, f) /\ f \in Due(c)
    <2> SUFFICES ASSUME NEW f \in Due(c)' PROVE Follows(h, f) /\ f \in Due(c)
        OBVIOUS
    <2>1. IsAnswer(f) /\ \/ \E i \in DOMAIN queue' : f = queue'[i]
                         \/ \E i \in DOMAIN down[c] : f = down[c][i]
        BY DEF Due
    <2>2. /\ \A i, j \in DOMAIN queue : i < j => Follows(queue[i], queue[j])
          /\ \A i \in DOMAIN queue, j \in DOMAIN down[c] :
                IsAnswer(down[c][j]) => Follows(queue[i], down[c][j])
        BY DEF Turn
    <2> QED BY <1>1, <1>2, <2>1, <2>2, DueForm
<1>5. ASSUME h.kind \notin {"ack", "pending"} PROVE Quiet(c)'
    <2>1. Due(c)' = {}
        BY <1>4, <1>5 DEF Follows
    <2>2. \A i \in DOMAIN up[c] : ~Asks(up[c][i])
        BY <1>3, <1>5 DEF Turn
    <2> QED BY <2>1, <2>2 DEF Quiet
<1>6. ASSUME h.kind = "ack", tpc = "recv", tpc' = "recv2", UNCHANGED <<job, cmd, sent>>
      PROVE  Turn(c)'
    <2>1. \A f \in Due(c)' : f.kind \in {"pending", "uds"} /\ f.no = sent
        BY <1>4 DEF Follows, Turn
    <2>2. \A i \in DOMAIN up[c] :
             Asks(up[c][i]) => /\ up[c][i].no = sent
                               /\ \A j \in DOMAIN up[c] : Asks(up[c][j]) => i = j
                               /\ up[c][i].op = "reply"
                               /\ \A f \in Due(c) : f.kind \in {"ack", "pending"}
        BY <1>3 DEF Turn
    <2>3. \A i \in DOMAIN up[c] : up[c][i].op # "diag"
        BY <2>2 DEF Asks
    <2>4. \A i, j \in DOMAIN queue' : i < j => Follows(queue'[i], queue'[j])
        <3> SUFFICES ASSUME NEW i \in DOMAIN queue', NEW j \in DOMAIN queue', i < j
                     PROVE  Follows(queue'[i], queue'[j])
            OBVIOUS
        <3>1. /\ i + 1 \in DOMAIN queue /\ queue'[i] = queue[i + 1]
              /\ j + 1 \in DOMAIN queue /\ queue'[j] = queue[j + 1]
              /\ i + 1 < j + 1
            BY <1>2
        <3>2. \A k, l \in DOMAIN queue : k < l => Follows(queue[k], queue[l])
            BY DEF Turn
        <3> QED BY <3>1, <3>2
    <2>5. \A i \in DOMAIN queue', j \in DOMAIN down[c] :
             IsAnswer(down[c][j]) => Follows(queue'[i], down[c][j])
        <3>1. \A i \in DOMAIN queue, j \in DOMAIN down[c] :
                 IsAnswer(down[c][j]) => Follows(queue[i], down[c][j])
            BY DEF Turn
        <3> QED BY <1>2, <3>1
    <2>6. \A i, j \in DOMAIN down[c] :
             i < j /\ IsAnswer(down[c][i]) /\ IsAnswer(down[c][j])
                => Follows(down[c][i], down[c][j])
        BY DEF Turn
    <2>7. \A i \in DOMAIN up[c] :
             Asks(up[c][i]) => \A f \in Due(c)' : f.kind \in {"ack", "pending"}
        BY <1>4, <2>2
    <2> QED BY <1>6, <2>1, <2>2, <2>3, <2>4, <2>5, <2>6, <2>7 DEF Turn
<1> QED BY <1>5, <1>6 DEF h

\* What the node knows is kept while no answer and no request is added, and
\* the tester asks for the same.
LEMMA KnownKept ==
    ASSUME NEW c \in Own, Known(c), Due(c)' \subseteq Due(c),
           \A i \in DOMAIN up'[c] : \/ ~Asks(up'[c][i])
                                   \/ \E j \in DOMAIN up[c] : up'[c][i] = up[c][j],
           UNCHANGED <<Activating, T!Asked, tester_addr, act>>, addr'[c] = addr[c]
    PROVE  Known(c)'
<1>1. \A i \in DOMAIN up'[c] :
         /\ Asks(up'[c][i]) => (up'[c][i].op = "activate" <=> Activating)
         /\ up'[c][i].op = "activate" => /\ up'[c][i].addr = T!Asked
                                         /\ act => addr[c] = tester_addr
    <2> SUFFICES ASSUME NEW i \in DOMAIN up'[c], Asks(up'[c][i])
                 PROVE  /\ up'[c][i].op = "activate" <=> Activating
                        /\ up'[c][i].op = "activate" => /\ up'[c][i].addr = T!Asked
                                                        /\ act => addr[c] = tester_addr
        BY DEF Asks
    <2>1. PICK j \in DOMAIN up[c] : up'[c][i] = up[c][j]
        OBVIOUS
    <2> QED BY <2>1 DEF Known
<1>2. \A f \in Due(c)' :
         /\ f.kind \in T!Activated <=> Activating
         /\ f.kind = "ra10" => addr[c] = T!Asked
         /\ f.kind \in {"ra02", "ra03"} /\ act => addr[c] = tester_addr
    BY DEF Known
<1>3. act /\ ~Activating => addr[c] = tester_addr
    BY DEF Known
<1> QED BY <1>1, <1>2, <1>3 DEF Known, T!Activated

\* When a request is answered, the node knows what it granted.
LEMMA KnownAnswered ==
    ASSUME NEW c \in Own, T!TesterTypeOK, Turn(c), Known(c),
           \A i \in DOMAIN queue : IsAnswer(queue[i]),
           NEW g, Answers(c, g), down'[c] = down[c] \/ down'[c] = Append(down[c], g),
           UNCHANGED <<Activating, T!Asked, tester_addr, act, queue>>
    PROVE  Known(c)'
<1> DEFINE r == up[c][1]
<1>0. /\ g \in T!Frames /\ IsAnswer(g) /\ Asks(r)
      /\ g.kind \in T!Activated <=> r.op = "activate"
      /\ addr'[c] = IF g.kind = "ra10" THEN r.addr ELSE addr[c]
    BY DEF Answers
<1>1. 1 \in DOMAIN up[c]
    BY Streams DEF Answers
<1>2. /\ \A j \in DOMAIN up[c] : Asks(up[c][j]) => 1 = j
      /\ \A f \in Due(c) : f.kind \in {"ack", "pending"} /\ r.op = "reply"
    BY <1>0, <1>1 DEF Turn
<1>3. \A i \in DOMAIN up'[c] : Asks(up'[c][i]) =>
         /\ up'[c][i].op = "reply" /\ r.op \in {"diag", "reply"}
    BY <1>2, AnsweredForm
<1>4. \A f \in Due(c)' : f \in Due(c) \/ f = g
    <2>1. CASE down'[c] = Append(down[c], g)
        <3>1. \A f \in Due(c) : Follows(f, g)
            BY <1>2 DEF Follows, Answers
        <3> QED BY <1>0, <2>1, <3>1, TurnWritten
    <2>2. CASE down'[c] = down[c]
        BY <2>2 DEF Due
    <2> QED BY <2>1, <2>2
<1>5. /\ r.op = "activate" <=> Activating
      /\ r.op = "activate" => r.addr = T!Asked /\ (act => addr[c] = tester_addr)
      /\ act /\ ~Activating => addr[c] = tester_addr
    BY <1>0, <1>1 DEF Known
<1> HIDE DEF r
<1>6. \A f \in Due(c)' :
         /\ f.kind \in T!Activated <=> Activating
         /\ f.kind = "ra10" => addr'[c] = T!Asked
         /\ f.kind \in {"ra02", "ra03"} /\ act => addr'[c] = tester_addr
    <2> SUFFICES ASSUME NEW f \in Due(c)'
                 PROVE  /\ f.kind \in T!Activated <=> Activating
                        /\ f.kind = "ra10" => addr'[c] = T!Asked
                        /\ f.kind \in {"ra02", "ra03"} /\ act => addr'[c] = tester_addr
        OBVIOUS
    <2>1. CASE f = g
        BY <1>0, <1>5, <2>1 DEF T!Activated
    <2>2. CASE f \in Due(c)
        BY <1>2, <1>5, <2>2 DEF T!Activated
    <2> QED BY <1>4, <2>1, <2>2
<1>7. \A i \in DOMAIN up'[c] : /\ Asks(up'[c][i]) => up'[c][i].op # "activate" /\ ~Activating
                               /\ up'[c][i].op # "activate"
    BY <1>3, <1>5 DEF Asks
<1>8. act /\ ~Activating => addr'[c] = tester_addr
    BY <1>0, <1>5 DEF T!Activated
<1> QED BY <1>6, <1>7, <1>8 DEF Known, Asks, T!Activated

\* On a quiet connection the node knows the address of an activated tester.
LEMMA KnownQuiet ==
    ASSUME NEW c \in Own, Quiet(c), act /\ ~Activating => addr[c] = tester_addr
    PROVE  Known(c)
BY DEF Quiet, Known, Asks

-----------------------------------------------------------------------------
(* The steps of the tester.                                                *)

\* The initial state.
LEMMA InitStep == EchoInit => StepInv
<1> SUFFICES ASSUME EchoInit PROVE StepInv
    OBVIOUS
<1>1. /\ tpc \in {"absent", "start"} /\ conn = None /\ queue = <<>> /\ act = FALSE
      /\ job = "initial"
      /\ rdr = [c \in Own |-> "none"]
      /\ up = [c \in Own |-> <<>>] /\ down = [c \in Own |-> <<>>]
      /\ cast \in Casts
    BY DEF EchoInit, T!TesterInit
<1>2. /\ pc = [s \in Sessions |-> "new"] /\ addr = [s \in Sessions |-> None]
      /\ registry = [a \in Addr |-> None]
    BY DEF EchoInit, Init
<1>3. T!TesterTypeOK
    <2>1. 0 \in 0..Attempts /\ 0 \in 0..MaxTyped /\ 0 \in Nat
        BY TesterAssumption
    <2>2. <<>> \in Seq(T!Requests) /\ <<>> \in Seq(T!Frames)
        BY EmptySeq
    <2>3. up \in [Own -> Seq(T!Requests)] /\ down \in [Own -> Seq(T!Frames)]
        BY <1>1, <2>2
    <2>4. {act, closed, late} \subseteq BOOLEAN
        BY DEF EchoInit, T!TesterInit
    <2>5. arg \in Addr \cup {None} /\ tester_addr \in T!Addresses
        BY DEF EchoInit, T!TesterInit, T!Addresses
    <2> QED BY <1>1, <2>1, <2>2, <2>3, <2>4, <2>5
               DEF EchoInit, T!TesterInit, T!TesterTypeOK
<1>4. cast.own \subseteq Own /\ cast.own \subseteq Sessions
    BY <1>1, CastForm
<1>5. \A c \in Own : up[c] = <<>> /\ down[c] = <<>> /\ rdr[c] = "none"
    BY <1>1
<1>6. None \notin Own
    BY TesterAssumption, ConstantsAssumption
<1>7. LinkInv
    BY <1>1, <1>5 DEF LinkInv
<1>8. SessionInv
    BY <1>1, <1>2, <1>4, <1>5 DEF SessionInv
<1> QED BY <1>1, <1>3, <1>6, <1>7, <1>8 DEF StepInv

\* The tester has closed its connection: nothing of it is left in the queue,
\* and its reader has ended.
LEMMA HangUp ==
    ASSUME Channel, StepInv, T!Disconnect, UNCHANGED <<up, vars, cast>>,
           tpc' \in {"connect", "exit"}, job' \in {"initial", "reconnect"},
           cmd' \in T!Ops \cup {"none"}, left' \in 0..Attempts,
           arg' \in Addr \cup {None}, tester_addr' \in Addr,
           typed' \in 0..MaxTyped, sent' \in Nat, late' \in BOOLEAN
    PROVE  StepInv'
<1>1. /\ conn' = None /\ act' = FALSE /\ queue' = <<>>
      /\ gone' = gone \cup ({conn} \ {None})
      /\ down' = [c \in Own |-> IF c = conn THEN <<>> ELSE down[c]]
      /\ rdr' = [c \in Own |-> IF c = conn THEN "ended" ELSE rdr[c]]
      /\ closed' = (closed \/ conn # None)
    BY DEF T!Disconnect
<1>2. T!TesterTypeOK
    BY DEF StepInv
<1>3. T!TesterTypeOK'
    <2>1. down' \in [Own -> Seq(T!Frames)]
        <3>1. <<>> \in Seq(T!Frames) /\ down \in [Own -> Seq(T!Frames)]
            BY <1>2, EmptySeq DEF T!TesterTypeOK
        <3> QED BY <1>1, <3>1
    <2>2. rdr' \in [Own -> {"none", "reading", "ended"}]
        BY <1>1, <1>2 DEF T!TesterTypeOK
    <2>3. gone' \subseteq Own /\ up' \in [Own -> Seq(T!Requests)]
        BY <1>1, <1>2 DEF T!TesterTypeOK
    <2>4. queue' \in Seq(T!Frames)
        BY <1>1, EmptySeq
    <2>5. closed' \in BOOLEAN /\ act' \in BOOLEAN
        BY <1>1
    <2> QED BY <1>1, <2>1, <2>2, <2>3, <2>4, <2>5 DEF T!TesterTypeOK, T!Addresses
<1>4. None \notin Own /\ cast.own \subseteq Own
    BY TesterAssumption, ConstantsAssumption, CastForm DEF Channel
<1>5. \A c \in Own : /\ down'[c] = <<>> \/ down'[c] = down[c]
                     /\ rdr'[c] = IF c = conn THEN "ended" ELSE rdr[c]
    BY <1>1
<1>6. LinkInv'
    BY <1>1, <1>5 DEF StepInv, LinkInv
<1>7. SessionInv'
    <2>1. UNCHANGED <<pc, want, registry, cast, up>>
        BY DEF vars
    <2>2. conn \in cast.own => rdr[conn] # "none"
        BY <1>4 DEF StepInv, LinkInv
    <2> QED BY <1>1, <1>4, <1>5, <2>1, <2>2 DEF StepInv, SessionInv
<1> QED BY <1>1, <1>3, <1>4, <1>6, <1>7 DEF StepInv

\* The process ends.
LEMMA ExitStep ==
    ASSUME Channel, StepInv, T!Exit, UNCHANGED <<up, vars, cast>>
    PROVE  StepInv'
<1>1. 0 \in 0..Attempts /\ 0 \in 0..MaxTyped /\ 0 \in Nat
    BY TesterAssumption
<1> QED BY <1>1, HangUp, TesterAssumption DEF T!Exit

\* A lost connection is opened again, or given up.
LEMMA LostStep ==
    ASSUME Channel, StepInv, T!ConnectionLost, UNCHANGED <<vars, cast>>
    PROVE  StepInv'
<1>1. CASE T!Exit
    BY <1>1, ExitStep DEF T!ConnectionLost
<1>2. CASE /\ left > 1 /\ T!Disconnect /\ tpc' = "connect"
           /\ job' = "reconnect" /\ left' = left - 1
           /\ UNCHANGED <<cmd, arg, tester_addr, typed, sent, late>>
    <2>1. /\ cmd \in T!Ops \cup {"none"} /\ left \in 0..Attempts
          /\ typed \in 0..MaxTyped /\ sent \in Nat /\ late \in BOOLEAN
        BY DEF StepInv, T!TesterTypeOK
    <2>2. left' \in 0..Attempts
        BY <1>2, <2>1, TesterAssumption
    <2>3. arg \in Addr \cup {None} /\ tester_addr \in Addr
        BY DEF Channel
    <2> QED BY <1>2, <2>1, <2>2, <2>3, HangUp DEF T!ConnectionLost
<1> QED BY <1>1, <1>2 DEF T!ConnectionLost

\* A step that keeps the connection, and that sends or takes at most.
LEMMA OpenStep ==
    ASSUME Channel, StepInv, conn # None,
           UNCHANGED <<conn, rdr, closed, gone, down, cast, vars>>,
           tpc' \in {"input", "run", "recv", "recv2"},
           tpc' \in {"input", "run", "recv2"} => job' = "command",
           tpc' = "recv2" => cmd' = "diag",
           job' \in {"initial", "reconnect", "command"},
           arg' \in Addr \cup {None}, tester_addr' \in Addr,
           cmd' \in T!Ops \cup {"none"}, left' \in 0..Attempts,
           typed' \in 0..MaxTyped, sent' \in Nat,
           act' \in BOOLEAN, late' \in BOOLEAN,
           queue' \in Seq(T!Frames), Piece(queue', queue),
           up' \in [Own -> Seq(T!Requests)],
           \A c \in Own : c # conn => up'[c] = up[c],
           \A c \in Own : up[c] # <<>> => up'[c] # <<>> /\ Head(up'[c]) = Head(up[c]),
           \A c \in Own : conn = c /\ ~late' => Turn(c)' /\ Known(c)'
    PROVE  StepInv'
<1>1. T!TesterTypeOK'
    BY DEF StepInv, T!TesterTypeOK, T!Addresses
<1>2. PICK q \in Nat : \A i \in DOMAIN queue' :
         i + q \in DOMAIN queue /\ queue'[i] = queue[i + q]
    BY DEF Piece
<1>3. UNCHANGED <<pc, want, registry>>
    BY DEF vars
<1>4. cast.own \subseteq Own
    BY CastForm DEF Channel
<1>5. LinkInv'
    <2>1. \A i \in DOMAIN queue' : queue'[i].on = conn /\ IsAnswer(queue'[i])
        BY <1>2 DEF StepInv, LinkInv
    <2>2. ASSUME NEW c \in Own
          PROVE  /\ rdr[c] = "reading" => c = conn
                 /\ rdr[c] = "none" => up'[c] = <<>> /\ down[c] = <<>>
                 /\ \A i \in DOMAIN down[c] : down[c][i].on = c
        BY DEF StepInv, LinkInv
    <2>3. rdr[conn] # "none"
        BY DEF StepInv, LinkInv
    <2> QED BY <2>1, <2>2, <2>3 DEF LinkInv
<1>6. SessionInv'
    <2>1. ASSUME NEW c \in cast.own
          PROVE  /\ rdr[c] = "none" => pc[c] = "new"
                 /\ pc[c] = "probing" => /\ up'[c] # <<>> /\ Head(up'[c]).op = "activate"
                                         /\ want[c] = Head(up'[c]).addr
        BY <1>4 DEF StepInv, SessionInv
    <2>2. \A a \in Addr : registry[a] # None => pc[registry[a]] # "new"
        BY DEF StepInv, SessionInv
    <2> QED BY <1>3, <2>1, <2>2 DEF SessionInv
<1> QED BY <1>1, <1>5, <1>6 DEF StepInv

\* The tester writes behind what it wrote before.
LEMMA SentForm ==
    ASSUME Channel, NEW k, NEW op \in T!Ops, NEW n \in Nat, T!Transmit(k, op, n)
    PROVE  \A c \in Own :
              /\ \/ up'[c] = up[c]
                 \/ c = k /\ up'[c] = Append(up[c], [op |-> op, addr |-> T!Asked, no |-> n])
              /\ up[c] # <<>> => up'[c] # <<>> /\ Head(up'[c]) = Head(up[c])
<1> DEFINE r == [op |-> op, addr |-> T!Asked, no |-> n]
<1>0. T!Asked \in Addr
    BY DEF T!Asked, Channel
<1>1. r \in T!Requests
    BY <1>0, RequestForm
<1>2. up \in [Own -> Seq(T!Requests)]
    BY DEF Channel
<1>3. up' = up \/ up' = [up EXCEPT ![k] = Append(up[k], r)]
    BY DEF T!Transmit
<1> HIDE DEF r
<1>4. \A c \in Own : up[c] # <<>> => /\ Append(up[c], r) # <<>>
                                     /\ Head(Append(up[c], r)) = Head(up[c])
    BY <1>1, <1>2
<1>5. \A c \in Own : up'[c] = up[c] \/ (c = k /\ up'[c] = Append(up[c], r))
    BY <1>2, <1>3
<1> QED BY <1>4, <1>5 DEF r

\* In the next state too, a quiet connection is in turn and known.
LEMMA QuietAfter ==
    ASSUME NEW c \in Own
    PROVE  /\ ((\A i \in DOMAIN queue : IsAnswer(queue[i])) /\ Quiet(c) => Turn(c))'
           /\ (Quiet(c) /\ (act /\ ~Activating => addr[c] = tester_addr) => Known(c))'
<1>1. (\A i \in DOMAIN queue : IsAnswer(queue[i])) /\ Quiet(c) => Turn(c)
    BY TurnQuiet
<1>2. Quiet(c) /\ (act /\ ~Activating => addr[c] = tester_addr) => Known(c)
    BY KnownQuiet
<1> QED BY <1>1, <1>2, PTL

\* The tester writes to a quiet connection: the request of a command takes the
\* turn, an Alive Check Response does not.
LEMMA TurnSent ==
    ASSUME NEW c \in Own, T!TesterTypeOK, Quiet(c), NEW r \in T!Requests,
           \A i \in DOMAIN queue : IsAnswer(queue[i]),
           up'[c] = up[c] \/ up'[c] = Append(up[c], r),
           down'[c] = down[c], UNCHANGED queue
    PROVE  /\ r.op = "alive" => Quiet(c)'
           /\ /\ tpc' = "recv" /\ sent' = r.no
              /\ r.op = "diag" => job' = "command" /\ cmd' = "diag"
              => Turn(c)'
           /\ /\ r.op # "alive"
              /\ r.op = "activate" <=> Activating'
              /\ r.op = "activate" => r.addr = T!Asked'
              /\ act' => addr'[c] = tester_addr'
              => Known(c)'
<1>1. Due(c)' = {}
    BY DEF Due, Quiet
<1>2. up[c] \in Seq(T!Requests)
    BY Streams
<1>3. CASE up'[c] = up[c]
    <2>1. Quiet(c)'
        BY <1>1, <1>3 DEF Quiet
    <2> QED BY <2>1, QuietAfter
<1>4. CASE up'[c] = Append(up[c], r)
    <2>1. \A i \in DOMAIN up'[c] :
             \/ i \in DOMAIN up[c] /\ up'[c][i] = up[c][i]
             \/ i = Len(up[c]) + 1 /\ up'[c][i] = r
        BY <1>2, <1>4, Appended
    <2>2. ASSUME r.op = "alive" PROVE Quiet(c)'
        BY <1>1, <2>1, <2>2 DEF Quiet, Asks
    <2>3. \A i \in DOMAIN up'[c] :
             Asks(up'[c][i]) => i = Len(up[c]) + 1 /\ up'[c][i] = r
        BY <2>1 DEF Quiet
    <2>4. ASSUME tpc' = "recv", sent' = r.no,
                 r.op = "diag" => job' = "command" /\ cmd' = "diag"
          PROVE  Turn(c)'
        <3>1. \A i \in DOMAIN up'[c] : up'[c][i].op = "diag" => r.op = "diag"
            BY <2>3 DEF Asks
        <3>2. \A i \in DOMAIN queue : FALSE
            BY DueForm DEF Quiet
        <3>3. \A i \in DOMAIN down[c] : ~IsAnswer(down[c][i])
            BY DueForm DEF Quiet
        <3> QED BY <1>1, <2>3, <2>4, <3>1, <3>2, <3>3 DEF Turn
    <2>5. ASSUME r.op # "alive", r.op = "activate" <=> Activating',
                 r.op = "activate" => r.addr = T!Asked',
                 act' => addr'[c] = tester_addr'
          PROVE  Known(c)'
        <3>1. \A i \in DOMAIN up'[c] :
                 /\ Asks(up'[c][i]) => up'[c][i] = r
                 /\ up'[c][i].op = "activate" => up'[c][i] = r
            BY <2>3 DEF Asks
        <3> QED BY <1>1, <2>5, <3>1 DEF Known
    <2> QED BY <2>2, <2>4, <2>5
<1> QED BY <1>3, <1>4

\* A new connection.
LEMMA ConnectStep ==
    ASSUME Channel, TypeOK, StepInv, NEW c \in cast.own, T!Connect(c), Connect(c),
           UNCHANGED cast, sent' \in Nat, up' \in [Own -> Seq(T!Requests)]
    PROVE  StepInv'
<1>0. /\ tpc \in {"start", "connect"} /\ rdr[c] = "none" /\ conn' = c
      /\ closed' = FALSE /\ queue' = <<>> /\ late' = FALSE
      /\ rdr' = [rdr EXCEPT ![c] = "reading"]
      /\ UNCHANGED <<cmd, arg, tester_addr, left, typed, act, down, gone>>
    BY DEF T!Connect
<1>1. /\ c \in Own /\ c \in Sessions /\ cast.own \subseteq Own
      /\ cast.own \subseteq Sessions /\ None \notin Own
    BY CastForm, TesterAssumption, ConstantsAssumption DEF Channel
<1>2. /\ conn = None /\ queue = <<>> /\ up[c] = <<>> /\ down[c] = <<>> /\ act = FALSE
    <2>1. conn = None /\ queue = <<>> /\ up[c] = <<>> /\ down[c] = <<>>
        BY <1>0, <1>1 DEF StepInv, LinkInv
    <2>2. act \in BOOLEAN /\ (act => conn # None)
        BY DEF StepInv, SessionInv, T!TesterTypeOK
    <2> QED BY <2>1, <2>2
<1>3. \/ tpc' = "recv" /\ T!Transmit(c, "activate", 1) /\ job' = job
      \/ tpc' = "input" /\ job' = "command" /\ up' = up
    BY DEF T!Connect
<1>4. \A d \in Own : /\ \/ up'[d] = up[d]
                        \/ /\ d = c
                           /\ up'[d] = Append(up[d], [op |-> "activate",
                                                      addr |-> T!Asked, no |-> 1])
                     /\ up[d] # <<>> => up'[d] # <<>> /\ Head(up'[d]) = Head(up[d])
    BY <1>3, SentForm DEF T!Ops
<1>5. T!TesterTypeOK'
    <2>1. rdr' \in [Own -> {"none", "reading", "ended"}]
        BY <1>0 DEF StepInv, T!TesterTypeOK
    <2>2. /\ tpc' \in {"recv", "input"} /\ job' \in {"initial", "reconnect", "command"}
          /\ queue' \in Seq(T!Frames) /\ closed' \in BOOLEAN /\ late' \in BOOLEAN
        BY <1>0, <1>3, EmptySeq DEF StepInv, T!TesterTypeOK
    <2> QED BY <1>0, <1>1, <2>1, <2>2 DEF StepInv, T!TesterTypeOK
<1>6. \A d \in Own : rdr'[d] = IF d = c THEN "reading" ELSE rdr[d]
    BY <1>0, <1>1 DEF StepInv, T!TesterTypeOK
<1>7. LinkInv'
    <2>1. \A d \in Own : /\ rdr'[d] = "reading" => d = c
                         /\ rdr'[d] = "none" => up'[d] = <<>> /\ down[d] = <<>>
                         /\ \A i \in DOMAIN down[d] : down[d][i].on = d
        BY <1>1, <1>2, <1>4, <1>6 DEF StepInv, LinkInv
    <2> QED BY <1>0, <1>1, <1>3, <1>6, <2>1 DEF LinkInv
<1>8. /\ \A s \in Sessions : pc'[s] = IF s = c THEN "idle" ELSE pc[s]
      /\ UNCHANGED <<want, registry>>
    BY <1>1 DEF Connect, Goto, TypeOK
<1>9. SessionInv'
    <2>1. \A a \in Addr : registry[a] # None => pc'[registry[a]] # "new"
        <3>1. \A a \in Addr : registry[a] # None => registry[a] \in Sessions
            BY DEF TypeOK, Maybe
        <3> QED BY <1>8, <3>1 DEF StepInv, SessionInv
    <2>2. ASSUME NEW d \in cast.own
          PROVE  /\ rdr'[d] = "none" => pc'[d] = "new"
                 /\ pc'[d] = "probing" => /\ up'[d] # <<>>
                                          /\ Head(up'[d]).op = "activate"
                                          /\ want[d] = Head(up'[d]).addr
        BY <1>1, <1>4, <1>6, <1>8 DEF StepInv, SessionInv
    <2> QED BY <1>0, <1>2, <1>8, <2>1, <2>2 DEF SessionInv
<1>10. Turn(c)' /\ Known(c)'
    <2>1. Quiet(c)
        BY <1>2 DEF Quiet, Due
    <2>2. CASE up'[c] = up[c]
        <3>1. Quiet(c)'
            BY <1>0, <1>2, <2>2 DEF Quiet, Due
        <3> QED BY <1>0, <1>1, <1>2, <3>1, QuietAfter
    <2>3. CASE up'[c] # up[c]
        <3> DEFINE r == [op |-> "activate", addr |-> T!Asked, no |-> 1]
        <3>0. T!Asked \in Addr
            BY DEF T!Asked, Channel
        <3>1. r \in T!Requests
            BY <3>0, RequestForm DEF T!Ops
        <3>2. up'[c] = Append(up[c], r) /\ tpc' = "recv" /\ sent' = r.no /\ job' = job
            BY <1>1, <1>3, <1>4, <2>3 DEF T!Transmit
        <3>3. r.op = "activate" /\ r.addr = T!Asked
            OBVIOUS
        <3>4. job # "command"
            BY <1>0 DEF StepInv, LinkInv
        <3>5. Activating' /\ T!Asked' = T!Asked /\ act' = FALSE
            BY <1>0, <1>2, <3>2, <3>4 DEF Activating, T!Asked
        <3> HIDE DEF r
        <3>6. T!TesterTypeOK /\ down'[c] = down[c] /\ UNCHANGED queue
              /\ \A i \in DOMAIN queue : IsAnswer(queue[i])
            BY <1>0, <1>2 DEF StepInv
        <3> QED BY <1>1, <2>1, <3>1, <3>2, <3>3, <3>5, <3>6, TurnSent
    <2> QED BY <2>2, <2>3
<1> QED BY <1>0, <1>5, <1>7, <1>9, <1>10 DEF StepInv

\* Between two commands nothing but Alive Checks is under way, and the node
\* knows the address of an activated tester.
LEMMA Settled ==
    ASSUME StepInv, tpc \in {"input", "run"}, NEW c \in Own, conn = c, ~late
    PROVE  Quiet(c) /\ (act => addr[c] = tester_addr)
<1>1. Turn(c) /\ Known(c) /\ \A i \in DOMAIN queue : IsAnswer(queue[i])
    BY DEF StepInv, LinkInv
<1>2. Quiet(c)
    BY <1>1, TurnQuiet
<1> QED BY <1>1, <1>2 DEF Known, Activating

\* The connection of a command, and the types of what it changes.
LEMMA InCommand ==
    ASSUME Channel, StepInv, tpc \in {"input", "run", "recv", "recv2"}
    PROVE  /\ conn # None /\ conn \in Own
           /\ job \in {"initial", "reconnect", "command"}
           /\ cmd \in T!Ops \cup {"none"} /\ left \in 0..Attempts
           /\ typed \in 0..MaxTyped /\ sent \in Nat
           /\ act \in BOOLEAN /\ late \in BOOLEAN
           /\ arg \in Addr \cup {None} /\ tester_addr \in Addr /\ T!Asked \in Addr
           /\ up \in [Own -> Seq(T!Requests)] /\ queue \in Seq(T!Frames)
           /\ \A i \in DOMAIN queue : IsAnswer(queue[i])
           /\ \A c \in Own : up[c] \in Seq(T!Requests)
<1>1. conn # None /\ \A i \in DOMAIN queue : IsAnswer(queue[i])
    BY DEF StepInv, LinkInv
<1>2. T!TesterTypeOK
    BY DEF StepInv
<1>3. act \in BOOLEAN /\ late \in BOOLEAN
    BY <1>2 DEF T!TesterTypeOK
<1>4. arg \in Addr \cup {None} /\ tester_addr \in Addr /\ T!Asked \in Addr
    BY DEF Channel, T!Asked
<1> QED BY <1>1, <1>2, <1>3, <1>4 DEF T!TesterTypeOK

\* A line is typed.
LEMMA TypeStep ==
    ASSUME Channel, StepInv, NEW op \in T!Ops, NEW a \in Addr \cup {None}, T!Type(op, a),
           UNCHANGED <<vars, cast>>
    PROVE  StepInv'
<1>1. /\ tpc = "input" /\ typed < MaxTyped /\ cmd' = op /\ typed' = typed + 1
      /\ left' = Attempts /\ tpc' = "run" /\ arg' = a
      /\ UNCHANGED <<job, tester_addr, act, sent, late, conn, rdr, queue, closed, up, down, gone>>
    BY DEF T!Type, T!link
<1>2. \A c \in Own : conn = c /\ ~late => Turn(c)' /\ Known(c)'
    <2> SUFFICES ASSUME NEW c \in Own, conn = c, ~late PROVE Turn(c)' /\ Known(c)'
        OBVIOUS
    <2>1. Quiet(c) /\ (act => addr[c] = tester_addr)
        BY <1>1, Settled
    <2>2. Quiet(c)' /\ addr' = addr
        BY <1>1, <2>1 DEF Quiet, Due, vars
    <2> QED BY <1>1, <2>1, <2>2, InCommand, QuietAfter
<1>3. typed' \in 0..MaxTyped /\ left' \in 0..Attempts
    BY <1>1, InCommand, TesterAssumption
<1>4. job = "command"
    BY <1>1 DEF StepInv, LinkInv
<1>5. Piece(queue, queue)
    BY <1>1, InCommand, Pieces
<1> QED BY <1>1, <1>2, <1>3, <1>4, <1>5, InCommand, OpenStep

\* An attempt of a command.
LEMMA RunStep ==
    ASSUME Channel, StepInv, T!Run, UNCHANGED <<vars, cast>>,
           sent' \in Nat, up' \in [Own -> Seq(T!Requests)]
    PROVE  StepInv'
<1>1. tpc = "run" /\ job = "command"
    BY DEF T!Run, StepInv, LinkInv
<1>2. Piece(queue, queue) /\ 0 \in 0..Attempts /\ T!TesterTypeOK
    BY <1>1, InCommand, Pieces, TesterAssumption DEF StepInv
<1>3. CASE T!Prompt /\ UNCHANGED <<tester_addr, act, sent, late, queue, up>>
    <2>1. /\ tpc' = "input" /\ job' = "command" /\ cmd' = "none" /\ left' = 0
          /\ arg' = None
          /\ UNCHANGED <<typed, conn, rdr, closed, gone, down>>
        BY <1>3 DEF T!Prompt
    <2>2. \A c \in Own : conn = c /\ ~late => Turn(c)' /\ Known(c)'
        <3> SUFFICES ASSUME NEW c \in Own, conn = c, ~late PROVE Turn(c)' /\ Known(c)'
            OBVIOUS
        <3>1. Quiet(c) /\ (act => addr[c] = tester_addr)
            BY <1>1, Settled
        <3>2. Quiet(c)' /\ addr' = addr
            BY <1>3, <2>1, <3>1 DEF Quiet, Due, vars
        <3> QED BY <1>1, <1>3, <3>1, <3>2, InCommand, QuietAfter
    <2> QED BY <1>1, <1>2, <1>3, <2>1, <2>2, InCommand, OpenStep
<1>4. CASE /\ T!Prompt /\ T!Transmit(conn, "alive", sent)
           /\ UNCHANGED <<tester_addr, act, late, queue>>
    <2>1. /\ tpc' = "input" /\ job' = "command" /\ cmd' = "none" /\ left' = 0
          /\ arg' = None
          /\ UNCHANGED <<typed, conn, rdr, closed, gone, down>>
        BY <1>4 DEF T!Prompt
    <2> DEFINE r == [op |-> "alive", addr |-> T!Asked, no |-> sent]
    <2>2. r \in T!Requests /\ r.op = "alive"
        BY <1>1, InCommand, RequestForm DEF T!Ops
    <2>3. \A c \in Own :
             /\ up'[c] = up[c] \/ (c = conn /\ up'[c] = Append(up[c], r))
             /\ up[c] # <<>> => up'[c] # <<>> /\ Head(up'[c]) = Head(up[c])
        BY <1>1, <1>4, InCommand, SentForm DEF T!Ops
    <2> HIDE DEF r
    <2>4. \A c \in Own : conn = c /\ ~late => Turn(c)' /\ Known(c)'
        <3> SUFFICES ASSUME NEW c \in Own, conn = c, ~late PROVE Turn(c)' /\ Known(c)'
            OBVIOUS
        <3>1. Quiet(c) /\ (act => addr[c] = tester_addr)
            BY <1>1, Settled
        <3>2. \A i \in DOMAIN queue : IsAnswer(queue[i])
            BY <1>1, InCommand
        <3>3. Quiet(c)' /\ addr' = addr
            BY <1>2, <1>4, <2>1, <2>2, <2>3, <3>1, <3>2, TurnSent DEF vars
        <3> QED BY <1>4, <3>1, <3>2, <3>3, QuietAfter
    <2> QED BY <1>1, <1>2, <1>4, <2>1, <2>3, <2>4, InCommand, OpenStep
<1>5. CASE /\ cmd \in {"activate", "info", "diag"}
           /\ T!Transmit(conn, cmd, sent + 1)
           /\ tpc' = "recv"
           /\ UNCHANGED <<job, cmd, arg, tester_addr, left, typed, act, late, conn,
                          rdr, queue, closed, down, gone>>
    <2> DEFINE r == [op |-> cmd, addr |-> T!Asked, no |-> sent + 1]
    <2>1. sent + 1 \in Nat /\ cmd \in T!Ops
        BY <1>1, <1>5, InCommand DEF T!Ops
    <2>2. r \in T!Requests /\ r.op = cmd /\ r.no = sent + 1 /\ r.addr = T!Asked
        BY <1>1, <2>1, InCommand, RequestForm
    <2>3. \A c \in Own :
             /\ up'[c] = up[c] \/ (c = conn /\ up'[c] = Append(up[c], r))
             /\ up[c] # <<>> => up'[c] # <<>> /\ Head(up'[c]) = Head(up[c])
        BY <1>5, <2>1, SentForm
    <2> HIDE DEF r
    <2>4. sent' = sent + 1
        BY <1>5 DEF T!Transmit
    <2>5. \A c \in Own : conn = c /\ ~late => Turn(c)' /\ Known(c)'
        <3> SUFFICES ASSUME NEW c \in Own, conn = c, ~late PROVE Turn(c)' /\ Known(c)'
            OBVIOUS
        <3>1. Quiet(c) /\ (act => addr[c] = tester_addr)
            BY <1>1, Settled
        <3>2. \A i \in DOMAIN queue : IsAnswer(queue[i])
            BY <1>1, InCommand
        <3>3. T!Asked' = T!Asked /\ (Activating' <=> cmd = "activate")
            BY <1>1, <1>5 DEF T!Asked, Activating
        <3>4. UNCHANGED <<act, addr, tester_addr>>
            BY <1>5 DEF vars
        <3>5. Turn(c)'
            BY <1>1, <1>2, <1>5, <2>2, <2>3, <2>4, <3>1, <3>2, TurnSent
        <3>6. r.op # "alive" /\ (up'[c] = up[c] \/ up'[c] = Append(up[c], r))
            BY <1>5, <2>2, <2>3
        <3>7. Known(c)'
            BY <1>2, <1>5, <2>2, <3>1, <3>2, <3>3, <3>4, <3>6, TurnSent
        <3> QED BY <3>5, <3>7
    <2> QED BY <1>1, <1>2, <1>5, <2>3, <2>5, InCommand, OpenStep
<1>6. CASE T!ConnectionLost
    BY <1>6, LostStep
<1> QED BY <1>3, <1>4, <1>5, <1>6 DEF T!Run

\* What is left of the queue once its oldest frame is taken.
LEMMA TakenForm ==
    ASSUME Channel, StepInv, tpc \in {"recv", "recv2"}, queue # <<>>
    PROVE  /\ Tail(queue) \in Seq(T!Frames) /\ Piece(Tail(queue), queue)
           /\ \A i \in DOMAIN Tail(queue) : IsAnswer(Tail(queue)[i])
           /\ 1 \in DOMAIN queue /\ Head(queue) = queue[1]
<1>1. queue \in Seq(T!Frames) /\ \A i \in DOMAIN queue : IsAnswer(queue[i])
    BY InCommand
<1>2. Tail(queue) \in Seq(T!Frames) /\ Piece(Tail(queue), queue)
    BY <1>1, Pieces
<1>3. \A i \in DOMAIN Tail(queue) : IsAnswer(Tail(queue)[i])
    BY <1>1, <1>2 DEF Piece
<1>4. 1 \in DOMAIN queue /\ Head(queue) = queue[1]
    BY <1>1
<1> QED BY <1>2, <1>3, <1>4

\* A command takes its answer.
LEMMA TakeStep ==
    ASSUME Channel, StepInv, T!Take, UNCHANGED <<vars, cast>>
    PROVE  StepInv'
<1>1. tpc \in {"recv", "recv2"} /\ queue # <<>> /\ UNCHANGED up
    BY DEF T!Take
<1>2. 0 \in 0..Attempts /\ T!TesterTypeOK
    BY TesterAssumption DEF StepInv
<1>3. ASSUME queue' = Tail(queue),
             UNCHANGED <<conn, rdr, closed, gone, down, typed, sent>>,
             tpc' \in {"input", "run"}, job' = "command", cmd' \in {cmd, "none"},
             arg' \in {arg, None}, tester_addr' \in Addr, left' \in {left, 0},
             act' \in BOOLEAN, late' \in BOOLEAN, ~late' => ~late,
             Head(queue).kind = "pending" => late',
             Head(queue).kind = "ack" => ~(tpc = "recv" /\ job = "command" /\ cmd = "diag"),
             \A c \in Own : Known(c) /\ Head(queue) \in Due(c) /\ act'
                               => addr[c] = tester_addr'
      PROVE  StepInv'
    <2>1. \A c \in Own : conn = c /\ ~late' => Turn(c)' /\ Known(c)'
        <3> SUFFICES ASSUME NEW c \in Own, conn = c, ~late' PROVE Turn(c)' /\ Known(c)'
            OBVIOUS
        <3>1. Turn(c) /\ Known(c) /\ \A i \in DOMAIN queue : IsAnswer(queue[i])
            BY <1>1, <1>3, InCommand DEF StepInv
        <3>2. Head(queue) \in Due(c)
            BY <1>1, <3>1, TakenForm, DueForm
        <3>3. Head(queue).kind \notin {"ack", "pending"}
            BY <1>3, <3>1, <3>2 DEF Turn
        <3>4. Quiet(c)'
            BY <1>1, <1>2, <1>3, <3>1, <3>3, TurnTaken
        <3>5. act' => addr'[c] = tester_addr'
            BY <1>3, <3>1, <3>2 DEF vars
        <3>6. \A i \in DOMAIN queue' : IsAnswer(queue'[i])
            BY <1>1, <1>3, TakenForm
        <3> QED BY <3>4, <3>5, <3>6, QuietAfter
    <2>2. \A c \in Own : up'[c] = up[c]
        BY <1>1
    <2>3. /\ cmd' \in T!Ops \cup {"none"} /\ left' \in 0..Attempts
          /\ arg' \in Addr \cup {None} /\ conn # None /\ typed' \in 0..MaxTyped
          /\ sent' \in Nat /\ up' \in [Own -> Seq(T!Requests)]
        BY <1>1, <1>2, <1>3, InCommand
    <2>4. queue' \in Seq(T!Frames) /\ Piece(queue', queue)
        BY <1>1, <1>3, TakenForm
    <2> QED BY <1>1, <1>3, <2>1, <2>2, <2>3, <2>4, OpenStep
<1>4. CASE job # "command" \/ cmd = "activate"
    <2>0. /\ late \in BOOLEAN /\ T!Asked \in Addr /\ tester_addr \in Addr /\ act \in BOOLEAN
          /\ tpc = "recv"
        BY <1>1, <1>4, InCommand DEF StepInv, LinkInv
    <2>1. T!Activation(Head(queue))
        BY <1>4 DEF T!Take
    <2>2. CASE Head(queue).kind = "ra10" /\ job = "reconnect"
        <3>1. /\ act' = TRUE /\ tpc' = "run" /\ job' = "command" /\ queue' = Tail(queue)
              /\ UNCHANGED <<cmd, arg, tester_addr, left, typed, sent, late, conn,
                             rdr, closed, gone, down>>
            BY <2>1, <2>2 DEF T!Activation
        <3>2. \A c \in Own : Known(c) /\ Head(queue) \in Due(c) => addr[c] = tester_addr
            BY <2>2 DEF Known, T!Asked
        <3> QED BY <1>3, <2>0, <2>2, <3>1, <3>2
    <2>3. CASE /\ ~(Head(queue).kind = "ra10" /\ job = "reconnect")
               /\ Head(queue).kind = "ra10" \/ job = "command"
        <3>1. /\ T!Prompt /\ act' = (act \/ Head(queue).kind = "ra10")
              /\ tester_addr' = IF Head(queue).kind = "ra10" THEN T!Asked ELSE tester_addr
              /\ late' = (late \/ Head(queue).kind = "pending")
              /\ queue' = Tail(queue) /\ UNCHANGED sent
            BY <2>1, <2>3 DEF T!Activation
        <3>2. act' \in BOOLEAN /\ late' \in BOOLEAN /\ tester_addr' \in Addr
            BY <2>0, <3>1
        <3>3. \A c \in Own : Known(c) /\ Head(queue) \in Due(c) /\ act'
                               => addr[c] = tester_addr'
            <4> SUFFICES ASSUME NEW c \in Own, Known(c), Head(queue) \in Due(c), act'
                         PROVE  addr[c] = tester_addr'
                OBVIOUS
            <4>1. Activating
                BY <1>4, <2>0 DEF Activating
            <4>2. /\ Head(queue).kind \in T!Activated
                  /\ Head(queue).kind = "ra10" => addr[c] = T!Asked
                  /\ Head(queue).kind \in {"ra02", "ra03"} /\ act => addr[c] = tester_addr
                BY <4>1 DEF Known
            <4> QED BY <3>1, <4>2 DEF T!Activated
        <3>4. /\ tpc' = "input" /\ job' = "command" /\ cmd' = "none" /\ left' = 0
              /\ arg' = None /\ UNCHANGED <<typed, conn, rdr, closed, gone, down>>
            BY <3>1 DEF T!Prompt
        <3>5. ~(tpc = "recv" /\ job = "command" /\ cmd = "diag")
            BY <1>4
        <3>6. (~late' => ~late) /\ (Head(queue).kind = "pending" => late')
            BY <3>1
        <3>7. queue' = Tail(queue) /\ UNCHANGED sent
            BY <3>1
        <3> QED BY <1>3, <3>2, <3>3, <3>4, <3>5, <3>6, <3>7
    <2>4. CASE T!Exit
        BY <1>1, <2>4, ExitStep
    <2> QED BY <2>1, <2>2, <2>3, <2>4 DEF T!Activation
<1>5. CASE job = "command" /\ cmd # "activate"
    <2>0. /\ late \in BOOLEAN /\ tester_addr \in Addr /\ act \in BOOLEAN
          /\ ~Activating
        BY <1>1, <1>5, InCommand DEF Activating
    <2>1. queue' = Tail(queue) /\ UNCHANGED <<tester_addr, act, sent>>
        BY <1>5 DEF T!Take
    <2>2. CASE ~(tpc = "recv" /\ cmd = "diag" /\ Head(queue).kind = "ack")
        <3>1. T!Prompt /\ late' = (late \/ Head(queue).kind = "pending")
            BY <1>5, <2>2 DEF T!Take
        <3>2. \A c \in Own : Known(c) /\ act => addr[c] = tester_addr
            BY <2>0 DEF Known
        <3>3. /\ tpc' = "input" /\ job' = "command" /\ cmd' = "none" /\ left' = 0
              /\ arg' = None /\ UNCHANGED <<typed, conn, rdr, closed, gone, down>>
            BY <3>1 DEF T!Prompt
        <3>4. /\ late' \in BOOLEAN /\ (~late' => ~late)
              /\ (Head(queue).kind = "pending" => late')
            BY <3>1
        <3> QED BY <1>3, <2>0, <2>1, <2>2, <3>2, <3>3, <3>4
    <2>3. CASE tpc = "recv" /\ cmd = "diag" /\ Head(queue).kind = "ack"
        <3>1. tpc' = "recv2" /\ UNCHANGED <<job, cmd, arg, left, typed, late, conn, rdr,
                                            closed, gone, down>>
            BY <1>5, <2>3 DEF T!Take
        <3>2. \A c \in Own : conn = c /\ ~late => Turn(c)' /\ Known(c)'
            <4> SUFFICES ASSUME NEW c \in Own, conn = c, ~late PROVE Turn(c)' /\ Known(c)'
                OBVIOUS
            <4>1. Turn(c) /\ Known(c) /\ \A i \in DOMAIN queue : IsAnswer(queue[i])
                BY <1>1, InCommand DEF StepInv
            <4>2. Turn(c)'
                BY <1>1, <1>2, <2>1, <2>3, <3>1, <4>1, TurnTaken
            <4>3. Due(c)' \subseteq Due(c)
                <5>1. Piece(queue', queue)
                    BY <1>1, <2>1, TakenForm
                <5>2. \A i \in DOMAIN queue' : \E j \in DOMAIN queue : queue'[i] = queue[j]
                    BY <5>1 DEF Piece
                <5> QED BY <3>1, <5>2 DEF Due
            <4>4. UNCHANGED <<Activating, T!Asked, tester_addr, act>> /\ addr'[c] = addr[c]
                BY <1>5, <2>1, <2>3, <3>1 DEF Activating, T!Asked, vars
            <4>5. \A i \in DOMAIN up'[c] : \E j \in DOMAIN up[c] : up'[c][i] = up[c][j]
                BY <1>1
            <4>6. Known(c)'
                BY <4>1, <4>3, <4>4, <4>5, KnownKept
            <4> QED BY <4>2, <4>6
        <3>3. \A c \in Own : up'[c] = up[c]
            BY <1>1
        <3> QED BY <1>1, <1>5, <2>1, <2>3, <3>1, <3>2, <3>3, InCommand, TakenForm, OpenStep
    <2> QED BY <2>2, <2>3
<1> QED BY <1>4, <1>5

\* A wait expires.
LEMMA TimeoutStep ==
    ASSUME Channel, StepInv, T!RecvTimeout, UNCHANGED <<vars, cast>>
    PROVE  StepInv'
<1>1. tpc \in {"recv", "recv2"}
    BY DEF T!RecvTimeout
<1>2. CASE T!ConnectionLost
    BY <1>2, LostStep
<1>3. CASE T!Exit /\ UNCHANGED up
    BY <1>3, ExitStep
<1>4. CASE T!Prompt /\ late' = TRUE /\ UNCHANGED <<tester_addr, act, sent, queue, up>>
    <2>1. Piece(queue, queue) /\ 0 \in 0..Attempts
        BY <1>1, InCommand, Pieces, TesterAssumption
    <2>2. /\ tpc' = "input" /\ job' = "command" /\ cmd' = "none" /\ left' = 0
          /\ arg' = None /\ UNCHANGED <<typed, conn, rdr, closed, gone, down>>
        BY <1>4 DEF T!Prompt
    <2> QED BY <1>1, <1>4, <2>1, <2>2, InCommand, OpenStep
<1> QED BY <1>2, <1>3, <1>4 DEF T!RecvTimeout

\* Every step of the tester.
LEMMA TesterStepInv ==
    ASSUME Channel, TypeOK, StepInv, TesterStep
    PROVE  StepInv'
<1>1. UNCHANGED cast /\ sent' \in Nat /\ up' \in [Own -> Seq(T!Requests)]
    BY TesterChannel DEF TesterStep, Channel
<1>2. CASE \E c \in cast.own : T!Connect(c) /\ Connect(c)
    BY <1>1, <1>2, ConnectStep
<1>3. CASE UNCHANGED vars /\ (T!ConnectFails \/ T!Quit)
    BY <1>1, <1>3, ExitStep DEF T!ConnectFails, T!Quit
<1>4. CASE UNCHANGED vars /\ (T!Run \/ T!Take \/ T!RecvTimeout)
    BY <1>1, <1>4, RunStep, TakeStep, TimeoutStep
<1>5. CASE UNCHANGED vars /\ \E op \in T!Ops, a \in cast.addrs \cup {None} : T!Type(op, a)
    <2>1. PICK op \in T!Ops, a \in Addr \cup {None} : T!Type(op, a)
        BY <1>5, CastForm DEF Channel
    <2> QED BY <1>1, <1>5, <2>1, TypeStep
<1> QED BY <1>2, <1>3, <1>4, <1>5 DEF TesterStep, T!Progress

-----------------------------------------------------------------------------
(* The steps of the reader and of the network.                             *)

\* A step that changes what is under way on the present connection, and leaves
\* the tester's task and the sessions of the node as they are.
LEMMA CarryStep ==
    ASSUME Channel, StepInv, NEW c \in Own, c = conn,
           UNCHANGED <<repl, conn, gone, cast, vars>>,
           closed' \in BOOLEAN, rdr' \in [Own -> {"none", "reading", "ended"}],
           \A d \in Own : rdr'[d] = rdr[d] \/ (d = c /\ rdr'[d] = "ended"),
           \A d \in Own : d # c => up'[d] = up[d] /\ down'[d] = down[d],
           up' \in [Own -> Seq(T!Requests)], down' \in [Own -> Seq(T!Frames)],
           queue' \in Seq(T!Frames),
           pc[c] = "probing" => up'[c] # <<>> /\ Head(up'[c]) = Head(up[c]),
           \A i \in DOMAIN down'[c] : \E j \in DOMAIN down[c] : down'[c][i] = down[c][j],
           \A i \in DOMAIN queue' :
              /\ IsAnswer(queue'[i])
              /\ \/ \E j \in DOMAIN queue : queue'[i] = queue[j]
                 \/ \E j \in DOMAIN down[c] : queue'[i] = down[c][j],
           ~late /\ Turn(c) /\ Known(c) => Turn(c)' /\ Known(c)'
    PROVE  StepInv'
<1>0. cast.own \subseteq Own /\ None \notin Own /\ conn # None /\ rdr[c] # "none"
      /\ c \in cast.own
    BY CastForm, TesterAssumption, ConstantsAssumption DEF Channel, StepInv, LinkInv
<1>1. T!TesterTypeOK'
    BY DEF StepInv, T!TesterTypeOK, repl
<1>2. /\ \A j \in DOMAIN queue : queue[j].on = c
      /\ \A j \in DOMAIN down[c] : down[c][j].on = c
    BY <1>0 DEF StepInv, LinkInv
<1>3. \A i \in DOMAIN down'[c] : down'[c][i].on = c
    <2> SUFFICES ASSUME NEW i \in DOMAIN down'[c] PROVE down'[c][i].on = c
        OBVIOUS
    <2>1. PICK j \in DOMAIN down[c] : down'[c][i] = down[c][j]
        OBVIOUS
    <2> QED BY <1>2, <2>1
<1>4. LinkInv'
    <2>1. \A i \in DOMAIN queue' : queue'[i].on = conn /\ IsAnswer(queue'[i])
        <3> SUFFICES ASSUME NEW i \in DOMAIN queue' PROVE queue'[i].on = c
            OBVIOUS
        <3>1. \/ \E j \in DOMAIN queue : queue'[i] = queue[j]
              \/ \E j \in DOMAIN down[c] : queue'[i] = down[c][j]
            OBVIOUS
        <3> QED BY <1>2, <3>1
    <2>2. ASSUME NEW d \in Own
          PROVE  /\ rdr'[d] = "reading" => d = conn
                 /\ rdr'[d] = "none" => up'[d] = <<>> /\ down'[d] = <<>>
                 /\ \A i \in DOMAIN down'[d] : down'[d][i].on = d
        <3>1. CASE d = c
            BY <1>0, <1>3, <3>1
        <3>2. CASE d # c
            <4>1. rdr'[d] = rdr[d] /\ up'[d] = up[d] /\ down'[d] = down[d]
                BY <3>2
            <4> QED BY <4>1 DEF StepInv, LinkInv
        <3> QED BY <3>1, <3>2
    <2>3. rdr'[conn] # "none"
        BY <1>0
    <2>4. conn = None <=> tpc \in {"absent", "start", "connect", "exit"}
        BY DEF StepInv, LinkInv
    <2>5. /\ tpc \in {"input", "run", "recv2"} => job = "command"
          /\ tpc \in {"start", "connect"} => job # "command"
          /\ tpc = "recv2" => cmd = "diag"
        BY DEF StepInv, LinkInv
    <2>6. UNCHANGED <<tpc, job, cmd, conn>>
        BY DEF repl
    <2> QED BY <1>0, <2>1, <2>2, <2>3, <2>4, <2>5, <2>6 DEF LinkInv
<1>5. SessionInv'
    <2>1. UNCHANGED <<pc, want, registry, act>>
        BY DEF vars, repl
    <2>2. ASSUME NEW d \in cast.own
          PROVE  /\ rdr'[d] = "none" => pc[d] = "new"
                 /\ pc[d] = "probing" => /\ up'[d] # <<>> /\ Head(up'[d]).op = "activate"
                                         /\ want[d] = Head(up'[d]).addr
        <3>1. /\ rdr[d] = "none" => pc[d] = "new"
              /\ pc[d] = "probing" => /\ up[d] # <<>> /\ Head(up[d]).op = "activate"
                                      /\ want[d] = Head(up[d]).addr
            BY DEF StepInv, SessionInv
        <3>2. CASE d = c
            BY <1>0, <3>1, <3>2
        <3>3. CASE d # c
            BY <1>0, <3>1, <3>3
        <3> QED BY <3>2, <3>3
    <2>3. /\ \A a \in Addr : registry[a] # None => pc[registry[a]] # "new"
          /\ act => conn # None
        BY DEF StepInv, SessionInv
    <2> QED BY <2>1, <2>2, <2>3 DEF SessionInv
<1>6. \A d \in Own : conn = d /\ ~late => Turn(d)' /\ Known(d)'
    BY DEF StepInv
<1> QED BY <1>1, <1>4, <1>5, <1>6 DEF StepInv, repl

\* While the tester's task stands still, it asks for the same.
LEMMA SameAsked ==
    ASSUME UNCHANGED <<repl, vars>>
    PROVE  /\ UNCHANGED <<Activating, T!Asked, tester_addr, act, tpc, job, cmd, sent>>
           /\ addr' = addr
<1>1. UNCHANGED <<tpc, job, cmd, arg, tester_addr, act, sent, addr>>
    BY DEF repl, vars
<1>2. UNCHANGED Activating
    BY <1>1 DEF Activating
<1>3. UNCHANGED T!Asked
    BY <1>1 DEF T!Asked
<1> QED BY <1>1, <1>2, <1>3

\* Appending keeps the head.
LEMMA HeadKept ==
    ASSUME NEW S, NEW q \in Seq(S), NEW x \in S
    PROVE  /\ Append(q, x) \in Seq(S)
           /\ q # <<>> => Append(q, x) # <<>> /\ Head(Append(q, x)) = Head(q)
OBVIOUS

\* The background reader.
LEMMA ReaderStepInv ==
    ASSUME Channel, StepInv, NEW c \in Own, ReaderStep(c)
    PROVE  StepInv'
<1>0. /\ T!TesterTypeOK
      /\ rdr[c] = "reading" /\ c = conn
      /\ UNCHANGED <<repl, conn, gone, cast, vars>>
      /\ \A i \in DOMAIN queue : IsAnswer(queue[i])
    BY DEF StepInv, LinkInv, ReaderStep, T!Reader, T!ReaderTakes, T!ReaderEnds, T!repl, repl
<1>1. /\ up[c] \in Seq(T!Requests) /\ down[c] \in Seq(T!Frames) /\ queue \in Seq(T!Frames)
      /\ up \in [Own -> Seq(T!Requests)] /\ down \in [Own -> Seq(T!Frames)]
      /\ rdr \in [Own -> {"none", "reading", "ended"}]
    BY <1>0 DEF T!TesterTypeOK
<1>2. closed \in BOOLEAN
    BY <1>0 DEF T!TesterTypeOK
<1>3. pc[c] = "probing" => up[c] # <<>>
    BY <1>0, TesterAssumption, ConstantsAssumption DEF Channel
<1>4. CASE T!ReaderEnds(c)
    <2>1. /\ rdr' = [rdr EXCEPT ![c] = "ended"] /\ closed' = TRUE
          /\ UNCHANGED <<queue, up, down>>
        BY <1>4 DEF T!ReaderEnds
    <2>2. Due(c)' = Due(c) /\ UNCHANGED <<tpc, job, cmd, sent>>
        BY <1>0, <2>1 DEF Due, repl
    <2>3. Turn(c) => Turn(c)'
        BY <2>1, <2>2 DEF Turn
    <2>4. Known(c) => Known(c)'
        BY <1>0, <2>1, <2>2, SameAsked, KnownKept
    <2> QED BY <1>0, <1>1, <1>3, <2>1, <2>3, <2>4, CarryStep
<1>5. CASE T!ReaderTakes(c)
    <2>1. /\ down[c] # <<>> /\ down' = [down EXCEPT ![c] = Tail(down[c])]
          /\ UNCHANGED <<rdr, closed>>
        BY <1>5 DEF T!ReaderTakes
    <2>2. /\ Tail(down[c]) \in Seq(T!Frames) /\ Piece(Tail(down[c]), down[c])
          /\ Head(down[c]) \in T!Frames /\ 1 \in DOMAIN down[c]
          /\ Head(down[c]) = down[c][1]
        BY <1>1, <2>1, Pieces
    <2>3. /\ down' \in [Own -> Seq(T!Frames)] /\ down'[c] = Tail(down[c])
          /\ \A d \in Own : d # c => down'[d] = down[d]
        BY <1>1, <2>1, <2>2
    <2>4. \A i \in DOMAIN down'[c] : \E j \in DOMAIN down[c] : down'[c][i] = down[c][j]
        BY <2>2, <2>3 DEF Piece
    <2>5. CASE Head(down[c]).kind = "aliveReq"
        <3> DEFINE r == [op |-> "alive", addr |-> tester_addr, no |-> 0]
        <3>1. up' = [up EXCEPT ![c] = Append(up[c], r)] /\ UNCHANGED queue
            BY <1>5, <2>5 DEF T!ReaderTakes
        <3>2. r \in T!Requests /\ r.op = "alive"
            BY RequestForm DEF T!Ops, Channel
        <3> HIDE DEF r
        <3>3. /\ Append(up[c], r) \in Seq(T!Requests)
              /\ up[c] # <<>> => /\ Append(up[c], r) # <<>>
                                 /\ Head(Append(up[c], r)) = Head(up[c])
            BY <1>1, <3>2, HeadKept
        <3>4. /\ up' \in [Own -> Seq(T!Requests)] /\ up'[c] = Append(up[c], r)
              /\ \A d \in Own : d # c => up'[d] = up[d]
            BY <1>1, <3>1, <3>3
        <3>5. T!TesterTypeOK'
            BY <1>0, <2>1, <2>3, <3>1, <3>4 DEF T!TesterTypeOK, repl
        <3>6. Turn(c) => Turn(c)'
            <4>1. UNCHANGED <<tpc, job, cmd, sent>>
                BY <1>0 DEF repl
            <4> QED BY <1>0, <2>2, <2>3, <3>1, <3>2, <3>4, <3>5, <4>1, TurnAlive
        <3>8. Known(c) => Known(c)'
            <4>1. Due(c)' \subseteq Due(c)
                BY <2>4, <3>1 DEF Due
            <4>2. \A i \in DOMAIN up'[c] : \/ ~Asks(up'[c][i])
                                            \/ \E j \in DOMAIN up[c] : up'[c][i] = up[c][j]
                BY <1>1, <3>2, <3>4, Appended DEF Asks
            <4> QED BY <1>0, <4>1, <4>2, SameAsked, KnownKept
        <3>7. pc[c] = "probing" => up'[c] # <<>> /\ Head(up'[c]) = Head(up[c])
            BY <1>3, <3>3, <3>4
        <3> QED BY <1>0, <1>1, <1>2, <2>1, <2>3, <2>4, <3>1, <3>4, <3>6, <3>7, <3>8, CarryStep
    <2>6. CASE Head(down[c]).kind # "aliveReq"
        <3>1. queue' = Append(queue, Head(down[c])) /\ UNCHANGED up
            BY <1>5, <2>6 DEF T!ReaderTakes
        <3>2. IsAnswer(Head(down[c]))
            BY <2>6 DEF IsAnswer
        <3>3. queue' \in Seq(T!Frames)
            BY <1>1, <2>2, <3>1
        <3>4. \A i \in DOMAIN queue' :
                 \/ i \in DOMAIN queue /\ queue'[i] = queue[i]
                 \/ queue'[i] = down[c][1]
            BY <1>1, <2>2, <3>1, Appended
        <3>5. T!TesterTypeOK'
            BY <1>0, <2>1, <2>3, <3>1, <3>3 DEF T!TesterTypeOK, repl
        <3>6. Turn(c) => Turn(c)'
            <4>1. UNCHANGED <<tpc, job, cmd, sent>>
                BY <1>0 DEF repl
            <4> QED BY <1>0, <2>1, <2>3, <3>1, <3>2, <3>5, <4>1, TurnQueued
        <3>7. \A i \in DOMAIN queue' :
                 /\ IsAnswer(queue'[i])
                 /\ \/ \E j \in DOMAIN queue : queue'[i] = queue[j]
                    \/ \E j \in DOMAIN down[c] : queue'[i] = down[c][j]
            BY <1>0, <2>2, <3>2, <3>4
        <3>8. \A d \in Own : up'[d] = up[d] /\ rdr'[d] = rdr[d]
            BY <2>1, <3>1
        <3>9. Known(c) => Known(c)'
            <4>1. Due(c)' \subseteq Due(c)
                <5>1. \A i \in DOMAIN queue' : \/ \E j \in DOMAIN queue : queue'[i] = queue[j]
                                               \/ \E j \in DOMAIN down[c] : queue'[i] = down[c][j]
                    BY <3>7
                <5> QED BY <2>4, <5>1 DEF Due
            <4> QED BY <1>0, <3>8, <4>1, SameAsked, KnownKept
        <3> QED BY <1>0, <1>1, <1>2, <1>3, <2>1, <2>3, <2>4, <3>1, <3>3, <3>6, <3>7, <3>8,
                   <3>9, CarryStep
    <2> QED BY <2>5, <2>6
<1> QED BY <1>4, <1>5 DEF ReaderStep, T!Reader

\* The network loses the connection.
LEMMA BreakStepInv ==
    ASSUME Channel, StepInv, NEW c \in Own, Break(c)
    PROVE  StepInv'
<1>0. /\ T!TesterTypeOK /\ c = conn
      /\ UNCHANGED <<repl, conn, gone, cast, vars, rdr, queue, closed>>
      /\ \A i \in DOMAIN queue : IsAnswer(queue[i])
    BY DEF StepInv, LinkInv, Break, repl
<1>1. /\ up[c] \in Seq(T!Requests) /\ down[c] \in Seq(T!Frames) /\ queue \in Seq(T!Frames)
      /\ up \in [Own -> Seq(T!Requests)] /\ down \in [Own -> Seq(T!Frames)]
      /\ rdr \in [Own -> {"none", "reading", "ended"}]
    BY <1>0 DEF T!TesterTypeOK
<1>2. closed \in BOOLEAN
    BY <1>0 DEF T!TesterTypeOK
<1>3. pc[c] = "probing" => up[c] # <<>>
    BY <1>0, TesterAssumption, ConstantsAssumption DEF Channel
<1>4. PICK n \in 0..Len(down[c]) : down' = [down EXCEPT ![c] = SubSeq(down[c], 1, n)]
    BY DEF Break
<1>5. SubSeq(down[c], 1, n) \in Seq(T!Frames) /\ Piece(SubSeq(down[c], 1, n), down[c])
    BY <1>1, <1>4, Pieces
<1>6. /\ down' \in [Own -> Seq(T!Frames)] /\ Piece(down'[c], down[c])
      /\ \A d \in Own : d # c => down'[d] = down[d]
    BY <1>1, <1>4, <1>5
<1>7. \A i \in DOMAIN down'[c] : \E j \in DOMAIN down[c] : down'[c][i] = down[c][j]
    BY <1>6 DEF Piece
<1>8. up' = [up EXCEPT ![c] = IF pc[c] = "probing" THEN SubSeq(up[c], 1, 1) ELSE <<>>]
    BY DEF Break
<1>9. /\ up' \in [Own -> Seq(T!Requests)] /\ Piece(up'[c], up[c])
      /\ \A d \in Own : d # c => up'[d] = up[d]
      /\ pc[c] = "probing" => up'[c] # <<>> /\ Head(up'[c]) = Head(up[c])
    <2>1. CASE pc[c] = "probing"
        <3>1. 1 \in 0..Len(up[c])
            BY <1>1, <1>3, <2>1
        <3>2. SubSeq(up[c], 1, 1) \in Seq(T!Requests) /\ Piece(SubSeq(up[c], 1, 1), up[c])
            BY <1>1, <3>1, Pieces
        <3>3. SubSeq(up[c], 1, 1) # <<>> /\ Head(SubSeq(up[c], 1, 1)) = Head(up[c])
            BY <1>1, <3>1
        <3>4. up' = [up EXCEPT ![c] = SubSeq(up[c], 1, 1)]
            BY <1>8, <2>1
        <3> QED BY <1>1, <3>2, <3>3, <3>4
    <2>2. CASE pc[c] # "probing"
        <3>1. up' = [up EXCEPT ![c] = <<>>]
            BY <1>8, <2>2
        <3>2. <<>> \in Seq(T!Requests) /\ Piece(<<>>, up[c])
            BY <1>1, Pieces, EmptySeq
        <3> QED BY <1>1, <2>2, <3>1, <3>2
    <2> QED BY <2>1, <2>2
<1>10. T!TesterTypeOK'
    BY <1>0, <1>6, <1>9 DEF T!TesterTypeOK, repl
<1>11. Turn(c) => Turn(c)'
    BY <1>0, <1>1, <1>6, <1>9, <1>10, SameAsked, TurnPieces, Pieces
<1>12. \A d \in Own : rdr'[d] = rdr[d]
    BY <1>0
<1>13. \A i \in DOMAIN queue' :
          /\ IsAnswer(queue'[i])
          /\ \/ \E j \in DOMAIN queue : queue'[i] = queue[j]
             \/ \E j \in DOMAIN down[c] : queue'[i] = down[c][j]
    BY <1>0
<1>14. Known(c) => Known(c)'
    <2>1. Due(c)' \subseteq Due(c)
        BY <1>0, <1>7 DEF Due
    <2>2. \A i \in DOMAIN up'[c] : \E j \in DOMAIN up[c] : up'[c][i] = up[c][j]
        BY <1>9 DEF Piece
    <2> QED BY <1>0, <2>1, <2>2, SameAsked, KnownKept
<1> QED BY <1>0, <1>1, <1>2, <1>6, <1>7, <1>9, <1>11, <1>12, <1>13, <1>14, CarryStep

\* A connection that both ends have left stands for a new one.
LEMMA ReopenStepInv ==
    ASSUME Channel, TypeOK, StepInv, NEW c \in Own, Reopen(c)
    PROVE  StepInv'
<1>0. /\ T!TesterTypeOK /\ tpc = "connect" /\ conn = None /\ queue = <<>>
      /\ UNCHANGED <<repl, conn, queue, closed, cast>>
      /\ c \in cast.own /\ None \notin Own
      /\ cast.own \subseteq Own /\ cast.own \subseteq Sessions
    BY CastForm, TesterAssumption, ConstantsAssumption
       DEF Reopen, StepInv, LinkInv, Channel
<1>1. /\ rdr' = [rdr EXCEPT ![c] = "none"] /\ up' = [up EXCEPT ![c] = <<>>]
      /\ down' = [down EXCEPT ![c] = <<>>] /\ gone' = gone \ {c}
      /\ pc' = [pc EXCEPT ![c] = "new"] /\ UNCHANGED <<want, registry>>
      /\ \A a \in Addr : registry[a] # c
    BY DEF Reopen, Reuse, Goto
<1>2. /\ up \in [Own -> Seq(T!Requests)] /\ down \in [Own -> Seq(T!Frames)]
      /\ rdr \in [Own -> {"none", "reading", "ended"}] /\ gone \subseteq Own
    BY <1>0 DEF T!TesterTypeOK
<1>3. /\ up' \in [Own -> Seq(T!Requests)] /\ down' \in [Own -> Seq(T!Frames)]
      /\ rdr' \in [Own -> {"none", "reading", "ended"}] /\ gone' \subseteq Own
    BY <1>1, <1>2, EmptySeq
<1>4. T!TesterTypeOK'
    BY <1>0, <1>3 DEF T!TesterTypeOK, repl
<1>5. \A d \in Own : /\ rdr'[d] = IF d = c THEN "none" ELSE rdr[d]
                     /\ up'[d] = IF d = c THEN <<>> ELSE up[d]
                     /\ down'[d] = IF d = c THEN <<>> ELSE down[d]
    BY <1>1, <1>2
<1>6. LinkInv'
    BY <1>0, <1>5 DEF StepInv, LinkInv, repl
<1>7. SessionInv'
    <2>1. \A s \in Sessions : pc'[s] = IF s = c THEN "new" ELSE pc[s]
        BY <1>0, <1>1 DEF TypeOK
    <2>2. \A a \in Addr : registry[a] # None => registry[a] \in Sessions
        BY DEF TypeOK, Maybe
    <2>3. \A a \in Addr : registry'[a] # None => pc'[registry'[a]] # "new"
        BY <1>1, <2>1, <2>2 DEF StepInv, SessionInv
    <2>4. \A d \in cast.own :
             /\ rdr'[d] = "none" => pc'[d] = "new"
             /\ pc'[d] = "probing" => /\ up'[d] # <<>> /\ Head(up'[d]).op = "activate"
                                      /\ want'[d] = Head(up'[d]).addr
        BY <1>0, <1>1, <1>5, <2>1 DEF StepInv, SessionInv
    <2>5. ~act'
        BY <1>0 DEF StepInv, SessionInv, repl
    <2> QED BY <1>0, <2>3, <2>4, <2>5 DEF SessionInv
<1> QED BY <1>0, <1>4, <1>6, <1>7 DEF StepInv

-----------------------------------------------------------------------------
(* The steps of the node.                                                  *)

\* A step of a session changes what belongs to that session alone: where it
\* is, the address it has or wants, and the owner that it probes.
LEMMA StepShape ==
    ASSUME EchoInv, NEW s \in Sessions, Step(s)
    PROVE  /\ \A c \in Sessions \ {s} : /\ pc'[c] = pc[c] /\ addr'[c] = addr[c]
                                        /\ want'[c] = want[c] /\ target'[c] = target[c]
           /\ pc'[s] # "new"
           /\ \A a \in Addr : registry'[a] \in {None, registry[a], s}
           /\ \/ target'[s] \in {target[s], None}
              \/ target'[s] # s /\ \E a \in Addr : target'[s] = registry[a]
<1>0. TypeOK
    BY DEF EchoInv, RegistryInv
<1>1. CASE Connect(s) \/ ReadOther(s) \/ ReadEof(s) \/ SendDone(s)
    <2>1. PICK where \in {"idle", "sending", "leaving", "closing"} :
             pc' = [pc EXCEPT ![s] = where]
        BY <1>1 DEF Connect, ReadOther, ReadEof, SendDone, Goto
    <2>2. UNCHANGED <<addr, want, target, registry>>
        BY <1>1 DEF Connect, ReadOther, ReadEof, SendDone, probe
    <2> QED BY <1>0, <2>1, <2>2 DEF TypeOK
<1>2. CASE ReadAlive(s)
    BY <1>2 DEF ReadAlive
<1>3. CASE Finish(s)
    <2>1. pc' = [pc EXCEPT ![s] = "closed"] /\ registry' = Unregister(s)
          /\ UNCHANGED <<addr, want, target>>
        BY <1>3 DEF Finish, Goto, probe
    <2> QED BY <1>0, <2>1, UnregisterForm DEF TypeOK
<1>4. ASSUME NEW a \in Addr, ReadActivation(s, a)
      PROVE  /\ \A c \in Sessions \ {s} : /\ pc'[c] = pc[c] /\ addr'[c] = addr[c]
                                          /\ want'[c] = want[c] /\ target'[c] = target[c]
             /\ pc'[s] # "new"
             /\ \A b \in Addr : registry'[b] \in {None, registry[b], s}
             /\ \/ target'[s] \in {target[s], None}
                \/ target'[s] # s /\ \E b \in Addr : target'[s] = registry[b]
    <2>1. CASE Commit(s, a, registry) /\ UNCHANGED <<want, probe>>
        <3>1. /\ pc' = [pc EXCEPT ![s] = "sending"]
              /\ addr' = [addr EXCEPT ![s] = a]
              /\ registry' = [registry EXCEPT ![a] = s]
              /\ UNCHANGED <<want, target>>
            BY <2>1 DEF Commit, Goto, probe
        <3> QED BY <1>0, <3>1 DEF TypeOK
    <2>2. CASE /\ registry[a] \notin {None, s}
               /\ pc' = [pc EXCEPT ![s] = "probing"]
               /\ want' = [want EXCEPT ![s] = a]
               /\ target' = [target EXCEPT ![s] = registry[a]]
               /\ UNCHANGED <<addr, registry>>
        BY <1>0, <2>2 DEF TypeOK
    <2> QED BY <1>4, <2>1, <2>2 DEF ReadActivation, Goto
<1>5. CASE pc[s] = "probing" /\ Evict(s)
    <2>1. want[s] \in Addr /\ target[s] \in Sessions
        BY <1>5 DEF EchoInv, ContenderInv
    <2>2. /\ pc' = [pc EXCEPT ![s] = "sending"]
          /\ addr' = [addr EXCEPT ![s] = want[s]]
          /\ registry' = [Unregister(target[s]) EXCEPT ![want[s]] = s]
          /\ want' = [want EXCEPT ![s] = None]
          /\ target' = [target EXCEPT ![s] = None]
        BY <1>5 DEF Evict, Commit, Goto, ProbeEnds
    <2>3. \A b \in Addr : registry'[b] \in {None, registry[b], s}
        BY <1>0, <2>1, <2>2, UnregisterForm
    <2> QED BY <1>0, <2>2, <2>3 DEF TypeOK
<1>6. CASE ProbeAnswered(s)
    <2>1. /\ pc' = [pc EXCEPT ![s] = "sending"]
          /\ want' = [want EXCEPT ![s] = None]
          /\ target' = [target EXCEPT ![s] = None]
          /\ UNCHANGED <<addr, registry>>
        BY <1>6 DEF ProbeAnswered, Goto, ProbeEnds
    <2> QED BY <1>0, <2>1 DEF TypeOK
<1>7. CASE /\ pc[s] = "probing"
           /\ UNCHANGED <<pc, addr, want, registry, target>>
    BY <1>7
<1> QED BY <1>1, <1>2, <1>3, <1>4, <1>5, <1>6, <1>7
           DEF Step, Decide, ProbeSent, ProbeTimeout

\* What a step for s writes to another session of the tester is an Alive Check
\* Request, or nothing; a session that is probed has connected.
LEMMA WrittenOther ==
    ASSUME EchoInv, SessionInv, NEW s \in Sessions, Step(s) \/ UNCHANGED vars,
           NEW c \in Sessions, c # s
    PROVE  \/ Written(c) = <<>>
           \/ /\ Written(c) = <<[kind |-> "aliveReq", on |-> c, no |-> 0]>>
              /\ pc[c] # "new"
<1>1. \A d \in Sessions \ {s} : pc'[d] = pc[d] /\ target'[d] = target[d]
    BY StepShape DEF vars, probe
<1>2. CASE \E d \in Sessions : target[d] = None /\ target'[d] = c
    <2>1. target[s] = None /\ target'[s] = c
        BY <1>1, <1>2, ConstantsAssumption
    <2>2. \E a \in Addr : c = registry[a]
        BY <2>1, StepShape, ConstantsAssumption DEF vars, probe
    <2>3. pc[c] # "new"
        BY <2>2, ConstantsAssumption DEF SessionInv
    <2> QED BY <1>2, <2>3 DEF Written
<1>3. CASE ~\E d \in Sessions : target[d] = None /\ target'[d] = c
    <2>1. pc'[c] = pc[c]
        BY <1>1
    <2> QED BY <1>3, <2>1 DEF Written
<1> QED BY <1>2, <1>3

\* What it writes to s itself is its answer to the request at the head.
LEMMA WrittenOwn ==
    ASSUME EchoInv, NEW s \in Sessions, Step(s) \/ UNCHANGED vars
    PROVE  Written(s) = IF pc[s] \in {"idle", "probing"} /\ pc'[s] \in {"sending", "leaving"}
                        THEN <<[kind |-> Answer(s, Head(up[s])), on |-> s,
                                no |-> Head(up[s]).no]>>
                        ELSE <<>>
<1>1. ~\E d \in Sessions : target[d] = None /\ target'[d] = s
    BY StepShape, ConstantsAssumption DEF vars, probe
<1> QED BY <1>1 DEF Written

\* A Routing Activation is granted and takes its address, or denied or refused.
LEMMA ActivationAnswer ==
    ASSUME Channel, EchoInv, SessionInv, NEW s \in cast.own, Handle(s),
           pc'[s] \in {"sending", "leaving"}, Head(up[s]).op = "activate"
    PROVE  /\ up'[s] = Tail(up[s])
           /\ \/ /\ Answer(s, Head(up[s])) = "ra10"
                 /\ addr'[s] = Head(up[s]).addr
              \/ /\ Answer(s, Head(up[s])) \in {"ra02", "ra03"}
                 /\ addr'[s] = addr[s]
<1> DEFINE r == Head(up[s])
<1>0. /\ s \in Own /\ s \in Sessions /\ up \in [Own -> Seq(T!Requests)] /\ TypeOK
      /\ up[s] # <<>>
    BY CastForm DEF Channel, EchoInv, RegistryInv, Handle
<1>1. r \in T!Requests /\ r.addr \in Addr
    <2>1. r \in T!Requests
        BY <1>0
    <2> QED BY <2>1, TesterAssumption DEF T!Requests, T!Addresses
<1>2. pc[s] = "probing" => want[s] = r.addr
    BY DEF SessionInv
<1> HIDE DEF r
<1>3. r.op = "activate"
    BY DEF r
<1>4. up'[s] = Tail(up[s])
    <2>1. up' = [up EXCEPT ![s] = Tail(up[s])]
        BY <1>3 DEF Handle, Onward, r
    <2> QED BY <1>0, <2>1
<1>5. ASSUME NEW reg \in [Addr -> Maybe(Sessions)], Commit(s, r.addr, reg)
      PROVE  Answer(s, r) = "ra10" /\ addr'[s] = r.addr
    <2>1. /\ pc' = [pc EXCEPT ![s] = "sending"]
          /\ addr' = [addr EXCEPT ![s] = r.addr]
          /\ registry' = [reg EXCEPT ![r.addr] = s]
        BY <1>5 DEF Commit, Goto
    <2>2. pc'[s] # "leaving" /\ addr'[s] = r.addr
        BY <1>0, <2>1 DEF TypeOK
    <2>3. registry'[r.addr] = s
        BY <1>1, <2>1
    <2> QED BY <1>3, <2>2, <2>3 DEF Answer
<1>6. CASE pc[s] = "idle" /\ Serve(s, r)
    <2>1. ReadActivation(s, r.addr)
        BY <1>3, <1>6 DEF Serve
    <2>2. Commit(s, r.addr, registry)
        BY <1>0, <2>1 DEF ReadActivation, Goto, TypeOK
    <2>3. registry \in [Addr -> Maybe(Sessions)]
        BY <1>0 DEF TypeOK
    <2> QED BY <1>4, <1>5, <2>2, <2>3 DEF r
<1>7. CASE pc[s] = "idle" /\ Refuse(s, r)
    <2>1. pc'[s] = "leaving" /\ addr' = addr
        BY <1>7 DEF Refuse, ReadOther
    <2>2. Answer(s, r) = "ra02"
        BY <1>3, <2>1 DEF Answer
    <2> QED BY <1>4, <2>1, <2>2 DEF r
<1>8. CASE GiveUp(s, r)
    BY <1>3, <1>8 DEF GiveUp
<1>9. CASE pc[s] = "probing" /\ Evict(s)
    <2>1. Commit(s, r.addr, Unregister(target[s]))
        BY <1>2, <1>9 DEF Evict
    <2>2. target[s] \in Sessions
        BY <1>0, <1>9 DEF EchoInv, ContenderInv
    <2>3. Unregister(target[s]) \in [Addr -> Maybe(Sessions)]
        BY <1>0, <2>2, UnregisterForm
    <2> QED BY <1>4, <1>5, <2>1, <2>3 DEF r
<1>10. CASE ProbeAnswered(s)
    <2>1. pc[s] = "probing" /\ pc' = [pc EXCEPT ![s] = "sending"] /\ UNCHANGED <<addr, registry>>
        BY <1>10 DEF ProbeAnswered, Goto
    <2>2. registry[r.addr] # s /\ pc'[s] = "sending"
        BY <1>0, <1>2, <2>1 DEF EchoInv, ContenderInv, TypeOK
    <2>3. Answer(s, r) = "ra03"
        BY <1>3, <2>1, <2>2 DEF Answer
    <2> QED BY <1>4, <2>1, <2>3 DEF r
<1>11. CASE Decide(s)
    <2>1. ProbeAnswered(s) \/ (pc[s] = "probing" /\ Evict(s)) \/ (pc[s] = "probing" /\ UNCHANGED pc)
        BY <1>11 DEF Decide, ProbeSent, ProbeAnswered, ProbeTimeout
    <2> QED BY <1>9, <1>10, <2>1
<1> QED BY <1>6, <1>7, <1>8, <1>11 DEF Handle, r

\* Any other request is answered by its kind, and the addresses stay.
LEMMA OtherAnswer ==
    ASSUME Channel, EchoInv, SessionInv, NEW s \in cast.own, Handle(s),
           pc'[s] \in {"sending", "leaving"}, Head(up[s]).op \in {"diag", "reply", "info"}
    PROVE  /\ addr' = addr
           /\ \/ /\ up' = [up EXCEPT ![s] = Tail(up[s])]
                 /\ Answer(s, Head(up[s])) \in {"nack", "uds", "info"}
                 /\ Head(up[s]).op = "reply" => Answer(s, Head(up[s])) = "uds"
              \/ /\ up' = [up EXCEPT ![s] = [up[s] EXCEPT ![1].op = "reply"]]
                 /\ Head(up[s]).op = "diag"
                 /\ Answer(s, Head(up[s])) = "ack"
              \/ /\ up' = up
                 /\ Head(up[s]).op = "reply"
                 /\ Answer(s, Head(up[s])) = "pending"
<1> DEFINE r == Head(up[s])
<1>0. /\ s \in Own /\ s \in Sessions /\ up \in [Own -> Seq(T!Requests)] /\ TypeOK
      /\ up[s] # <<>> /\ up[s] \in Seq(T!Requests)
    BY CastForm DEF Channel, EchoInv, RegistryInv, Handle
<1>1. pc[s] # "probing"
    BY DEF SessionInv
<1> HIDE DEF r
<1>2. r.op \in {"diag", "reply", "info"}
    BY DEF r
<1>3. pc[s] = "idle" /\ (Serve(s, r) \/ Refuse(s, r) \/ GiveUp(s, r))
    BY <1>1 DEF Handle, r, Decide, ProbeSent, ProbeAnswered, ProbeTimeout
<1>4. addr' = addr
    BY <1>2, <1>3 DEF Serve, Refuse, GiveUp, ReadOther, vars
<1>5. r.op # "diag" => pc'[s] = "sending"
    BY <1>2, <1>3 DEF Serve, Refuse, GiveUp, vars
<1>6. Onward(s, r)
    BY DEF Handle, r
<1>7. Len(Tail(up[s])) # Len(up[s]) /\ Len([up[s] EXCEPT ![1].op = "reply"]) = Len(up[s])
    BY <1>0
<1>8. CASE /\ r.op = "diag" /\ pc'[s] = "sending"
           /\ up' = [up EXCEPT ![s][1].op = "reply"]
    <2>1. up' = [up EXCEPT ![s] = [up[s] EXCEPT ![1].op = "reply"]]
        BY <1>8
    <2>2. up'[s] = [up[s] EXCEPT ![1].op = "reply"]
        BY <1>0, <2>1
    <2>3. Answer(s, r) = "ack"
        BY <1>7, <1>8, <2>2 DEF Answer
    <2> QED BY <1>4, <1>8, <2>1, <2>3 DEF r
<1>9. CASE up' = [up EXCEPT ![s] = Tail(up[s])]
    <2>1. up'[s] = Tail(up[s])
        BY <1>0, <1>9
    <2>2. Answer(s, r) = IF r.op = "diag" THEN "nack" ELSE IF r.op = "reply" THEN "uds" ELSE "info"
        BY <1>2, <1>7, <2>1 DEF Answer
    <2> QED BY <1>2, <1>4, <1>9, <2>2 DEF r
<1>10. CASE r.op = "reply" /\ UNCHANGED up
    <2>1. Answer(s, r) = "pending"
        BY <1>10 DEF Answer
    <2> QED BY <1>4, <1>10, <2>1 DEF r
<1> QED BY <1>6, <1>8, <1>9, <1>10 DEF Onward

\* A handler that goes on to drain a response has answered.
LEMMA HandleAnswers ==
    ASSUME Channel, EchoInv, SessionInv, NEW s \in cast.own, Handle(s),
           Step(s) \/ UNCHANGED vars, pc[s] \in {"idle", "probing"},
           pc'[s] \in {"sending", "leaving"}, Head(up[s]).op # "alive"
    PROVE  \E g : Written(s) = <<g>> /\ Answers(s, g)
<1>0. /\ s \in Own /\ s \in Sessions /\ up \in [Own -> Seq(T!Requests)] /\ up[s] # <<>>
    BY CastForm DEF Channel, Handle
<1>1. up[s] \in Seq(T!Requests) /\ Head(up[s]) \in T!Requests /\ Head(up[s]) = up[s][1]
    BY <1>0
<1> DEFINE r == up[s][1]
           k == Answer(s, r)
           g == [kind |-> k, on |-> s, no |-> r.no]
<1>2. r.op \in {"activate", "diag", "info", "reply"} /\ r.no \in Nat
    BY <1>1 DEF T!Requests, T!Ops
<1>3. Written(s) = <<g>>
    BY <1>0, <1>1, WrittenOwn
<1>4. g.on = s /\ g.no = r.no /\ g.kind = k
    OBVIOUS
<1>5. k \in T!Answers => g \in T!Frames
    BY <1>0, <1>2 DEF T!Frames
<1> HIDE DEF r, k, g
<1>6. r = Head(up[s]) /\ k = Answer(s, r)
    BY <1>1 DEF r, k
<1>7. CASE r.op = "activate"
    <2>1. /\ up'[s] = Tail(up[s])
          /\ \/ k = "ra10" /\ addr'[s] = r.addr
             \/ k \in {"ra02", "ra03"} /\ addr'[s] = addr[s]
        BY <1>6, <1>7, ActivationAnswer
    <2>2. k \in T!Answers /\ k \in T!Activated /\ k \notin {"ack", "pending", "aliveReq"}
        BY <2>1 DEF T!Answers, T!Activated
    <2>3. Answers(s, g)
        BY <1>0, <1>4, <1>5, <1>7, <2>1, <2>2 DEF Answers, IsAnswer, Asks, r
    <2> QED BY <1>3, <2>3
<1>8. CASE r.op # "activate"
    <2>1. /\ addr' = addr
          /\ \/ /\ up' = [up EXCEPT ![s] = Tail(up[s])]
                /\ k \in {"nack", "uds", "info"}
                /\ r.op = "reply" => k = "uds"
             \/ /\ up' = [up EXCEPT ![s] = [up[s] EXCEPT ![1].op = "reply"]]
                /\ r.op = "diag"
                /\ k = "ack"
             \/ up' = up /\ r.op = "reply" /\ k = "pending"
        BY <1>2, <1>6, <1>8, OtherAnswer
    <2>2. \/ /\ up'[s] = Tail(up[s])
             /\ k \in {"nack", "uds", "info"}
             /\ r.op = "reply" => k = "uds"
          \/ /\ up'[s] = [up[s] EXCEPT ![1].op = "reply"]
             /\ r.op = "diag"
             /\ k = "ack"
          \/ up'[s] = up[s] /\ r.op = "reply" /\ k = "pending"
        BY <1>0, <2>1
    <2>3. k \in T!Answers /\ k \notin T!Activated /\ k # "aliveReq" /\ k # "ra10"
        BY <2>1 DEF T!Answers, T!Activated
    <2>4. Asks(r) /\ addr'[s] = addr[s]
        BY <1>2, <2>1 DEF Asks
    <2>5. Answers(s, g)
        BY <1>0, <1>4, <1>5, <1>8, <2>2, <2>3, <2>4 DEF Answers, IsAnswer, r
    <2> QED BY <1>3, <2>5
<1> QED BY <1>7, <1>8

\* A handler for the tester.
LEMMA HandleShape ==
    ASSUME Channel, EchoInv, StepInv, NEW s \in cast.own, Handle(s),
           Step(s) \/ UNCHANGED vars
    PROVE  /\ pc[s] # "new"
           /\ pc'[s] = "probing" => /\ up'[s] # <<>> /\ Head(up'[s]).op = "activate"
                                    /\ want'[s] = Head(up'[s]).addr
           /\ \/ Written(s) = <<>> /\ Piece(up'[s], up[s]) /\ addr'[s] = addr[s]
              \/ \E g : Written(s) = <<g>> /\ Answers(s, g)
<1>0. /\ s \in Own /\ s \in Sessions /\ up \in [Own -> Seq(T!Requests)] /\ TypeOK
      /\ SessionInv /\ up[s] # <<>>
    BY CastForm DEF Channel, EchoInv, RegistryInv, StepInv, Handle
<1>1. pc[s] = "probing" => Head(up[s]).op = "activate" /\ want[s] = Head(up[s]).addr
    BY <1>0 DEF SessionInv
<1>2. pc[s] \in {"idle", "probing"}
    BY DEF Handle, Decide, ProbeSent, ProbeAnswered, ProbeTimeout
<1>3. up[s] \in Seq(T!Requests) /\ Head(up[s]) \in T!Requests
    BY <1>0
<1>4. Piece(up[s], up[s]) /\ Piece(Tail(up[s]), up[s])
    BY <1>0, <1>3, Pieces
<1>5. Written(s) = <<>> \/ pc'[s] \in {"sending", "leaving"}
    BY <1>0, WrittenOwn
<1>6. Onward(s, Head(up[s]))
    BY DEF Handle
<1>7. CASE pc'[s] = "probing"
    <2>1. up' = up
        BY <1>6, <1>7 DEF Onward
    <2>2. /\ Head(up[s]).op = "activate" /\ want'[s] = Head(up[s]).addr
          /\ addr'[s] = addr[s]
        <3>1. CASE pc[s] = "idle" /\ Serve(s, Head(up[s]))
            <4>1. Head(up[s]).op = "activate" /\ ReadActivation(s, Head(up[s]).addr)
                BY <1>7, <3>1 DEF Serve, vars, ReadAlive
            <4>2. want' = [want EXCEPT ![s] = Head(up[s]).addr] /\ UNCHANGED addr
                BY <1>0, <1>7, <4>1 DEF ReadActivation, Commit, Goto, TypeOK
            <4> QED BY <1>0, <4>1, <4>2 DEF TypeOK
        <3>2. CASE pc[s] = "idle" /\ (Refuse(s, Head(up[s])) \/ GiveUp(s, Head(up[s])))
            BY <1>7, <3>2 DEF Refuse, GiveUp, vars
        <3>3. CASE Decide(s)
            <4>1. pc[s] = "probing"
                BY <3>3 DEF Decide, ProbeSent, ProbeAnswered, ProbeTimeout
            <4>2. UNCHANGED <<want, addr>>
                BY <1>0, <1>7, <3>3 DEF Decide, ProbeSent, ProbeAnswered, ProbeTimeout,
                                        Evict, Commit, Goto, TypeOK
            <4> QED BY <1>1, <4>1, <4>2
        <3> QED BY <3>1, <3>2, <3>3 DEF Handle
    <2> QED BY <1>0, <1>2, <1>4, <1>5, <1>7, <2>1, <2>2
<1>8. CASE pc'[s] \in {"sending", "leaving"}
    <2>1. Head(up[s]).op # "alive"
        BY <1>1, <1>8 DEF Handle, Serve, Refuse, GiveUp, vars, ReadAlive, Decide, ProbeSent,
                          ProbeAnswered, ProbeTimeout
    <2>2. \E g : Written(s) = <<g>> /\ Answers(s, g)
        BY <1>0, <1>2, <1>8, <2>1, HandleAnswers
    <2> QED BY <1>2, <1>8, <2>2
<1>9. CASE pc'[s] \notin {"probing", "sending", "leaving"}
    <2>1. up' = [up EXCEPT ![s] = Tail(up[s])]
        BY <1>6, <1>9 DEF Onward
    <2>2. up'[s] = Tail(up[s])
        BY <1>0, <2>1
    <2>3. UNCHANGED addr
        <3>1. ~Decide(s)
            BY <1>0, <1>9 DEF Decide, ProbeSent, ProbeAnswered, ProbeTimeout, Evict,
                              Commit, Goto, TypeOK
        <3>2. Serve(s, Head(up[s])) \/ Refuse(s, Head(up[s])) \/ GiveUp(s, Head(up[s]))
            BY <3>1 DEF Handle
        <3>3. ~ReadActivation(s, Head(up[s]).addr)
            BY <1>0, <1>9 DEF ReadActivation, Commit, Goto, TypeOK
        <3> QED BY <3>2, <3>3 DEF Serve, Refuse, GiveUp, ReadAlive, ReadOther, vars
    <2> QED BY <1>2, <1>4, <1>5, <1>9, <2>2, <2>3
<1> QED BY <1>7, <1>8, <1>9

\* Whatever the node does for the tester.
LEMMA ServedShape ==
    ASSUME Channel, EchoInv, StepInv, NEW s \in cast.own, Served(s)
    PROVE  /\ pc[s] # "new"
           /\ pc'[s] = "probing" => /\ up'[s] # <<>> /\ Head(up'[s]).op = "activate"
                                    /\ want'[s] = Head(up'[s]).addr
           /\ \/ Written(s) = <<>> /\ Piece(up'[s], up[s]) /\ addr'[s] = addr[s]
              \/ \E g : Written(s) = <<g>> /\ Answers(s, g)
           /\ \A c \in Own : c # s => up'[c] = up[c]
<1>0. s \in Own /\ s \in Sessions /\ up \in [Own -> Seq(T!Requests)] /\ TypeOK
    BY CastForm DEF Channel, EchoInv, RegistryInv
<1>1. Step(s) \/ UNCHANGED vars
    BY ServedMaps
<1>2. \A c \in Own : c # s => up'[c] = up[c]
    <2>1. up' = up \/ \E q : up' = [up EXCEPT ![s] = q]
        <3>1. CASE up' = [up EXCEPT ![s][1].op = "reply"]
            <4>1. up' = [up EXCEPT ![s] = [up[s] EXCEPT ![1].op = "reply"]]
                BY <3>1
            <4> QED BY <4>1
        <3>2. CASE up' = up \/ up' = [up EXCEPT ![s] = Tail(up[s])]
                   \/ up' = [up EXCEPT ![s] = <<>>]
            BY <3>2
        <3> QED BY <3>1, <3>2 DEF Served, Handle, Onward
    <2> QED BY <1>0, <2>1
<1>3. CASE Handle(s)
    BY <1>1, <1>2, <1>3, HandleShape
<1>4. CASE ReadEof(s) \/ SendDone(s) \/ Finish(s)
    <2>1. /\ pc[s] # "new" /\ UNCHANGED addr
          /\ pc'[s] # "probing"
          /\ ~(pc[s] \in {"idle", "probing"} /\ pc'[s] \in {"sending", "leaving"})
        BY <1>0, <1>4 DEF ReadEof, SendDone, Finish, Goto, TypeOK
    <2>2. Written(s) = <<>>
        BY <1>0, <1>1, <2>1, WrittenOwn
    <2>3. CASE UNCHANGED up
        <3>1. Piece(up[s], up[s])
            BY <1>0, Pieces
        <3> QED BY <1>2, <2>1, <2>2, <2>3, <3>1
    <2>4. CASE up' = [up EXCEPT ![s] = <<>>]
        <3>1. up'[s] = <<>> /\ Piece(<<>>, up[s])
            BY <1>0, <2>4, Pieces
        <3> QED BY <1>2, <2>1, <2>2, <3>1
    <2>5. CASE Handle(s)
        BY <1>3, <2>5
    <2> QED BY <2>3, <2>4, <2>5 DEF Served
<1> QED BY <1>3, <1>4 DEF Served

\* A frame appended to what is on its way to the tester.
LEMMA FrameAdded ==
    ASSUME T!TesterTypeOK, NEW c \in Own, NEW g \in T!Frames
    PROVE  /\ down[c] \o <<>> = down[c]
           /\ down[c] \o <<g>> = Append(down[c], g)
           /\ Append(down[c], g) \in Seq(T!Frames)
           /\ \A i \in DOMAIN Append(down[c], g) :
                 \/ i \in DOMAIN down[c] /\ Append(down[c], g)[i] = down[c][i]
                 \/ Append(down[c], g)[i] = g
<1>1. down[c] \in Seq(T!Frames)
    BY Streams
<1> QED BY <1>1, ConcatEmptySeq, AppendIsConcat, AppendProperties, Appended

\* What a step of the node for s does to connection c.
Carried(s, c) ==
    \/ /\ up'[c] = up[c] \/ (c = s /\ c \in cast.own /\ Piece(up'[c], up[c]))
       /\ down'[c] = down[c]
       /\ addr'[c] = addr[c] \/ c \notin cast.own
    \/ /\ c \in cast.own /\ pc[c] # "new"
       /\ up'[c] = up[c]
       /\ down'[c] = Append(down[c], [kind |-> "aliveReq", on |-> c, no |-> 0])
       /\ addr'[c] = addr[c]
    \/ /\ c = s /\ c \in cast.own
       /\ \E g : /\ Answers(c, g)
                 /\ down'[c] = down[c] \/ down'[c] = Append(down[c], g)

\* Every step of the node, seen from the tester's connections.
LEMMA EcuCarries ==
    ASSUME Channel, EchoInv, StepInv, NEW s \in Sessions, Ecu(s)
    PROVE  /\ \A c \in Own : Carried(s, c)
           /\ s \in cast.own => pc[s] # "new"
           /\ \A c \in cast.own :
                 /\ pc[c] = "new" => pc'[c] = "new"
                 /\ pc'[c] = "probing" => /\ up'[c] # <<>>
                                          /\ Head(up'[c]).op = "activate"
                                          /\ want'[c] = Head(up'[c]).addr
<1>0. /\ cast.own \subseteq Own /\ cast.own \subseteq Sessions
      /\ cast.own \cap cast.peers = {} /\ T!TesterTypeOK /\ SessionInv
    BY CastForm DEF Channel, StepInv
<1>1. /\ \/ s \in cast.own /\ Served(s)
         \/ s \in cast.peers /\ Step(s) /\ UNCHANGED up
      /\ down' = [c \in Own |-> IF c \in cast.own \ (shut \cup gone \cup broken)
                                THEN down[c] \o Written(c) ELSE down[c]]
    BY DEF Ecu
<1>2. Step(s) \/ UNCHANGED vars
    BY <1>1, ServedMaps
<1>3. \A c \in Own : c # s => up'[c] = up[c]
    BY <1>1, ServedShape
<1>4. \A c \in Own : down'[c] = down[c] \/ (c \in cast.own /\ down'[c] = down[c] \o Written(c))
    BY <1>1
<1>5. ASSUME NEW c \in cast.own, c # s
      PROVE  /\ addr'[c] = addr[c] /\ pc'[c] = pc[c] /\ want'[c] = want[c]
             /\ up'[c] = up[c]
    BY <1>0, <1>2, <1>3, <1>5, StepShape DEF vars, probe
<1>6. ASSUME NEW c \in Own, c # s PROVE Carried(s, c)
    <2> DEFINE g == [kind |-> "aliveReq", on |-> c, no |-> 0]
    <2>1. g \in T!Frames
        BY <1>6 DEF T!Frames, T!Answers
    <2>2. CASE c \notin cast.own
        BY <1>3, <1>4, <1>6, <2>2 DEF Carried
    <2>3. CASE c \in cast.own
        <3>1. Written(c) = <<>> \/ (Written(c) = <<g>> /\ pc[c] # "new")
            BY <1>0, <1>2, <1>6, <2>3, WrittenOther
        <3> HIDE DEF g
        <3>2. down'[c] = down[c] \/ (down'[c] = Append(down[c], g) /\ pc[c] # "new")
            BY <1>0, <1>4, <1>6, <2>1, <3>1, FrameAdded
        <3> QED BY <1>5, <1>6, <2>3, <3>2 DEF Carried, g
    <2> QED BY <2>2, <2>3
<1>7. ASSUME NEW c \in cast.own, c # s
      PROVE  /\ pc[c] = "new" => pc'[c] = "new"
             /\ pc'[c] = "probing" => /\ up'[c] # <<>>
                                      /\ Head(up'[c]).op = "activate"
                                      /\ want'[c] = Head(up'[c]).addr
    BY <1>0, <1>5, <1>7 DEF SessionInv
<1>8. CASE s \in cast.peers /\ Step(s) /\ UNCHANGED up
    <2>1. s \notin cast.own
        BY <1>0, <1>8
    <2>2. ASSUME s \in Own PROVE Carried(s, s)
        BY <1>4, <1>8, <2>1, <2>2 DEF Carried
    <2>3. \A c \in Own : Carried(s, c)
        BY <1>6, <2>2
    <2>4. \A c \in cast.own : c # s
        BY <2>1
    <2> QED BY <1>7, <2>1, <2>3, <2>4
<1>9. CASE s \in cast.own /\ Served(s)
    <2>1. /\ pc[s] # "new"
          /\ pc'[s] = "probing" => /\ up'[s] # <<>> /\ Head(up'[s]).op = "activate"
                                   /\ want'[s] = Head(up'[s]).addr
          /\ \/ Written(s) = <<>> /\ Piece(up'[s], up[s]) /\ addr'[s] = addr[s]
             \/ \E g : Written(s) = <<g>> /\ Answers(s, g)
        BY <1>9, ServedShape
    <2>0. s \in Own
        BY <1>0, <1>9
    <2>2. Carried(s, s)
        <3>1. CASE Written(s) = <<>> /\ Piece(up'[s], up[s]) /\ addr'[s] = addr[s]
            <4>1. down[s] \o <<>> = down[s]
                BY <1>0, <2>0, Streams, ConcatEmptySeq
            <4>2. down'[s] = down[s]
                BY <1>4, <2>0, <3>1, <4>1
            <4> QED BY <1>9, <3>1, <4>2 DEF Carried
        <3>2. CASE \E g : Written(s) = <<g>> /\ Answers(s, g)
            <4>1. PICK g : Written(s) = <<g>> /\ Answers(s, g)
                BY <3>2
            <4>2. g \in T!Frames
                BY <4>1 DEF Answers
            <4>3. down'[s] = down[s] \/ down'[s] = Append(down[s], g)
                BY <1>0, <1>4, <2>0, <4>1, <4>2, FrameAdded
            <4> QED BY <1>9, <4>1, <4>3 DEF Carried
        <3> QED BY <2>1, <3>1, <3>2
    <2>3. \A c \in Own : Carried(s, c)
        BY <1>6, <2>2
    <2>4. ASSUME NEW c \in cast.own
          PROVE  /\ pc[c] = "new" => pc'[c] = "new"
                 /\ pc'[c] = "probing" => /\ up'[c] # <<>>
                                          /\ Head(up'[c]).op = "activate"
                                          /\ want'[c] = Head(up'[c]).addr
        <3>1. CASE c = s
            BY <2>1, <3>1
        <3>2. CASE c # s
            BY <1>7, <3>2
        <3> QED BY <3>1, <3>2
    <2> QED BY <2>1, <2>3, <2>4
<1> QED BY <1>1, <1>8, <1>9

\* The frames on their way to connection c after a step of the node.
LEMMA CarriedFrames ==
    ASSUME T!TesterTypeOK, NEW s, NEW c \in Own, Carried(s, c)
    PROVE  /\ down'[c] \in Seq(T!Frames)
           /\ \A i \in DOMAIN down'[c] :
                 \/ i \in DOMAIN down[c] /\ down'[c][i] = down[c][i]
                 \/ down'[c][i].on = c
<1>1. down[c] \in Seq(T!Frames)
    BY Streams
<1>2. CASE down'[c] = down[c]
    BY <1>1, <1>2
<1>3. ASSUME NEW g \in T!Frames, g.on = c, down'[c] = Append(down[c], g)
      PROVE  /\ down'[c] \in Seq(T!Frames)
             /\ \A i \in DOMAIN down'[c] :
                   \/ i \in DOMAIN down[c] /\ down'[c][i] = down[c][i]
                   \/ down'[c][i].on = c
    <2> DEFINE q == Append(down[c], g)
    <2>1. q \in Seq(T!Frames) /\ \A i \in DOMAIN q : \/ i \in DOMAIN down[c] /\ q[i] = down[c][i]
                                                    \/ q[i] = g
        BY <1>3, FrameAdded
    <2> HIDE DEF q
    <2>2. down'[c] = q
        BY <1>3 DEF q
    <2> QED BY <1>3, <2>1, <2>2
<1>4. CASE down'[c] = Append(down[c], [kind |-> "aliveReq", on |-> c, no |-> 0])
    <2> DEFINE g == [kind |-> "aliveReq", on |-> c, no |-> 0]
    <2>1. g \in T!Frames /\ g.on = c
        BY DEF T!Frames, T!Answers
    <2> HIDE DEF g
    <2>2. down'[c] = Append(down[c], g)
        BY <1>4 DEF g
    <2> QED BY <1>3, <2>1, <2>2
<1>5. CASE \E g : /\ Answers(c, g)
                  /\ down'[c] = down[c] \/ down'[c] = Append(down[c], g)
    BY <1>2, <1>3, <1>5 DEF Answers
<1> QED BY <1>2, <1>4, <1>5 DEF Carried

\* A connection in turn stays so, and the node still knows its address.
LEMMA CarriedTurn ==
    ASSUME Channel, T!TesterTypeOK, T!TesterTypeOK', NEW s, NEW c \in cast.own, Carried(s, c),
           \A i \in DOMAIN queue : IsAnswer(queue[i]), Turn(c), Known(c),
           UNCHANGED <<Activating, T!Asked, tester_addr, act, tpc, job, cmd, sent, queue>>
    PROVE  Turn(c)' /\ Known(c)'
<1>0. c \in Own
    BY CastForm DEF Channel
<1>1. Piece(up[c], up[c]) /\ Piece(down[c], down[c]) /\ Piece(queue, queue)
    BY <1>0, Streams, Pieces
<1>2. CASE /\ up'[c] = up[c] \/ Piece(up'[c], up[c])
           /\ down'[c] = down[c] /\ addr'[c] = addr[c]
    <2>1. Piece(up'[c], up[c]) /\ Piece(down'[c], down[c]) /\ Piece(queue', queue)
        BY <1>1, <1>2
    <2>2. Turn(c)'
        BY <1>0, <2>1, TurnPieces
    <2>3. Due(c)' = Due(c)
        BY <1>2 DEF Due
    <2>4. \A i \in DOMAIN up'[c] : \E j \in DOMAIN up[c] : up'[c][i] = up[c][j]
        BY <2>1 DEF Piece
    <2>5. Known(c)'
        BY <1>0, <1>2, <2>3, <2>4, KnownKept
    <2> QED BY <2>2, <2>5
<1>3. CASE /\ up'[c] = up[c] /\ addr'[c] = addr[c]
           /\ down'[c] = Append(down[c], [kind |-> "aliveReq", on |-> c, no |-> 0])
    <2> DEFINE g == [kind |-> "aliveReq", on |-> c, no |-> 0]
    <2>1. g \in T!Frames /\ ~IsAnswer(g)
        BY <1>0 DEF T!Frames, T!Answers, IsAnswer
    <2> HIDE DEF g
    <2>2. up'[c] = up[c] /\ down'[c] = Append(down[c], g)
        BY <1>3 DEF g
    <2>3. Turn(c)'
        BY <1>0, <2>1, <2>2, TurnProbed
    <2>4. Due(c)' \subseteq Due(c)
        BY <1>0, <2>1, <2>2, TurnWritten
    <2>5. Known(c)'
        BY <1>0, <1>3, <2>4, KnownKept
    <2> QED BY <2>3, <2>5
<1>4. ASSUME NEW g, Answers(c, g), down'[c] = down[c] \/ down'[c] = Append(down[c], g)
      PROVE  Turn(c)' /\ Known(c)'
    <2>1. Turn(c)'
        BY <1>0, <1>4, TurnAnswered
    <2>2. Known(c)'
        BY <1>0, <1>4, KnownAnswered
    <2> QED BY <2>1, <2>2
<1> QED BY <1>2, <1>3, <1>4 DEF Carried

\* Every step of the node.
LEMMA EcuStepInv ==
    ASSUME Channel, Channel', EchoInv, StepInv, NEW s \in Sessions, Ecu(s)
    PROVE  StepInv'
<1>0. /\ UNCHANGED <<tpc, job, cmd, arg, tester_addr, left, typed, act, sent, late,
                     conn, rdr, queue, closed, gone, cast>>
      /\ cast.own \subseteq Own /\ cast.own \subseteq Sessions
      /\ conn \in cast.own \cup {None} /\ None \notin Own
      /\ T!TesterTypeOK
    BY CastForm, TesterAssumption, ConstantsAssumption DEF Channel, Ecu, repl, StepInv
<1>1. \A c \in Own : Carried(s, c)
    BY EcuCarries
<1>2. \A c \in cast.own :
         /\ pc[c] = "new" => pc'[c] = "new"
         /\ pc'[c] = "probing" => /\ up'[c] # <<>> /\ Head(up'[c]).op = "activate"
                                  /\ want'[c] = Head(up'[c]).addr
    BY EcuCarries
<1>3. ASSUME NEW c \in Own
      PROVE  /\ down'[c] \in Seq(T!Frames)
             /\ \A i \in DOMAIN down'[c] :
                   \/ i \in DOMAIN down[c] /\ down'[c][i] = down[c][i]
                   \/ down'[c][i].on = c
    BY <1>0, <1>1, CarriedFrames
<1>4. T!TesterTypeOK'
    <2>1. down' \in [Own -> Seq(T!Frames)]
        <3>1. DOMAIN down' = Own /\ down' = [c \in DOMAIN down' |-> down'[c]]
            BY DEF Ecu
        <3> QED BY <1>3, <3>1
    <2>2. up' \in [Own -> Seq(T!Requests)]
        BY DEF Channel
    <2> QED BY <1>0, <2>1, <2>2 DEF T!TesterTypeOK
<1>5. ASSUME NEW c \in Own
      PROVE  /\ rdr[c] = "reading" => c = conn
             /\ rdr[c] = "none" => up'[c] = <<>> /\ down'[c] = <<>>
             /\ \A i \in DOMAIN down'[c] : down'[c][i].on = c
    <2>1. /\ rdr[c] = "reading" => c = conn
          /\ rdr[c] = "none" => up[c] = <<>> /\ down[c] = <<>>
          /\ \A i \in DOMAIN down[c] : down[c][i].on = c
        BY DEF StepInv, LinkInv
    <2>2. rdr[c] = "none" /\ c \in cast.own => pc[c] = "new"
        BY DEF StepInv, SessionInv
    <2>3. c = s /\ c \in cast.own => pc[c] # "new"
        BY EcuCarries
    <2>4. rdr[c] = "none" => up'[c] = up[c] /\ down'[c] = down[c]
        BY <1>1, <2>2, <2>3 DEF Carried
    <2> QED BY <1>3, <2>1, <2>4
<1>6. LinkInv'
    <2>1. /\ conn = None <=> tpc \in {"absent", "start", "connect", "exit"}
          /\ tpc \in {"input", "run", "recv2"} => job = "command"
          /\ tpc \in {"start", "connect"} => job # "command"
          /\ tpc = "recv2" => cmd = "diag"
          /\ conn = None => queue = <<>>
          /\ conn # None => rdr[conn] # "none"
          /\ \A i \in DOMAIN queue : queue[i].on = conn /\ IsAnswer(queue[i])
        BY DEF StepInv, LinkInv
    <2> QED BY <1>0, <1>5, <2>1 DEF LinkInv
<1>7. SessionInv'
    <2>1. \A a \in Addr : registry'[a] # None => pc'[registry'[a]] # "new"
        <3>1. CASE UNCHANGED vars
            BY <3>1 DEF vars, StepInv, SessionInv
        <3>2. CASE Step(s)
            <4> SUFFICES ASSUME NEW a \in Addr, registry'[a] # None
                         PROVE  pc'[registry'[a]] # "new"
                OBVIOUS
            <4>1. CASE registry'[a] = s
                BY <3>2, <4>1, StepShape
            <4>2. CASE registry'[a] # s
                <5>1. registry'[a] = registry[a]
                    BY <3>2, <4>2, StepShape
                <5>2. registry[a] \in Sessions \ {s}
                    BY <4>2, <5>1 DEF EchoInv, RegistryInv, TypeOK, Maybe
                <5>3. pc[registry[a]] # "new"
                    BY <5>1 DEF StepInv, SessionInv
                <5> QED BY <3>2, <5>1, <5>2, <5>3, StepShape
            <4> QED BY <4>1, <4>2
        <3> QED BY <3>1, <3>2, ServedMaps DEF Ecu
    <2>2. ASSUME NEW c \in cast.own
          PROVE  rdr[c] = "none" => pc'[c] = "new"
        BY <1>2 DEF StepInv, SessionInv
    <2>3. act => conn # None
        BY DEF StepInv, SessionInv
    <2> QED BY <1>0, <1>2, <2>1, <2>2, <2>3 DEF SessionInv
<1>8. UNCHANGED <<Activating, T!Asked>>
    <2>1. UNCHANGED Activating
        BY <1>0 DEF Activating
    <2>2. UNCHANGED T!Asked
        BY <1>0 DEF T!Asked
    <2> QED BY <2>1, <2>2
<1>9. \A c \in Own : conn = c /\ ~late => Turn(c)' /\ Known(c)'
    <2> SUFFICES ASSUME NEW c \in Own, conn = c, ~late PROVE Turn(c)' /\ Known(c)'
        OBVIOUS
    <2>1. Turn(c) /\ Known(c)
        BY DEF StepInv
    <2>2. Carried(s, c) /\ c \in cast.own
        BY <1>0, <1>1
    <2>3. \A i \in DOMAIN queue : IsAnswer(queue[i])
        BY DEF StepInv, LinkInv
    <2> QED BY <1>0, <1>4, <1>8, <2>1, <2>2, <2>3, CarriedTurn
<1> QED BY <1>0, <1>4, <1>6, <1>7, <1>9 DEF StepInv

\* Every step of the composition.
LEMMA NextStepInv ==
    ASSUME Channel, Channel', EchoInv, StepInv, [EchoNext]_allVars
    PROVE  StepInv'
<1>1. CASE UNCHANGED allVars
    <2>1. UNCHANGED <<repl, vars>>
        BY <1>1 DEF allVars, vars, probe
    <2>2. UNCHANGED <<Activating, T!Asked, tester_addr, act, tpc, job, cmd, sent>>
        BY <2>1, SameAsked
    <2>3. UNCHANGED <<up, down, queue, conn, rdr, closed, gone, cast, left, typed, arg, late>>
        BY <1>1 DEF allVars, link, repl
    <2>4. UNCHANGED <<addr, pc, want, registry>>
        BY <1>1 DEF allVars
    <2>5. T!TesterTypeOK' /\ LinkInv' /\ SessionInv'
        BY <2>2, <2>3, <2>4 DEF StepInv, T!TesterTypeOK, LinkInv, SessionInv
    <2>6. \A c \in Own : Due(c)' = Due(c)
        BY <2>3 DEF Due
    <2>7. \A c \in Own : Turn(c) => Turn(c)'
        BY <2>2, <2>3, <2>6 DEF Turn
    <2>8. \A c \in Own : Known(c) => Known(c)'
        BY <2>2, <2>3, <2>4, <2>6 DEF Known
    <2> QED BY <2>3, <2>5, <2>7, <2>8 DEF StepInv
<1>2. CASE Ended
    BY <1>1, <1>2 DEF Ended
<1>3. CASE TesterStep
    BY <1>3, TesterStepInv DEF EchoInv, RegistryInv
<1>4. CASE \E c \in Own : Reopen(c)
    BY <1>4, ReopenStepInv DEF EchoInv, RegistryInv
<1> QED BY <1>1, <1>2, <1>3, <1>4, ReaderStepInv, BreakStepInv, EcuStepInv DEF EchoNext

\* What is in turn is in step.
LEMMA StepInvInStep ==
    ASSUME Channel, StepInv
    PROVE  InStep
<1>1. /\ T!TesterTypeOK /\ \A i \in DOMAIN queue : queue[i].on = conn
      /\ act => conn # None
    BY DEF StepInv, LinkInv, SessionInv
<1>2. ASSUME conn # None, ~late
      PROVE  /\ \A f \in Due(conn) : tpc \in {"recv", "recv2"} /\ f.no = sent
             /\ act /\ ~Activating => addr[conn] = tester_addr
    <2>1. conn \in Own
        BY <1>2, CastForm DEF Channel
    <2>2. Turn(conn) /\ Known(conn)
        BY <1>2, <2>1 DEF StepInv
    <2> QED BY <2>2 DEF Turn, Known
<1> QED BY <1>1, <1>2 DEF InStep

\* Tester and node stay in step for any cast of connections, whether the
\* tester speaks to an echo ECU or to an EdgeNode before it: every queued frame
\* came over the present connection, and until a command on it ends without its
\* answer, a command finds only its own answers and leaves none behind, and an
\* activated tester speaks for the address that the node granted it, whatever
\* addresses its activate lines name (_recv, cmd_activate, cmd_diag, disconnect
\* and reconnect, against the handlers of ECUSession and DoIPSession).
THEOREM TesterInStep == EchoSpec => []InStep
<1>1. EchoInit => Channel /\ EchoInv /\ StepInv
    BY InitChannel, InitStep
<1>2. Channel /\ EchoInv /\ StepInv /\ [EchoNext]_allVars
         => (Channel /\ EchoInv /\ StepInv)'
    <2> SUFFICES ASSUME Channel, EchoInv, StepInv, [EchoNext]_allVars
                 PROVE  Channel' /\ EchoInv' /\ StepInv'
        OBVIOUS
    <2>1. Channel' /\ EchoInv'
        BY NextChannel, EcuMaps, NextEcho
    <2> QED BY <2>1, NextStepInv
<1>3. Channel /\ StepInv => InStep
    BY StepInvInStep
<1> QED BY <1>1, <1>2, <1>3, PTL DEF EchoSpec
=============================================================================
