------------------------- MODULE EdgeExchangeProofs -------------------------
(***************************************************************************)
(* Proofs about EdgeExchange for any number of targets, ECUConnections and *)
(* requests, with and without response matching.  Which ECU a theorem is    *)
(* about, and whether ReplayMiddleware is there, is said where it is        *)
(* stated; LegsFound and LateAnswersDropped are about all of them.          *)
(***************************************************************************)
EXTENDS EdgeExchange, FiniteSetTheorems, TLAPS

-----------------------------------------------------------------------------
(* Types.                                                                  *)

\* The variables that every move of the pump sets.
ControlTypeOK ==
    /\ pc \in Pcs
    /\ cur \in Legs \cup {NoLeg}
    /\ raising \in BOOLEAN
    /\ inject \in {"no", "now", "done"}
    /\ leg \in [Legs -> {"fresh", "setup", "up", "eof", "closed"}]
    /\ closer \in [Legs -> {"no", "running", "done"}]
    /\ connect \in {"no", "running", "cancelled", "closing", "ok", "failed",
                    "late", "aborted"}
    /\ retire \in {"no", "begin", "closing"}
    /\ cleanup \in {"no", "start", "connects", "reads", "closes", "retires",
                    "last", "done"}

Reads == [state : {Waiting, Failed, Cancelled, "frame"}, frame : Frames]

\* Those the exchange and the legs' readers set.
DataTypeOK ==
    /\ req \in 0..MaxRequests
    /\ tgt \in Targets
    /\ {accepted, pending, late} \subseteq BOOLEAN
    /\ settled \subseteq 1..MaxRequests
    /\ frame \in Frames
    /\ out \in Seq(Frames)
    /\ cache \in [Targets -> Legs \cup {NoLeg}]
    /\ reader \in [Targets -> Legs \cup {NoLeg}]
    /\ read \in Reads
    /\ queue \in [Legs -> Seq(Frames)]
    /\ inbox \in [Legs -> Seq(1..MaxRequests)]
    /\ answered \in [Legs -> {"no", "acked", "pended"}]
    /\ heard \in [Legs -> SUBSET (1..MaxRequests)]
    /\ added \in Nat
    /\ setup \in Setups

LEMMA TypeParts == TypeOK <=> ControlTypeOK /\ DataTypeOK
BY DEF TypeOK, ControlTypeOK, DataTypeOK, Reads

\* Return, Exit, Nack and Retire keep the types.
LEMMA LeaveType ==
    ASSUME TypeOK, Return \/ Exit \/ Nack
    PROVE  ControlTypeOK'
BY DEF TypeOK, ControlTypeOK, Return, Exit, Nack, Consume, Pcs

LEMMA RetireType ==
    ASSUME TypeOK, NEW r \in BOOLEAN, Retire(r)
    PROVE  ControlTypeOK'
BY DEF TypeOK, ControlTypeOK, Retire, Pcs

LEMMA FailType ==
    ASSUME TypeOK, NEW acc, Fail(acc)
    PROVE  ControlTypeOK'
BY LeaveType, RetireType DEF Fail

LEMMA UseLegType ==
    ASSUME TypeOK, NEW l \in Legs, UseLeg(l)
    PROVE  ControlTypeOK'
BY DEF TypeOK, ControlTypeOK, UseLeg, Consume, Pcs

LEMMA ConnectType ==
    ASSUME TypeOK, Connect
    PROVE  ControlTypeOK'
<1>1. CASE Return \/ Nack
    BY <1>1, LeaveType
<1>2. CASE ~(Return \/ Nack)
    <2>1. PICK l \in Legs :
             /\ pc' = "connecting" /\ cur' = l
             /\ connect' = "running" /\ retire' = "no"
             /\ leg' = [leg EXCEPT ![l] = "setup"]
             /\ closer' = [closer EXCEPT ![l] = "no"]
             /\ UNCHANGED <<raising, inject, cleanup>>
        BY <1>2 DEF Connect
    <2> QED BY <2>1 DEF TypeOK, ControlTypeOK, Pcs
<1> QED BY <1>1, <1>2

LEMMA RouteType ==
    ASSUME TypeOK, Route
    PROVE  ControlTypeOK'
<1>1. CASE cache[tgt] = NoLeg
    BY <1>1, ConnectType DEF Route
<1>2. CASE cache[tgt] # NoLeg
    <2>1. cache[tgt] \in Legs
        BY <1>2 DEF TypeOK
    <2>2. CASE leg[cache[tgt]] = "up"
        BY <1>2, <2>1, <2>2, UseLegType DEF Route
    <2>3. CASE leg[cache[tgt]] # "up"
        BY <1>2, <2>1, <2>3 DEF Route, TypeOK, ControlTypeOK, Pcs
    <2> QED BY <2>2, <2>3
<1> QED BY <1>1, <1>2

\* A read task that begins is typed, and so is the receive loop.
LEMMA NewReadType == NewRead \in Reads /\ NoFrame \in Frames
BY ConstantsAssumption DEF NewRead, NoFrame, Frames, Kinds, Reads

LEMMA LoopHeadType ==
    ASSUME TypeOK, NEW acc, NEW owner \in Legs \cup {NoLeg}, LoopHead(acc, owner),
           cur \in Legs
    PROVE  /\ ControlTypeOK'
           /\ reader' \in [Targets -> Legs \cup {NoLeg}]
           /\ read' \in Reads
<1>1. CASE Closing \/ late \/ owner \notin {NoLeg, cur}
    <2>1. ControlTypeOK'
        BY <1>1, FailType, RetireType DEF LoopHead
    <2> QED BY <1>1, <2>1, NewReadType DEF LoopHead, TypeOK, Reads
<1>2. CASE ~(Closing \/ late \/ owner \notin {NoLeg, cur})
    <2>1. ControlTypeOK'
        BY <1>2 DEF LoopHead, TypeOK, ControlTypeOK, Pcs
    <2> QED BY <1>2, <2>1, NewReadType DEF LoopHead, TypeOK, Reads
<1> QED BY <1>1, <1>2

\* The first element of a sequence and the others.
LEMMA HeadTail ==
    ASSUME NEW S, NEW s \in Seq(S), s # <<>>
    PROVE  Head(s) \in S /\ Tail(s) \in Seq(S)
OBVIOUS

\* Closing legs keeps the types.
LEMMA StartCloseType ==
    ASSUME TypeOK, NEW L, StartClose(L)
    PROVE  /\ leg' \in [Legs -> {"fresh", "setup", "up", "eof", "closed"}]
           /\ closer' \in [Legs -> {"no", "running", "done"}]
           /\ queue' \in [Legs -> Seq(Frames)]
BY DEF TypeOK, StartClose

\* Nothing but the control variables changes.
DataSame ==
    UNCHANGED <<req, tgt, accepted, pending, late, settled, frame, out, cache,
                reader, read, queue, inbox, answered, heard, added, setup>>

LEMMA NextType ==
    ASSUME TypeOK, PumpInv, EcuInv, [Next]_vars
    PROVE  TypeOK'
<1> USE DEF exchange, legs, ecu, tasks
<1> SUFFICES ControlTypeOK' /\ DataTypeOK'
    BY DEF TypeOK, ControlTypeOK, DataTypeOK, Reads
<1>0. ControlTypeOK /\ DataTypeOK
    BY TypeParts
<1>m. MaxRequests \in Nat
    BY ConstantsAssumption
<1>d. DataSame => DataTypeOK'
    BY <1>0 DEF DataSame, DataTypeOK
<1>1. CASE \E t \in Targets : Request(t)
    <2>1. req' \in 0..MaxRequests /\ tgt' \in Targets
        BY <1>0, <1>1, <1>m, ConstantsAssumption DEF Request, DataTypeOK
    <2>2. out' \in Seq(Frames)
        <3>1. out' = <<>>
            BY <1>1 DEF Request
        <3> QED BY <3>1
    <2>3. DataTypeOK'
        BY <1>0, <1>1, <2>1, <2>2 DEF Request, DataTypeOK
    <2> QED BY <1>0, <1>1, <2>3 DEF Request, ControlTypeOK, Pcs
<1>2. CASE ReadEof
    BY <1>2, <1>d, LeaveType DEF ReadEof, DataSame
<1>3. CASE ReplayStarts
    BY <1>0, <1>3, <1>d DEF ReplayStarts, DataSame, ControlTypeOK
<1>4. CASE MiddlewareDone
    BY <1>4, <1>d, LeaveType, RouteType DEF MiddlewareDone, DataSame
<1>5. CASE Connected
    <2>1. ControlTypeOK'
        <3>1. CASE UseLeg(cur)
            BY <1>5, <3>1, UseLegType DEF Connected, PumpInv
        <3>2. CASE Return \/ Nack \/ Exit
            BY <3>2, LeaveType
        <3> QED BY <1>5, <3>1, <3>2 DEF Connected
    <2> QED BY <1>5, <1>d, <2>1 DEF Connected, DataSame
<1>6. CASE Unconnected
    BY <1>6, <1>d, LeaveType DEF Unconnected, DataSame
<1>r. pc \in {"sending", "injecting"} => req \in 1..MaxRequests /\ cur \in Legs
    BY <1>0, <1>m DEF PumpInv, Holding, DataTypeOK
<1>7. CASE InjectDone \/ SendFails
    <2>1. cur \in Legs /\ req \in 1..MaxRequests
        BY <1>7, <1>r DEF InjectDone, SendFails
    <2>2. inbox' = inbox \/ inbox' = [inbox EXCEPT ![cur] = Append(@, req)]
        BY <1>7 DEF InjectDone, SendFails, Delivered
    <2>3. inbox' \in [Legs -> Seq(1..MaxRequests)]
        <3>1. inbox \in [Legs -> Seq(1..MaxRequests)]
            BY <1>0 DEF DataTypeOK
        <3>2. Append(inbox[cur], req) \in Seq(1..MaxRequests)
            BY <2>1, <3>1
        <3> QED BY <2>2, <3>1, <3>2
    <2>4. ControlTypeOK'
        BY <1>7, LeaveType, FailType DEF InjectDone, SendFails
    <2>5. settled' \subseteq 1..MaxRequests
        BY <1>0, <1>7, <2>1 DEF InjectDone, SendFails, DataTypeOK
    <2>6. heard' \in [Legs -> SUBSET (1..MaxRequests)]
        <3>1. heard' = heard \/ heard' = [heard EXCEPT ![cur] = @ \cup {req}]
            BY <1>7 DEF InjectDone, SendFails, Delivered
        <3>2. heard \in [Legs -> SUBSET (1..MaxRequests)]
            BY <1>0 DEF DataTypeOK
        <3>3. heard[cur] \cup {req} \in SUBSET (1..MaxRequests)
            BY <2>1, <3>2
        <3> QED BY <3>1, <3>2, <3>3
    <2>7. UNCHANGED <<req, tgt, accepted, pending, late, frame, out, cache, reader,
                      read, queue, answered, added, setup>>
        BY <1>7 DEF InjectDone, SendFails
    <2> QED BY <1>0, <2>3, <2>4, <2>5, <2>6, <2>7 DEF DataTypeOK
<1>8. CASE SendDone
    <2>1. cur \in Legs /\ req \in 1..MaxRequests
        BY <1>8, <1>r DEF SendDone
    <2>2. inbox' = [inbox EXCEPT ![cur] = Append(@, req)]
        BY <1>8 DEF SendDone, Delivered
    <2>3. inbox' \in [Legs -> Seq(1..MaxRequests)]
        BY <1>0, <2>1, <2>2 DEF DataTypeOK
    <2>4. reader[tgt] \in Legs \cup {NoLeg}
        BY <1>0 DEF DataTypeOK
    <2>5. /\ ControlTypeOK'
          /\ reader' \in [Targets -> Legs \cup {NoLeg}]
          /\ read' \in Reads
        BY <1>8, <2>1, <2>4, LoopHeadType DEF SendDone
    <2>6. heard' \in [Legs -> SUBSET (1..MaxRequests)]
        BY <1>0, <1>8, <2>1 DEF SendDone, Delivered, DataTypeOK
    <2> QED BY <1>0, <1>8, <2>3, <2>5, <2>6 DEF SendDone, DataTypeOK
<1>9. CASE RecvFrame
    <2>1. ControlTypeOK'
        <3>1. CASE Retire(FALSE)
            BY <3>1, RetireType
        <3>2. CASE pc' = "relaying" /\ UNCHANGED <<cur, raising, inject, leg, closer, tasks>>
            BY <1>0, <3>2 DEF ControlTypeOK, Pcs
        <3> QED BY <1>9, <3>1, <3>2 DEF RecvFrame
    <2>2. reader' \in [Targets -> Legs \cup {NoLeg}]
        BY <1>0, <1>9 DEF RecvFrame, DataTypeOK
    <2>3. frame' \in Frames /\ accepted' \in BOOLEAN
        <3>1. /\ frame' = frame \/ frame' = read.frame
              /\ accepted' = accepted \/ accepted' = (accepted \/ read.frame.kind \in {"ack", "pend", "final"})
            BY <1>9 DEF RecvFrame
        <3>2. frame \in Frames /\ read.frame \in Frames /\ accepted \in BOOLEAN
            BY <1>0 DEF DataTypeOK, Reads
        <3> QED BY <3>1, <3>2
    <2> QED BY <1>0, <1>9, <2>1, <2>2, <2>3, NewReadType DEF RecvFrame, DataTypeOK
<1>10. CASE RecvFails
    <2>1. ControlTypeOK'
        BY <1>10, FailType, RetireType DEF RecvFails
    <2>2. reader' \in [Targets -> Legs \cup {NoLeg}]
        BY <1>0, <1>10 DEF RecvFails, DataTypeOK
    <2> QED BY <1>0, <1>10, <2>1, <2>2, NewReadType DEF RecvFails, DataTypeOK
<1>11. CASE RecvTimeout
    <2> DEFINE owner == IF read.state = Waiting THEN reader[tgt] ELSE NoLeg
    <2>1. owner \in Legs \cup {NoLeg} /\ cur \in Legs
        BY <1>0, <1>11 DEF DataTypeOK, RecvTimeout, PumpInv, Holding
    <2>2. /\ ControlTypeOK'
          /\ reader' \in [Targets -> Legs \cup {NoLeg}]
          /\ read' \in Reads
        <3>1. CASE pending
            BY <1>11, <2>1, <3>1, LoopHeadType DEF RecvTimeout
        <3>2. CASE ~pending
            <4>1. Fail(accepted) /\ reader' = [reader EXCEPT ![tgt] = owner] /\ read' = NewRead
                BY <1>11, <3>2 DEF RecvTimeout
            <4> QED BY <1>0, <2>1, <4>1, FailType, NewReadType DEF DataTypeOK
        <3> QED BY <3>1, <3>2
    <2> QED BY <1>0, <1>11, <2>2 DEF RecvTimeout, DataTypeOK
<1>12. CASE RelayDone
    <2>1. cur \in Legs /\ reader[tgt] \in Legs \cup {NoLeg}
        BY <1>0, <1>12 DEF RelayDone, PumpInv, Holding, DataTypeOK
    <2>2. /\ ControlTypeOK'
          /\ reader' \in [Targets -> Legs \cup {NoLeg}]
          /\ read' \in Reads
        <3>1. CASE LoopHead(accepted, reader[tgt])
            BY <2>1, <3>1, LoopHeadType
        <3>2. CASE (Return \/ Retire(FALSE)) /\ UNCHANGED <<reader, read>>
            <4>1. ControlTypeOK'
                BY <3>2, LeaveType, RetireType
            <4> QED BY <1>0, <3>2, <4>1 DEF DataTypeOK
        <3> QED BY <1>12, <3>1, <3>2 DEF RelayDone
    <2>3. out' \in Seq(Frames)
        <3>1. out' = out \/ out' = Append(out, frame)
            BY <1>12 DEF RelayDone
        <3>2. out \in Seq(Frames) /\ frame \in Frames
            BY <1>0 DEF DataTypeOK
        <3> QED BY <3>1, <3>2
    <2>4. frame' \in Frames /\ pending' \in BOOLEAN
        BY <1>0, <1>12, NewReadType DEF RelayDone, DataTypeOK
    <2>5. settled' \subseteq 1..MaxRequests
        <3>1. req \in 1..MaxRequests
            BY <1>0, <1>12, <1>m DEF RelayDone, PumpInv, DataTypeOK
        <3> QED BY <1>0, <1>12, <3>1 DEF RelayDone, DataTypeOK
    <2> QED BY <1>0, <1>12, <2>2, <2>3, <2>4, <2>5 DEF RelayDone, DataTypeOK
<1>13. CASE RelayFails
    <2>1. ControlTypeOK'
        BY <1>13, FailType DEF RelayFails
    <2> QED BY <1>0, <1>13, <2>1, NewReadType DEF RelayFails, DataTypeOK
<1>14. CASE NackDone
    <2>1. ControlTypeOK'
        BY <1>14, LeaveType, RetireType DEF NackDone
    <2>2. [kind |-> "local", n |-> req] \in Frames
        BY <1>0 DEF DataTypeOK, Frames
    <2>3. out' = out \/ out' = Append(out, [kind |-> "local", n |-> req])
        BY <1>14 DEF NackDone
    <2>4. out' \in Seq(Frames)
        <3>1. out \in Seq(Frames)
            BY <1>0 DEF DataTypeOK
        <3> QED BY <2>2, <2>3, <3>1
    <2> QED BY <1>0, <1>14, <2>1, <2>4 DEF NackDone, DataTypeOK
<1>15. CASE NackFails
    BY <1>15, <1>d, LeaveType, RetireType DEF NackFails, DataSame
<1>16. CASE DeadlinePasses
    BY <1>0, <1>16 DEF DeadlinePasses, ControlTypeOK, DataTypeOK
<1>17. CASE PumpCancelled
    <2>1. ControlTypeOK'
        <3>1. CASE Exit \/ Retire(TRUE)
            BY <3>1, LeaveType, RetireType
        <3>2. CASE ~(Exit \/ Retire(TRUE))
            BY <1>0, <1>17, <3>2 DEF PumpCancelled, ControlTypeOK, Pcs
        <3> QED BY <3>1, <3>2
    <2>2. reader' = reader \/ \E x \in {NoLeg, reader[tgt]} : reader' = [reader EXCEPT ![tgt] = x]
        BY <1>17 DEF PumpCancelled
    <2>3. reader' \in [Targets -> Legs \cup {NoLeg}]
        BY <1>0, <2>2 DEF DataTypeOK
    <2>4. read' = read \/ read' = NewRead
        BY <1>17 DEF PumpCancelled
    <2>5. /\ frame' = NoFrame
          /\ UNCHANGED <<req, tgt, accepted, pending, late, settled, out, cache, queue, ecu>>
        BY <1>17 DEF PumpCancelled
    <2> QED BY <1>0, <2>1, <2>3, <2>4, <2>5, NewReadType DEF DataTypeOK
<1>18. CASE \E l \in Legs : CloseDone(l)
    BY <1>0, <1>18 DEF CloseDone, ControlTypeOK, DataTypeOK
<1>19. CASE ConnectOk
    <2>1. cur \in Legs
        BY <1>19 DEF ConnectOk, PumpInv
    <2>2. /\ leg' \in [Legs -> {"fresh", "setup", "up", "eof", "closed"}]
          /\ closer' \in [Legs -> {"no", "running", "done"}]
          /\ queue' \in [Legs -> Seq(Frames)]
        <3>1. CASE StartClose({cur})
            BY <3>1, StartCloseType
        <3>2. CASE leg' = [leg EXCEPT ![cur] = "up"] /\ UNCHANGED <<closer, queue>>
            BY <1>0, <3>2 DEF ControlTypeOK, DataTypeOK
        <3> QED BY <1>19, <3>1, <3>2 DEF ConnectOk
    <2>3. cache' \in [Targets -> Legs \cup {NoLeg}] /\ connect' \in {"closing", "ok"}
        BY <1>0, <1>19, <2>1 DEF ConnectOk, DataTypeOK
    <2> QED BY <1>0, <1>19, <2>2, <2>3 DEF ConnectOk, ControlTypeOK, DataTypeOK
<1>20. CASE ConnectFails \/ ConnectClosed
    <2>1. DataTypeOK'
        BY <1>20, <1>d DEF ConnectFails, ConnectClosed, DataSame
    <2>2. CASE ConnectFails
        BY <1>0, <2>1, <2>2 DEF ConnectFails, ControlTypeOK
    <2>3. CASE ConnectClosed
        BY <1>0, <2>1, <2>3 DEF ConnectClosed, ControlTypeOK
    <2> QED BY <1>20, <2>2, <2>3
<1>21. CASE RetireBegins
    <2>1. /\ leg' \in [Legs -> {"fresh", "setup", "up", "eof", "closed"}]
          /\ closer' \in [Legs -> {"no", "running", "done"}]
          /\ queue' \in [Legs -> Seq(Frames)]
        BY <1>21, StartCloseType DEF RetireBegins
    <2>2. /\ cache' \in [Targets -> Legs \cup {NoLeg}]
          /\ reader' \in [Targets -> Legs \cup {NoLeg}]
        BY <1>0, <1>21 DEF RetireBegins, DataTypeOK
    <2> QED BY <1>0, <1>21, <2>1, <2>2 DEF RetireBegins, ControlTypeOK, DataTypeOK
<1>22. CASE RetireEnds
    BY <1>22, <1>d, LeaveType, ConnectType DEF RetireEnds, DataSame
<1>23. CASE \E t \in Targets : ReadReady(t)
    <2> PICK t \in Targets : ReadReady(t) BY <1>23
    <2>1. reader[t] \in Legs
        BY <1>0 DEF ReadReady, DataTypeOK
    <2>2. queue[reader[t]] \in Seq(Frames)
        BY <1>0, <2>1 DEF DataTypeOK
    <2>3. CASE queue[reader[t]] # <<>> /\ read' = [state |-> "frame", frame |-> Head(queue[reader[t]])]
                /\ queue' = [queue EXCEPT ![reader[t]] = Tail(@)]
        <3>1. Head(queue[reader[t]]) \in Frames /\ Tail(queue[reader[t]]) \in Seq(Frames)
            BY <2>2, <2>3
        <3>2. queue' \in [Legs -> Seq(Frames)] /\ read' \in Reads
            BY <1>0, <2>3, <3>1 DEF DataTypeOK, Reads
        <3> QED BY <1>0, <3>2 DEF ReadReady, ControlTypeOK, DataTypeOK
    <2>4. CASE read' = [state |-> Failed, frame |-> NoFrame] /\ UNCHANGED queue
        BY <1>0, <2>4, NewReadType DEF ReadReady, ControlTypeOK, DataTypeOK, Reads
    <2> QED BY <2>3, <2>4 DEF ReadReady
<1>24. CASE \E l \in Legs : EcuStep(l)
    <2> PICK l \in Legs : EcuStep(l) BY <1>24
    <2>1. inbox[l] \in Seq(1..MaxRequests) /\ queue[l] \in Seq(Frames)
        BY <1>0 DEF DataTypeOK
    <2>2. CASE EcuAnswers(l)
        <3>1. PICK k \in Kinds :
                 /\ queue' = [queue EXCEPT ![l] = Append(@, [kind |-> k, n |-> Head(inbox[l])])]
                 /\ answered' = [answered EXCEPT ![l] =
                        CASE k = "ack" -> "acked" [] k = "pend" -> "pended" [] OTHER -> "no"]
                 /\ inbox' = IF k \in {"ack", "pend"} THEN inbox
                             ELSE [inbox EXCEPT ![l] = Tail(@)]
            <4>1. CASE answered[l] = "no"
                BY <2>2, <4>1 DEF EcuAnswers, Kinds
            <4>2. CASE answered[l] = "acked"
                BY <2>2, <4>2 DEF EcuAnswers, Kinds
            <4>3. CASE answered[l] = "pended"
                BY <2>2, <4>3 DEF EcuAnswers, Kinds
            <4>4. answered[l] = "no" \/ answered[l] = "acked" \/ answered[l] = "pended"
                BY <1>0 DEF DataTypeOK
            <4> QED BY <4>1, <4>2, <4>3, <4>4
        <3>2. Head(inbox[l]) \in 1..MaxRequests /\ Tail(inbox[l]) \in Seq(1..MaxRequests)
            <4>1. inbox[l] # <<>>
                BY <2>2 DEF EcuAnswers
            <4> QED BY <2>1, <4>1, HeadTail
        <3>3. [kind |-> k, n |-> Head(inbox[l])] \in Frames
            BY <1>m, <3>2 DEF Frames
        <3>4. queue' \in [Legs -> Seq(Frames)]
            BY <1>0, <2>1, <3>1, <3>3 DEF DataTypeOK
        <3>5. inbox' \in [Legs -> Seq(1..MaxRequests)]
            BY <1>0, <3>1, <3>2 DEF DataTypeOK
        <3>6. \E a \in {"no", "acked", "pended"} : answered' = [answered EXCEPT ![l] = a]
            BY <3>1
        <3>7. answered' \in [Legs -> {"no", "acked", "pended"}]
            BY <1>0, <3>6 DEF DataTypeOK
        <3>8. UNCHANGED <<pc, exchange, out, cache, reader, read, leg, closer, heard,
                          added, setup, tasks>>
            BY <2>2 DEF EcuAnswers
        <3>9. ControlTypeOK'
            BY <1>0, <3>8 DEF ControlTypeOK
        <3>10. DataTypeOK'
            BY <1>0, <3>4, <3>5, <3>7, <3>8 DEF DataTypeOK
        <3> QED BY <3>9, <3>10
    <2>3. CASE EcuSuppresses(l)
        <3>1. inbox' \in [Legs -> Seq(1..MaxRequests)]
            <4>1. inbox[l] # <<>>
                BY <2>3 DEF EcuSuppresses, EcuInv
            <4>2. Tail(inbox[l]) \in Seq(1..MaxRequests)
                BY <2>1, <4>1, HeadTail
            <4> QED BY <1>0, <2>3, <4>2 DEF EcuSuppresses, DataTypeOK
        <3>2. answered' \in [Legs -> {"no", "acked", "pended"}]
            BY <1>0, <2>3 DEF EcuSuppresses, DataTypeOK
        <3> QED BY <1>0, <2>3, <3>1, <3>2 DEF EcuSuppresses, ControlTypeOK, DataTypeOK
    <2>4. CASE EcuStray(l)
        <3>1. PICK k \in Kinds :
                 queue' = [queue EXCEPT ![l] = Append(@, [kind |-> k, n |-> 0])]
            BY <2>4 DEF EcuStray
        <3>2. [kind |-> k, n |-> 0] \in Frames
            BY <1>m DEF Frames
        <3>3. queue' \in [Legs -> Seq(Frames)]
            BY <1>0, <2>1, <3>1, <3>2 DEF DataTypeOK
        <3>4. inbox' \in [Legs -> Seq(1..MaxRequests)]
            BY <1>0, <2>1, <2>4 DEF EcuStray, DataTypeOK
        <3>5. answered' \in [Legs -> {"no", "acked", "pended"}]
            BY <1>0, <2>4 DEF EcuStray, DataTypeOK
        <3> QED BY <1>0, <2>4, <3>3, <3>4, <3>5 DEF EcuStray, ControlTypeOK, DataTypeOK
    <2>5. CASE EcuEof(l)
        BY <1>0, <2>5 DEF EcuEof, ControlTypeOK, DataTypeOK
    <2>6. CASE EcuExtra(l)
        <3>1. PICK f \in [kind : {"pend", "final"}, n : heard[l]] :
                 queue' = [queue EXCEPT ![l] = Append(@, f)]
            BY <2>6 DEF EcuExtra
        <3>2. f \in Frames
            <4>1. heard[l] \subseteq 0..MaxRequests
                BY <1>0, <1>m DEF DataTypeOK
            <4> QED BY <4>1 DEF Frames, Kinds
        <3>3. queue' \in [Legs -> Seq(Frames)]
            BY <1>0, <2>1, <3>1, <3>2 DEF DataTypeOK
        <3>4. added' \in Nat
            BY <1>0, <2>6 DEF EcuExtra, DataTypeOK
        <3> QED BY <1>0, <2>6, <3>3, <3>4 DEF EcuExtra, ControlTypeOK, DataTypeOK
    <2> QED BY <2>2, <2>3, <2>4, <2>5, <2>6 DEF EcuStep
<1>25. CASE CloseSession \/ CleanupConnects \/ CleanupRetires \/ CleanupDone \/ Finish
    BY <1>0, <1>25, <1>d
    DEF CloseSession, CleanupConnects, CleanupRetires, CleanupDone, Finish,
        ControlTypeOK, DataSame, Pcs
<1>26. CASE CleanupReads
    <2>1. read' \in Reads
        <3>1. read' = read \/ read' = [read EXCEPT !.state = Cancelled]
            BY <1>26 DEF CleanupReads
        <3> QED BY <1>0, <3>1 DEF DataTypeOK, Reads
    <2> QED BY <1>0, <1>26, <2>1 DEF CleanupReads, ControlTypeOK, DataTypeOK
<1>27. CASE CleanupCloses
    <2>1. /\ leg' \in [Legs -> {"fresh", "setup", "up", "eof", "closed"}]
          /\ closer' \in [Legs -> {"no", "running", "done"}]
          /\ queue' \in [Legs -> Seq(Frames)]
        BY <1>27, StartCloseType DEF CleanupCloses
    <2>2. /\ cache' \in [Targets -> Legs \cup {NoLeg}]
          /\ reader' \in [Targets -> Legs \cup {NoLeg}]
        BY <1>27 DEF CleanupCloses
    <2> QED BY <1>0, <1>27, <2>1, <2>2 DEF CleanupCloses, ControlTypeOK, DataTypeOK
<1>28. CASE UNCHANGED vars
    BY <1>0, <1>28, <1>d DEF vars, ControlTypeOK, DataSame
<1> QED
    BY <1>1, <1>2, <1>3, <1>4, <1>5, <1>6, <1>7, <1>8, <1>9, <1>10, <1>11,
       <1>12, <1>13, <1>14, <1>15, <1>16, <1>17, <1>18, <1>19, <1>20, <1>21,
       <1>22, <1>23, <1>24, <1>25, <1>26, <1>27, <1>28
    DEF Next, PumpStep, LegStep, CleanupStep, Terminated

-----------------------------------------------------------------------------
(* The life of the legs: one lemma for each move of the pump.              *)

Life ==
    /\ ReadTaskOwned /\ PumpInv /\ (\A l \in Legs : LegOwned(l))
    /\ CacheInv /\ HandInv /\ TeardownInv

LEMMA LifeForm == LifeInv <=> TypeOK /\ Life /\ EcuInv
BY DEF LifeInv, Life

\* A reader is left as it is or given up.
ReadersFewer == \A t \in Targets : reader'[t] \in {reader[t], NoLeg}

\* The pump lets its leg go once no setup of it is under way.
LEMMA LeaveLife ==
    ASSUME TypeOK, Life, (Return /\ req # 0) \/ Exit,
           connect \notin {"running", "cancelled"},
           \A t \in Targets : reader'[t] = NoLeg,
           UNCHANGED <<req, tgt, cache, queue>>
    PROVE  Life'
<1>1. /\ pc' \in {"idle", "middleware", "stopping"} /\ cur' = NoLeg
      /\ connect' = "no" /\ retire' = "no"
      /\ pc' = "middleware" => req # 0
      /\ UNCHANGED <<leg, closer>>
      /\ cleanup' = cleanup \/ (cleanup = "no" /\ cleanup' = "start")
    BY DEF Return, Exit, Consume, Life, PumpInv
<1>2. ReadTaskOwned' /\ PumpInv'
    BY <1>1 DEF ReadTaskOwned, PumpInv, Holding
<1>3. ASSUME NEW l \in Legs PROVE LegOwned(l)'
    BY <1>1 DEF Life, LegOwned
<1>4. CacheInv' /\ HandInv'
    BY <1>1 DEF Life, CacheInv, HandInv, Holding
<1>5. TeardownInv'
    BY <1>1 DEF Life, TeardownInv, Early
<1> QED BY <1>2, <1>3, <1>4, <1>5 DEF Life

\* It sends a Negative ACK, with or without a leg in hand.
LEMMA NackLife ==
    ASSUME TypeOK, Life, Nack, req # 0,
           connect \notin {"running", "cancelled"},
           \/ pc \in {"sending", "receiving", "relaying"} /\ ReadersFewer
           \/ ~Holding /\ \A t \in Targets : reader'[t] = NoLeg
           \/ retire = "closing" /\ \A t \in Targets : reader'[t] = NoLeg,
           UNCHANGED <<req, tgt, cache, queue>>
    PROVE  Life'
<1>1. /\ pc' = "nacking" /\ connect' = "no" /\ retire' = "no"
      /\ UNCHANGED <<leg, closer, cleanup>>
      /\ \/ pc \in {"sending", "receiving", "relaying"} /\ cur' = cur /\ ReadersFewer
         \/ cur' = NoLeg /\ \A t \in Targets : reader'[t] = NoLeg
    BY DEF Nack, Consume, Life, PumpInv, Holding, ReadersFewer
<1>2. (cur' = cur /\ cur \in Legs /\ Holding /\ retire = "no") \/ cur' = NoLeg
    BY <1>1 DEF Life, PumpInv, Holding
<1>3. ReadTaskOwned' /\ PumpInv'
    BY <1>1, <1>2 DEF Life, ReadTaskOwned, ReadersFewer, PumpInv, Holding
<1>4. ASSUME NEW l \in Legs PROVE LegOwned(l)'
    BY <1>1 DEF Life, LegOwned
<1>5. CacheInv'
    BY <1>1 DEF Life, CacheInv
<1>6. HandInv'
    BY <1>1, <1>2 DEF Life, HandInv, Holding
<1>7. TeardownInv'
    BY <1>1 DEF Life, TeardownInv, ReadersFewer
<1> QED BY <1>3, <1>4, <1>5, <1>6, <1>7 DEF Life

\* It has its leg retired.
LEMMA RetireLife ==
    ASSUME TypeOK, Life, NEW r, Retire(r), Holding, retire = "no",
           ReadersFewer, UNCHANGED <<req, tgt, cache, queue>>
    PROVE  Life'
<1>1. /\ pc' = "retiring" /\ retire' = "begin" /\ connect' = connect /\ connect = "no"
      /\ UNCHANGED <<cur, leg, closer, cleanup>> /\ cur \in Legs /\ req # 0
    BY DEF Retire, Life, PumpInv, Holding
<1>2. ReadTaskOwned' /\ PumpInv'
    BY <1>1 DEF Life, ReadTaskOwned, ReadersFewer, PumpInv, Holding
<1>3. ASSUME NEW l \in Legs PROVE LegOwned(l)'
    BY <1>1 DEF Life, LegOwned
<1>4. CacheInv'
    BY <1>1 DEF Life, CacheInv
<1>5. HandInv'
    BY <1>1 DEF Life, HandInv, Holding
<1>6. TeardownInv'
    BY <1>1 DEF Life, TeardownInv, ReadersFewer
<1> QED BY <1>2, <1>3, <1>4, <1>5, <1>6 DEF Life

\* The except clause of the exchange.
LEMMA FailLife ==
    ASSUME TypeOK, Life, NEW acc, Fail(acc),
           pc \in {"sending", "receiving", "relaying"},
           ReadersFewer, UNCHANGED <<req, tgt, cache, queue>>
    PROVE  Life'
<1>1. Holding /\ retire = "no" /\ connect = "no" /\ req # 0
    BY DEF Life, PumpInv, Holding
<1> QED BY <1>1, NackLife, RetireLife DEF Fail

\* The leg goes on to the next await of the exchange: to its reader, to the
\* relay of a frame, or to its first use.
LEMMA ReceiveLife ==
    ASSUME TypeOK, Life, pc \in {"sending", "receiving", "relaying"},
           pc' = "receiving", ~Closing,
           reader' = [reader EXCEPT ![tgt] = cur],
           UNCHANGED <<cur, leg, closer, tasks, req, tgt, cache, queue>>
    PROVE  Life'
<1> USE DEF tasks
<1>1. /\ connect = "no" /\ retire = "no" /\ cur \in Legs /\ req # 0
      /\ cleanup = "no" /\ Holding
    BY DEF Life, PumpInv, Holding, Closing
<1>2. ReadTaskOwned' /\ PumpInv'
    BY <1>1 DEF Life, ReadTaskOwned, PumpInv, Holding, TypeOK
<1>3. ASSUME NEW l \in Legs PROVE LegOwned(l)'
    BY <1>1 DEF Life, LegOwned
<1>4. CacheInv'
    BY DEF Life, CacheInv
<1>5. HandInv'
    BY <1>1 DEF Life, HandInv, Holding, Closing
<1>6. TeardownInv'
    BY <1>1 DEF Life, TeardownInv, Early
<1> QED BY <1>2, <1>3, <1>4, <1>5, <1>6 DEF Life

LEMMA RelayLife ==
    ASSUME TypeOK, Life, pc = "receiving", pc' = "relaying",
           reader' = [reader EXCEPT ![tgt] = NoLeg],
           UNCHANGED <<cur, leg, closer, tasks, req, tgt, cache, queue>>
    PROVE  Life'
<1> USE DEF tasks
<1>1. /\ connect = "no" /\ retire = "no" /\ cur \in Legs /\ req # 0 /\ Holding
    BY DEF Life, PumpInv, Holding
<1>2. ReadTaskOwned' /\ PumpInv' /\ \A t \in Targets : reader'[t] = NoLeg
    BY <1>1 DEF Life, ReadTaskOwned, PumpInv, Holding, TypeOK
<1>3. ASSUME NEW l \in Legs PROVE LegOwned(l)'
    BY <1>1 DEF Life, LegOwned
<1>4. CacheInv'
    BY DEF Life, CacheInv
<1>5. HandInv'
    BY <1>1 DEF Life, HandInv, Holding, Closing
<1>6. TeardownInv'
    BY <1>1, <1>2 DEF Life, TeardownInv
<1> QED BY <1>2, <1>3, <1>4, <1>5, <1>6 DEF Life

LEMMA UseLegLife ==
    ASSUME TypeOK, Life, NEW l \in Legs, UseLeg(l), ~Closing, req # 0,
           \/ pc = "middleware" /\ cache[tgt] = l
           \/ connect = "ok" /\ l = cur,
           UNCHANGED <<req, tgt, cache, reader, queue>>
    PROVE  Life'
<1>1. /\ pc' \in {"injecting", "sending"} /\ cur' = l
      /\ connect' = "no" /\ retire' = "no" /\ retire = "no"
      /\ pc \in {"middleware", "connecting", "unconnect"}
      /\ cleanup = "no" /\ cache[tgt] = l
      /\ UNCHANGED <<leg, closer, cleanup>>
    BY DEF UseLeg, Consume, Life, PumpInv, HandInv, Closing, Early
<1>2. ReadTaskOwned' /\ PumpInv' /\ \A t \in Targets : reader[t] = NoLeg
    BY <1>1, ConstantsAssumption DEF Life, ReadTaskOwned, PumpInv, Holding
<1>3. ASSUME NEW m \in Legs PROVE LegOwned(m)'
    BY <1>1 DEF Life, LegOwned, PumpInv
<1>4. CacheInv'
    BY <1>1 DEF Life, CacheInv
<1>5. HandInv'
    BY <1>1, ConstantsAssumption DEF Life, HandInv, CacheInv, TypeOK
<1>6. TeardownInv'
    BY <1>1 DEF Life, TeardownInv, Early
<1> QED BY <1>2, <1>3, <1>4, <1>5, <1>6 DEF Life

\* A new leg is set up, or the target has none.
LEMMA ConnectLife ==
    ASSUME TypeOK, Life, Connect, req # 0, cache[tgt] = NoLeg,
           \/ pc = "middleware"
           \/ pc = "retireOld" /\ retire = "closing" /\ closer[cur] = "done",
           UNCHANGED <<req, tgt, cache, reader, queue>>
    PROVE  Life'
<1>1. connect = "no" /\ \A t \in Targets : reader[t] = NoLeg
    BY DEF Life, PumpInv, ReadTaskOwned
<1>2. CASE Return
    BY <1>1, <1>2, LeaveLife
<1>3. CASE Nack
    BY <1>1, <1>3, NackLife DEF Holding
<1>4. CASE ~Return /\ ~Nack
    <2>1. PICK l \in Legs :
             /\ leg[l] \in {"fresh", "closed"}
             /\ pc' = "connecting" /\ cur' = l
             /\ connect' = "running" /\ retire' = "no"
             /\ leg' = [leg EXCEPT ![l] = "setup"]
             /\ closer' = [closer EXCEPT ![l] = "no"]
             /\ cleanup' = cleanup
        BY <1>4 DEF Connect
    <2>2. cleanup = "no"
        BY <1>4 DEF Connect, Closing
    <2>3. \A m \in Legs \ {l} : leg'[m] = leg[m] /\ closer'[m] = closer[m]
        BY <2>1 DEF TypeOK
    <2>4. leg'[l] = "setup" /\ closer'[l] = "no"
        BY <2>1 DEF TypeOK
    <2>5. \A t \in Targets : cache[t] # l
        BY <2>1, ConstantsAssumption DEF Life, CacheInv
    <2>6. ReadTaskOwned' /\ PumpInv'
        BY <1>1, <2>1 DEF ReadTaskOwned, PumpInv, Holding
    <2>7. ASSUME NEW m \in Legs PROVE LegOwned(m)'
        BY <1>1, <2>1, <2>3, <2>4, <2>5 DEF Life, LegOwned
    <2>8. CacheInv'
        BY <2>3, <2>5 DEF Life, CacheInv, TypeOK
    <2>9. HandInv'
        BY <2>1, <2>4 DEF HandInv, Holding
    <2>10. TeardownInv'
        BY <2>1, <2>2 DEF TeardownInv, Early
    <2> QED BY <2>6, <2>7, <2>8, <2>9, <2>10 DEF Life
<1> QED BY <1>2, <1>3, <1>4

\* The cached leg is used, retired or replaced.
LEMMA RouteLife ==
    ASSUME TypeOK, Life, Route, req # 0, pc = "middleware", ~Closing,
           UNCHANGED <<req, tgt, cache, reader, queue>>
    PROVE  Life'
<1> DEFINE l == cache[tgt]
<1>1. CASE l = NoLeg
    BY <1>1, ConnectLife DEF Route
<1>2. CASE l # NoLeg /\ leg[l] = "up"
    <2>1. l \in Legs /\ UseLeg(l)
        BY <1>2 DEF TypeOK, Route
    <2> QED BY <2>1, UseLegLife
<1>3. CASE l # NoLeg /\ leg[l] # "up"
    <2>1. /\ pc' = "retireOld" /\ cur' = l /\ retire' = "begin" /\ l \in Legs
          /\ connect' = "no" /\ connect = "no" /\ cleanup = "no"
          /\ UNCHANGED <<leg, closer, cleanup>>
          /\ \A t \in Targets : reader[t] = NoLeg
        BY <1>3 DEF Route, Life, PumpInv, ReadTaskOwned, TypeOK, Closing
    <2>2. ReadTaskOwned' /\ PumpInv'
        BY <2>1 DEF ReadTaskOwned, PumpInv, Holding
    <2>3. ASSUME NEW m \in Legs PROVE LegOwned(m)'
        BY <2>1 DEF Life, LegOwned
    <2>4. CacheInv'
        BY <2>1 DEF Life, CacheInv
    <2>5. HandInv'
        BY <1>3, <2>1 DEF Life, HandInv, CacheInv, TypeOK
    <2>6. TeardownInv'
        BY <2>1 DEF TeardownInv, Early
    <2> QED BY <2>2, <2>3, <2>4, <2>5, <2>6 DEF Life
<1> QED BY <1>1, <1>2, <1>3

\* The head of the receive loop.
LEMMA LoopHeadLife ==
    ASSUME TypeOK, Life, NEW acc, NEW owner \in {NoLeg, reader[tgt]},
           LoopHead(acc, owner), pc \in {"sending", "receiving", "relaying"},
           UNCHANGED <<req, tgt, cache, queue>>
    PROVE  Life'
<1> USE DEF tasks
<1>1. CASE Closing \/ late \/ owner \notin {NoLeg, cur}
    <2>1. ReadersFewer
        BY <1>1 DEF LoopHead, ReadersFewer, TypeOK
    <2>2. Holding /\ retire = "no"
        BY DEF Life, PumpInv, Holding
    <2> QED BY <1>1, <2>1, <2>2, RetireLife, FailLife DEF LoopHead
<1>2. CASE ~(Closing \/ late \/ owner \notin {NoLeg, cur})
    BY <1>2, ReceiveLife DEF LoopHead
<1> QED BY <1>1, <1>2

-----------------------------------------------------------------------------
(* The life of the legs: the steps of the pump.                            *)

LEMMA PumpLife ==
    ASSUME TypeOK, Life,
           \/ \E t \in Targets : Request(t)
           \/ ReadEof \/ PumpCancelled \/ DeadlinePasses \/ PumpStep
    PROVE  Life'
<1> USE DEF exchange, legs, ecu, tasks
<1>r. pc \notin {"receiving", "nacking", "retiring"} => \A t \in Targets : reader[t] = NoLeg
    BY DEF Life, ReadTaskOwned
<1>q. pc \notin {"idle", "stopping", "finished"} => req # 0
    BY DEF Life, PumpInv
<1>c. pc \notin {"connecting", "unconnect"} => connect = "no"
    BY DEF Life, PumpInv
<1>1. CASE \E t \in Targets : Request(t)
    <2>1. /\ pc = "idle" /\ pc' = "middleware" /\ req' = req + 1 /\ cur = NoLeg
          /\ connect = "no" /\ retire = "no" /\ cleanup = "no"
          /\ UNCHANGED <<cur, cache, reader, leg, closer, queue, connect, retire, cleanup>>
        BY <1>1 DEF Request, Life, PumpInv, Closing
    <2>2. req' # 0
        BY <2>1, ConstantsAssumption DEF TypeOK
    <2>3. ReadTaskOwned' /\ PumpInv'
        BY <1>r, <2>1, <2>2 DEF ReadTaskOwned, PumpInv, Holding
    <2>4. ASSUME NEW m \in Legs PROVE LegOwned(m)'
        BY <2>1 DEF Life, LegOwned
    <2>5. CacheInv' /\ HandInv'
        BY <2>1 DEF Life, CacheInv, HandInv, Holding
    <2>6. TeardownInv'
        BY <2>1 DEF Life, TeardownInv
    <2> QED BY <2>3, <2>4, <2>5, <2>6 DEF Life
<1>2. CASE ReadEof
    BY <1>2, <1>r, <1>c, LeaveLife DEF ReadEof
<1>3. CASE ReplayStarts \/ DeadlinePasses
    <2>1. UNCHANGED <<pc, req, tgt, cur, legs, tasks>>
        BY <1>3 DEF ReplayStarts, DeadlinePasses
    <2>2. ReadTaskOwned' /\ PumpInv'
        BY <2>1 DEF Life, ReadTaskOwned, PumpInv, Holding
    <2>3. ASSUME NEW m \in Legs PROVE LegOwned(m)'
        BY <2>1 DEF Life, LegOwned
    <2>4. CacheInv' /\ HandInv'
        BY <2>1 DEF Life, CacheInv, HandInv, Holding, Closing
    <2>5. TeardownInv'
        BY <2>1 DEF Life, TeardownInv
    <2> QED BY <2>2, <2>3, <2>4, <2>5 DEF Life
<1>4. CASE MiddlewareDone
    BY <1>4, <1>r, <1>q, <1>c, RouteLife, LeaveLife, NackLife
    DEF MiddlewareDone, Holding
<1>5. CASE Connected
    <2>1. /\ pc = "connecting" /\ req # 0 /\ cur \in Legs /\ ~Holding
          /\ \A t \in Targets : reader'[t] = NoLeg
          /\ UNCHANGED <<req, tgt, cache, reader, queue>>
        BY <1>5, <1>r, <1>q DEF Connected, Life, PumpInv, Holding
    <2>2. CASE connect = "ok" /\ ~Closing /\ UseLeg(cur)
        BY <2>1, <2>2, UseLegLife
    <2>3. CASE connect \notin {"running", "cancelled"} /\ (Return \/ Nack \/ Exit)
        BY <2>1, <2>3, LeaveLife, NackLife
    <2> QED BY <1>5, <2>2, <2>3 DEF Connected
<1>6. CASE Unconnected
    BY <1>6, <1>r, <1>q, LeaveLife DEF Unconnected
<1>7. CASE InjectDone
    BY <1>7, <1>r, <1>q, <1>c, LeaveLife DEF InjectDone
<1>8. CASE SendDone
    BY <1>8, LoopHeadLife DEF SendDone
<1>9. CASE SendFails
    BY <1>9, FailLife DEF SendFails, ReadersFewer
<1>10. CASE RecvFrame
    <2>1. /\ pc = "receiving" /\ reader' = [reader EXCEPT ![tgt] = NoLeg]
          /\ UNCHANGED <<req, tgt, cache, queue>>
          /\ \/ Retire(FALSE)
             \/ pc' = "relaying" /\ UNCHANGED <<cur, leg, closer, tasks>>
        BY <1>10 DEF RecvFrame
    <2>2. ReadersFewer /\ Holding /\ retire = "no"
        BY <2>1 DEF ReadersFewer, TypeOK, Life, PumpInv, Holding
    <2> QED BY <2>1, <2>2, RetireLife, RelayLife
<1>11. CASE RecvFails
    <2>1. /\ pc = "receiving" /\ reader' = [reader EXCEPT ![tgt] = NoLeg]
          /\ UNCHANGED <<req, tgt, cache, queue>>
          /\ Retire(TRUE) \/ Fail(accepted)
        BY <1>11 DEF RecvFails
    <2>2. ReadersFewer /\ Holding /\ retire = "no"
        BY <2>1 DEF ReadersFewer, TypeOK, Life, PumpInv, Holding
    <2> QED BY <2>1, <2>2, RetireLife, FailLife
<1>12. CASE RecvTimeout
    <2> DEFINE owner == IF read.state = Waiting THEN reader[tgt] ELSE NoLeg
    <2>1. /\ pc = "receiving" /\ owner \in {NoLeg, reader[tgt]}
          /\ UNCHANGED <<req, tgt, cache, queue>>
          /\ \/ LoopHead(accepted, owner)
             \/ Fail(accepted) /\ reader' = [reader EXCEPT ![tgt] = owner]
        BY <1>12 DEF RecvTimeout
    <2>2. CASE LoopHead(accepted, owner)
        BY <2>1, <2>2, LoopHeadLife
    <2>3. CASE Fail(accepted) /\ reader' = [reader EXCEPT ![tgt] = owner]
        <3>1. ReadersFewer
            BY <2>1, <2>3 DEF ReadersFewer, TypeOK
        <3> QED BY <2>1, <2>3, <3>1, FailLife
    <2> QED BY <2>1, <2>2, <2>3
<1>13. CASE RelayDone
    <2>1. pc = "relaying" /\ UNCHANGED <<req, tgt, cache, queue>>
        BY <1>13 DEF RelayDone
    <2>2. CASE LoopHead(accepted, reader[tgt])
        BY <2>1, <2>2, LoopHeadLife
    <2>3. CASE (Return \/ Retire(FALSE)) /\ UNCHANGED <<reader, read>>
        <3>1. /\ ReadersFewer /\ Holding /\ retire = "no" /\ connect = "no" /\ req # 0
              /\ \A t \in Targets : reader'[t] = NoLeg
            BY <1>r, <1>q, <1>c, <2>1, <2>3 DEF ReadersFewer, Life, PumpInv, Holding
        <3> QED BY <2>1, <2>3, <3>1, LeaveLife, RetireLife
    <2> QED BY <1>13, <2>2, <2>3 DEF RelayDone
<1>14. CASE RelayFails
    BY <1>14, FailLife DEF RelayFails, ReadersFewer
<1>15. CASE NackDone \/ NackFails
    <2>1. /\ pc = "nacking" /\ retire = "no" /\ connect = "no" /\ req # 0
          /\ UNCHANGED <<req, tgt, cache, reader, queue>>
          /\ IF cur = NoLeg THEN Return \/ Exit ELSE Retire(FALSE) \/ Retire(TRUE)
        BY <1>15, <1>q, <1>c DEF NackDone, NackFails, Life, PumpInv
    <2>2. CASE cur = NoLeg
        <3>1. \A t \in Targets : reader'[t] = NoLeg
            BY <2>1, <2>2 DEF Life, ReadTaskOwned
        <3> QED BY <2>1, <2>2, <3>1, LeaveLife
    <2>3. CASE cur # NoLeg
        <3>1. Holding /\ ReadersFewer
            BY <2>1, <2>3 DEF Holding, ReadersFewer
        <3> QED BY <2>1, <2>3, <3>1, RetireLife
    <2> QED BY <2>2, <2>3
<1>16. CASE PumpCancelled
    <2>0. UNCHANGED <<req, tgt, cache, queue>>
        BY <1>16 DEF PumpCancelled
    <2>1. CASE /\ \/ pc \in {"idle", "middleware", "injecting"}
                  \/ pc = "nacking" /\ cur = NoLeg
               /\ Exit /\ UNCHANGED <<reader, read>>
        <3>1. \A t \in Targets : reader'[t] = NoLeg
            BY <1>r, <2>1 DEF Life, ReadTaskOwned
        <3> QED BY <1>c, <2>0, <2>1, <3>1, LeaveLife
    <2>2. CASE /\ \/ pc \in {"sending", "receiving", "relaying"}
                  \/ pc = "nacking" /\ cur # NoLeg
               /\ Retire(TRUE)
               /\ reader' = [reader EXCEPT ![tgt] =
                     IF pc = "receiving" /\ read.state # Waiting THEN NoLeg ELSE @]
        <3>1. Holding /\ ReadersFewer /\ retire = "no"
            BY <2>2 DEF Holding, ReadersFewer, TypeOK, Life, PumpInv
        <3> QED BY <2>0, <2>2, <3>1, RetireLife
    <2>3. CASE UNCHANGED <<pc, cur, leg, closer, tasks, reader>>
        <3>1. ReadTaskOwned' /\ PumpInv'
            BY <2>0, <2>3 DEF Life, ReadTaskOwned, PumpInv, Holding
        <3>2. ASSUME NEW m \in Legs PROVE LegOwned(m)'
            BY <2>0, <2>3 DEF Life, LegOwned
        <3>3. CacheInv' /\ HandInv'
            BY <2>0, <2>3 DEF Life, CacheInv, HandInv, Holding, Closing
        <3>4. TeardownInv'
            BY <2>0, <2>3 DEF Life, TeardownInv
        <3> QED BY <3>1, <3>2, <3>3, <3>4 DEF Life
    <2>4. CASE /\ pc = "connecting" /\ pc' = "unconnect"
               /\ connect' = IF connect = "running" THEN "cancelled" ELSE connect
               /\ UNCHANGED <<cur, leg, closer, retire, cleanup, reader>>
        <3>1. ReadTaskOwned' /\ PumpInv'
            BY <1>q, <1>r, <2>0, <2>4 DEF Life, ReadTaskOwned, PumpInv, Holding
        <3>2. ASSUME NEW m \in Legs PROVE LegOwned(m)'
            BY <2>0, <2>4 DEF Life, LegOwned
        <3>3. CacheInv' /\ HandInv'
            BY <2>0, <2>4 DEF Life, CacheInv, HandInv, Holding, Closing, PumpInv
        <3>4. TeardownInv'
            BY <2>0, <2>4 DEF Life, TeardownInv
        <3> QED BY <3>1, <3>2, <3>3, <3>4 DEF Life
    <2> QED BY <1>16, <2>1, <2>2, <2>3, <2>4 DEF PumpCancelled
<1> QED
    BY <1>1, <1>2, <1>3, <1>4, <1>5, <1>6, <1>7, <1>8, <1>9, <1>10, <1>11,
       <1>12, <1>13, <1>14, <1>15, <1>16 DEF PumpStep

-----------------------------------------------------------------------------
(* The life of the legs: their own steps, and those of the teardown.       *)

LEMMA LegLife ==
    ASSUME TypeOK, Life, LegStep \/ \E l \in Legs : EcuStep(l)
    PROVE  Life'
<1> USE DEF exchange, legs, ecu, tasks
<1>1. CASE \E l \in Legs : CloseDone(l)
    <2> PICK l \in Legs : CloseDone(l) BY <1>1
    <2>0. closer[l] = "running" /\ leg[l] = "eof" /\ queue[l] = <<>>
        BY DEF CloseDone, Life, LegOwned
    <2>00. \A t \in Targets : cache[t] # l
        BY <2>0, ConstantsAssumption DEF Life, CacheInv
    <2>1. /\ closer[l] = "running" /\ leg[l] = "eof" /\ queue[l] = <<>>
          /\ closer'[l] = "done" /\ leg'[l] = "closed"
          /\ \A m \in Legs \ {l} : closer'[m] = closer[m] /\ leg'[m] = leg[m]
          /\ \A t \in Targets : cache[t] # l
          /\ UNCHANGED <<pc, req, tgt, cur, cache, reader, queue, connect, retire, cleanup>>
        BY <2>0, <2>00 DEF CloseDone, TypeOK
    <2>2. ReadTaskOwned' /\ PumpInv'
        BY <2>1 DEF Life, ReadTaskOwned, PumpInv, Holding
    <2>3. ASSUME NEW m \in Legs PROVE LegOwned(m)'
        BY <2>1 DEF Life, LegOwned
    <2>4. CacheInv'
        BY <2>1 DEF Life, CacheInv, TypeOK
    <2>5. HandInv'
        BY <2>1 DEF Life, HandInv, Holding, Closing, PumpInv
    <2>6. TeardownInv'
        BY <2>1 DEF Life, TeardownInv
    <2> QED BY <2>2, <2>3, <2>4, <2>5, <2>6 DEF Life
<1>2. CASE ConnectOk
    <2>0. /\ connect = "running" /\ retire = "no" /\ ~Holding /\ cur \in Legs
          /\ leg[cur] = "setup" /\ closer[cur] = "no" /\ cache[tgt] = NoLeg
        BY <1>2 DEF ConnectOk, Life, PumpInv, HandInv, Holding
    <2>00. \A t \in Targets : cache[t] # cur
        BY <2>0, ConstantsAssumption DEF Life, CacheInv
    <2>1. /\ connect = "running" /\ retire = "no" /\ ~Holding /\ cur \in Legs
          /\ leg[cur] = "setup" /\ closer[cur] = "no" /\ cache[tgt] = NoLeg
          /\ \A t \in Targets : cache[t] # cur
          /\ cleanup \in {"no", "start", "connects"}
          /\ UNCHANGED <<pc, req, tgt, cur, reader, retire, cleanup>>
        BY <1>2, <2>0, <2>00 DEF ConnectOk, Life, TeardownInv, TypeOK
    <2>2. ReadTaskOwned' /\ PumpInv' /\ ~Holding' /\ connect' \in {"closing", "ok"}
        BY <1>2, <2>1 DEF ConnectOk, Life, ReadTaskOwned, PumpInv, Holding
    <2>3. CASE Closing
        <3>1. /\ connect' = "closing" /\ UNCHANGED cache
              /\ closer'[cur] = "running" /\ leg'[cur] = "eof" /\ queue'[cur] = <<>>
              /\ \A m \in Legs \ {cur} :
                    closer'[m] = closer[m] /\ leg'[m] = leg[m] /\ queue'[m] = queue[m]
            BY <1>2, <2>1, <2>3 DEF ConnectOk, StartClose, TypeOK
        <3>2. ASSUME NEW m \in Legs PROVE LegOwned(m)'
            BY <2>1, <3>1 DEF Life, LegOwned
        <3>3. CacheInv'
            BY <2>1, <3>1 DEF Life, CacheInv, TypeOK
        <3>4. HandInv'
            BY <2>1, <2>2, <2>3, <3>1 DEF HandInv, Closing
        <3>5. TeardownInv'
            BY <2>1, <2>2 DEF TeardownInv, Early
        <3> QED BY <2>2, <3>2, <3>3, <3>4, <3>5 DEF Life
    <2>4. CASE ~Closing
        <3>1. /\ connect' = "ok" /\ UNCHANGED <<closer, queue>>
              /\ leg'[cur] = "up" /\ cache'[tgt] = cur
              /\ \A m \in Legs \ {cur} : leg'[m] = leg[m]
              /\ \A t \in Targets \ {tgt} : cache'[t] = cache[t]
            BY <1>2, <2>1, <2>4 DEF ConnectOk, TypeOK
        <3>2. ASSUME NEW m \in Legs PROVE LegOwned(m)'
            <4>1. CASE m = cur
                BY <2>1, <3>1, <4>1 DEF LegOwned, TypeOK
            <4>2. CASE m # cur
                <5>1. \A t \in Targets : cache[t] = m => cache'[t] = m
                    BY <2>1, <3>1, ConstantsAssumption
                <5> QED BY <2>1, <3>1, <4>2, <5>1 DEF Life, LegOwned
            <4> QED BY <4>1, <4>2
        <3>3. CacheInv'
            <4>1. ASSUME NEW t \in Targets
                  PROVE  \/ t = tgt /\ cache'[t] = cur
                         \/ t # tgt /\ cache'[t] = cache[t]
                <5>1. CASE t = tgt BY <3>1, <5>1
                <5>2. CASE t # tgt BY <3>1, <5>2
                <5> QED BY <5>1, <5>2
            <4>2. \A t \in Targets : cache[t] # NoLeg =>
                     cache[t] \in Legs \ {cur}
                BY <2>1 DEF TypeOK
            <4> QED BY <2>1, <3>1, <4>1, <4>2 DEF Life, CacheInv
        <3>4. HandInv'
            BY <2>1, <2>2, <3>1 DEF HandInv
        <3>5. TeardownInv'
            BY <2>1, <2>2 DEF TeardownInv, Early
        <3> QED BY <2>2, <3>2, <3>3, <3>4, <3>5 DEF Life
    <2> QED BY <2>3, <2>4
<1>3. CASE ConnectFails
    <2>1. /\ connect \in {"running", "cancelled"} /\ connect' \in {"failed", "aborted"}
          /\ retire = "no" /\ ~Holding /\ cur \in Legs
          /\ leg[cur] = "setup" /\ closer[cur] = "no" /\ leg'[cur] = "closed"
          /\ \A m \in Legs \ {cur} : leg'[m] = leg[m]
          /\ \A t \in Targets : cache[t] # cur
          /\ UNCHANGED <<pc, req, tgt, cur, reader, cache, closer, queue, retire, cleanup>>
        BY <1>3, ConstantsAssumption
        DEF ConnectFails, Life, PumpInv, HandInv, CacheInv, Holding, TypeOK
    <2>2. ReadTaskOwned' /\ PumpInv' /\ ~Holding'
        BY <2>1 DEF Life, ReadTaskOwned, PumpInv, Holding
    <2>3. ASSUME NEW m \in Legs PROVE LegOwned(m)'
        BY <2>1 DEF Life, LegOwned
    <2>4. CacheInv'
        BY <2>1 DEF Life, CacheInv, TypeOK
    <2>5. HandInv'
        BY <2>1, <2>2 DEF HandInv
    <2>6. TeardownInv'
        BY <2>1 DEF Life, TeardownInv
    <2> QED BY <2>2, <2>3, <2>4, <2>5, <2>6 DEF Life
<1>4. CASE ConnectClosed
    <2>1. /\ connect = "closing" /\ connect' \in {"late", "aborted"} /\ retire = "no" /\ ~Holding
          /\ UNCHANGED <<pc, req, tgt, cur, legs, retire, cleanup>>
        BY <1>4 DEF ConnectClosed, Life, PumpInv, Holding
    <2>2. ReadTaskOwned' /\ PumpInv' /\ ~Holding'
        BY <2>1 DEF Life, ReadTaskOwned, PumpInv, Holding
    <2>3. ASSUME NEW m \in Legs PROVE LegOwned(m)'
        BY <2>1 DEF Life, LegOwned
    <2>4. CacheInv' /\ HandInv'
        BY <2>1, <2>2 DEF Life, CacheInv, HandInv
    <2>5. TeardownInv'
        BY <2>1 DEF Life, TeardownInv
    <2> QED BY <2>2, <2>3, <2>4, <2>5 DEF Life
<1>5. CASE RetireBegins
    <2>1. /\ retire = "begin" /\ retire' = "closing" /\ pc \in {"retiring", "retireOld"}
          /\ cur \in Legs /\ Holding /\ connect = "no"
          /\ UNCHANGED <<pc, req, tgt, cur, connect, cleanup>>
          /\ cache' = [cache EXCEPT ![tgt] = IF @ = cur THEN NoLeg ELSE @]
          /\ reader' = [reader EXCEPT ![tgt] = IF @ = cur THEN NoLeg ELSE @]
        BY <1>5 DEF RetireBegins, Life, PumpInv, Holding
    <2>2. /\ closer'[cur] = IF closer[cur] = "no" THEN "running" ELSE closer[cur]
          /\ leg'[cur] = IF leg[cur] # "closed" THEN "eof" ELSE "closed"
          /\ queue'[cur] = <<>>
          /\ \A m \in Legs \ {cur} :
                closer'[m] = closer[m] /\ leg'[m] = leg[m] /\ queue'[m] = queue[m]
        BY <1>5, <2>1 DEF RetireBegins, StartClose, TypeOK
    <2>3. /\ leg[cur] \in {"up", "eof"} \/ closer[cur] = "done"
          /\ closer[cur] = "done" => leg[cur] = "closed"
          /\ closer[cur] = "running" => leg[cur] = "eof"
          /\ closer[cur] \in {"no", "running", "done"}
        BY <2>1 DEF Life, HandInv, LegOwned, TypeOK
    <2>4. \A t \in Targets : cache'[t] = IF cache[t] = cur THEN NoLeg ELSE cache[t]
        <3>1. cache[tgt] = cur => \A t \in Targets : cache[t] = cur => t = tgt
            BY <2>1, ConstantsAssumption DEF Life, CacheInv, TypeOK
        <3>2. cache[tgt] = cur \/ \A t \in Targets : cache[t] = NoLeg
            BY <2>1 DEF Life, HandInv, TeardownInv
        <3> QED BY <2>1, <3>1, <3>2 DEF TypeOK
    <2>5. cache'[tgt] = NoLeg
        BY <2>1, <2>4 DEF Life, HandInv, TeardownInv, TypeOK
    <2>6. \A t \in Targets : reader'[t] = NoLeg
        BY <2>1 DEF Life, ReadTaskOwned, TypeOK
    <2>7. ReadTaskOwned' /\ PumpInv' /\ Holding'
        BY <2>1, <2>6 DEF Life, ReadTaskOwned, PumpInv, Holding
    <2>8. ASSUME NEW m \in Legs PROVE LegOwned(m)'
        <3>1. CASE m = cur
            BY <2>1, <2>2, <2>3, <3>1 DEF LegOwned
        <3>2. CASE m # cur
            BY <2>1, <2>2, <2>4, <3>2 DEF Life, LegOwned
        <3> QED BY <3>1, <3>2
    <2>9. CacheInv'
        BY <2>2, <2>4 DEF Life, CacheInv, TypeOK
    <2>10. HandInv'
        BY <2>1, <2>2, <2>3, <2>5, <2>6 DEF HandInv
    <2>11. TeardownInv'
        BY <2>1, <2>2, <2>3, <2>4, <2>6 DEF Life, TeardownInv, Early
    <2> QED BY <2>7, <2>8, <2>9, <2>10, <2>11 DEF Life
<1>6. CASE RetireEnds
    <2>1. /\ pc \in {"retiring", "retireOld"} /\ retire = "closing" /\ closer[cur] = "done"
          /\ connect = "no" /\ req # 0 /\ cache[tgt] = NoLeg
          /\ \A t \in Targets : reader'[t] = NoLeg
          /\ UNCHANGED <<req, tgt, cache, reader, queue>>
          /\ IF raising THEN Exit ELSE IF pc = "retireOld" THEN Connect ELSE Return
        BY <1>6 DEF RetireEnds, Life, PumpInv, HandInv
    <2> QED BY <2>1, LeaveLife, ConnectLife
<1>7. CASE \E t \in Targets : ReadReady(t)
    <2>1. PICK t \in Targets : ReadReady(t) BY <1>7
    <2>2. /\ UNCHANGED <<pc, req, tgt, cur, cache, reader, leg, closer, tasks>>
          /\ \A m \in Legs : queue[m] = <<>> => queue'[m] = <<>>
        BY <2>1 DEF ReadReady, TypeOK
    <2>3. ReadTaskOwned' /\ PumpInv'
        BY <2>2 DEF Life, ReadTaskOwned, PumpInv, Holding
    <2>4. ASSUME NEW m \in Legs PROVE LegOwned(m)'
        BY <2>2 DEF Life, LegOwned
    <2>5. CacheInv' /\ HandInv'
        BY <2>2 DEF Life, CacheInv, HandInv, Holding, Closing
    <2>6. TeardownInv'
        BY <2>2 DEF Life, TeardownInv
    <2> QED BY <2>3, <2>4, <2>5, <2>6 DEF Life
<1>8. CASE \E l \in Legs : EcuAnswers(l) \/ EcuSuppresses(l) \/ EcuStray(l) \/ EcuExtra(l)
    <2>1. PICK l \in Legs : EcuAnswers(l) \/ EcuSuppresses(l) \/ EcuStray(l) \/ EcuExtra(l)
        BY <1>8
    <2>2. /\ UNCHANGED <<pc, req, tgt, cur, cache, reader, leg, closer, tasks>>
          /\ leg[l] = "up"
          /\ \A m \in Legs \ {l} : queue'[m] = queue[m]
        BY <2>1 DEF EcuAnswers, EcuSuppresses, EcuStray, EcuExtra, TypeOK
    <2>3. ReadTaskOwned' /\ PumpInv'
        BY <2>2 DEF Life, ReadTaskOwned, PumpInv, Holding
    <2>4. ASSUME NEW m \in Legs PROVE LegOwned(m)'
        BY <2>2 DEF Life, LegOwned
    <2>5. CacheInv' /\ HandInv'
        BY <2>2 DEF Life, CacheInv, HandInv, Holding, Closing
    <2>6. TeardownInv'
        BY <2>2 DEF Life, TeardownInv
    <2> QED BY <2>3, <2>4, <2>5, <2>6 DEF Life
<1>9. CASE \E l \in Legs : EcuEof(l)
    <2>1. PICK l \in Legs : EcuEof(l) BY <1>9
    <2>2. /\ leg[l] = "up" /\ leg'[l] = "eof"
          /\ \A m \in Legs \ {l} : leg'[m] = leg[m]
          /\ UNCHANGED <<pc, req, tgt, cur, cache, reader, closer, queue, tasks>>
        BY <2>1 DEF EcuEof, TypeOK
    <2>3. ReadTaskOwned' /\ PumpInv'
        BY <2>2 DEF Life, ReadTaskOwned, PumpInv, Holding
    <2>4. ASSUME NEW m \in Legs PROVE LegOwned(m)'
        BY <2>2 DEF Life, LegOwned
    <2>5. CacheInv'
        <3>1. \A t \in Targets : cache[t] # NoLeg => cache[t] \in Legs
            BY DEF TypeOK
        <3>2. \A m \in Legs : leg[m] \in {"up", "eof"} => leg'[m] \in {"up", "eof"}
            BY <2>2
        <3> QED BY <2>2, <3>1, <3>2 DEF Life, CacheInv
    <2>6. HandInv'
        BY <2>2 DEF Life, HandInv, Holding, Closing, PumpInv
    <2>7. TeardownInv'
        BY <2>2 DEF Life, TeardownInv
    <2> QED BY <2>3, <2>4, <2>5, <2>6, <2>7 DEF Life
<1> QED
    BY <1>1, <1>2, <1>3, <1>4, <1>5, <1>6, <1>7, <1>8, <1>9 DEF LegStep, EcuStep

LEMMA CleanupLife ==
    ASSUME TypeOK, Life, CloseSession \/ CleanupStep \/ UNCHANGED vars
    PROVE  Life'
<1> USE DEF exchange, legs, ecu, tasks
<1>1. CASE CloseSession \/ CleanupConnects \/ CleanupReads
    <2>1. /\ UNCHANGED <<pc, req, tgt, cur, cache, reader, leg, closer, queue, retire>>
          /\ cleanup \in Early /\ cleanup' \in Early /\ cleanup' # "no"
          /\ connect' = connect \/ (connect = "running" /\ connect' = "cancelled")
          /\ cleanup' = "reads" => connect' \notin {"running", "cancelled", "closing"}
        BY <1>1 DEF CloseSession, CleanupConnects, CleanupReads, Early
    <2>2. ReadTaskOwned' /\ PumpInv'
        BY <2>1 DEF Life, ReadTaskOwned, PumpInv, Holding
    <2>3. ASSUME NEW m \in Legs PROVE LegOwned(m)'
        BY <2>1 DEF Life, LegOwned
    <2>4. CacheInv' /\ HandInv'
        BY <2>1 DEF Life, CacheInv, HandInv, Holding, Closing
    <2>5. TeardownInv'
        BY <2>1 DEF Life, TeardownInv, Early
    <2> QED BY <2>2, <2>3, <2>4, <2>5 DEF Life
<1>2. CASE CleanupCloses
    <2> DEFINE L == {cache[t] : t \in Targets} \ {NoLeg}
    <2>1. /\ cleanup = "reads" /\ cleanup' = "closes"
          /\ connect \notin {"running", "cancelled", "closing"}
          /\ \A t \in Targets : cache'[t] = NoLeg /\ reader'[t] = NoLeg
          /\ UNCHANGED <<pc, req, tgt, cur, connect, retire>>
          /\ StartClose(L)
        BY <1>2 DEF CleanupCloses, Life, TeardownInv
    <2>2. \A m \in Legs : m \in L =>
             /\ leg[m] \in {"up", "eof"} /\ closer[m] = "no"
             /\ leg'[m] = "eof" /\ closer'[m] = "running" /\ queue'[m] = <<>>
        BY <2>1 DEF StartClose, Life, CacheInv
    <2>3. \A m \in Legs : m \notin L =>
             leg'[m] = leg[m] /\ closer'[m] = closer[m] /\ queue'[m] = queue[m]
        BY <2>1 DEF StartClose, TypeOK
    <2>4. ReadTaskOwned' /\ PumpInv'
        BY <2>1 DEF Life, ReadTaskOwned, PumpInv, Holding
    <2>5. ASSUME NEW m \in Legs PROVE LegOwned(m)'
        <3>1. CASE m \in L
            BY <2>1, <2>2, <3>1 DEF LegOwned
        <3>2. CASE m \notin L
            <4>1. \A t \in Targets : cache[t] # m
                BY <3>2, ConstantsAssumption
            <4> QED BY <2>1, <2>3, <3>2, <4>1 DEF Life, LegOwned
        <3> QED BY <3>1, <3>2
    <2>6. CacheInv'
        BY <2>1 DEF CacheInv
    <2>7. HandInv'
        <3>1. Holding' = Holding
            BY <2>1 DEF Holding
        <3>2. Holding => leg'[cur] \in {"up", "eof"} \/ closer'[cur] = "done"
            BY <2>2, <2>3 DEF Life, HandInv, PumpInv
        <3>3. retire = "closing" => closer'[cur] # "no"
            BY <2>2, <2>3 DEF Life, HandInv, PumpInv, Holding
        <3> QED BY <2>1, <3>1, <3>2, <3>3 DEF Life, HandInv, Early, TypeOK
    <2>8. TeardownInv'
        BY <2>1 DEF TeardownInv
    <2> QED BY <2>4, <2>5, <2>6, <2>7, <2>8 DEF Life
<1>3. CASE CleanupRetires \/ CleanupDone
    <2>1. /\ UNCHANGED <<pc, req, tgt, cur, legs, connect, retire>>
          /\ cleanup \in {"closes", "retires", "last"}
          /\ cleanup' \in {"retires", "last", "done"}
          /\ cleanup = "closes" => \A l \in Legs : closer[l] # "running"
        BY <1>3 DEF CleanupRetires, CleanupDone
    <2>2. \A l \in Legs : leg[l] \in {"fresh", "closed"}
        <3>1. CASE cleanup = "closes"
            <4>1. /\ connect \notin {"running", "cancelled"}
                  /\ \A t \in Targets : cache[t] = NoLeg
                BY <3>1 DEF Life, TeardownInv, Early
            <4>2. ASSUME NEW l \in Legs PROVE leg[l] \notin {"setup", "up", "eof"}
                BY <2>1, <3>1, <4>1, ConstantsAssumption DEF Life, LegOwned
            <4> QED BY <4>2 DEF TypeOK
        <3>2. CASE cleanup \in {"retires", "last"}
            BY <3>2 DEF Life, TeardownInv
        <3> QED BY <2>1, <3>1, <3>2
    <2>3. ReadTaskOwned' /\ PumpInv'
        BY <2>1 DEF Life, ReadTaskOwned, PumpInv, Holding
    <2>4. ASSUME NEW m \in Legs PROVE LegOwned(m)'
        BY <2>1 DEF Life, LegOwned
    <2>5. CacheInv' /\ HandInv'
        BY <2>1 DEF Life, CacheInv, HandInv, Holding, Closing, Early
    <2>6. TeardownInv'
        BY <2>1, <2>2 DEF Life, TeardownInv, Early
    <2> QED BY <2>3, <2>4, <2>5, <2>6 DEF Life
<1>4. CASE Finish \/ UNCHANGED vars
    <2>1. /\ pc' = pc \/ (pc = "stopping" /\ pc' = "finished")
          /\ UNCHANGED <<req, tgt, cur, legs, tasks>>
        BY <1>4 DEF Finish, vars
    <2>2. ReadTaskOwned' /\ PumpInv' /\ Holding' = Holding
        BY <2>1 DEF Life, ReadTaskOwned, PumpInv, Holding
    <2>3. ASSUME NEW m \in Legs PROVE LegOwned(m)'
        BY <2>1 DEF Life, LegOwned
    <2>4. CacheInv' /\ HandInv'
        BY <2>1, <2>2 DEF Life, CacheInv, HandInv, Closing
    <2>5. TeardownInv'
        BY <2>1 DEF Life, TeardownInv
    <2> QED BY <2>2, <2>3, <2>4, <2>5 DEF Life
<1> QED BY <1>1, <1>2, <1>3, <1>4 DEF CleanupStep

-----------------------------------------------------------------------------
(* The requests the ECU has received.                                      *)

\* Who changes them: a send of the pump, the ECU and the end of a close.
LEMMA EcuSame ==
    ASSUME [Next]_vars,
           ~(InjectDone \/ SendDone \/ SendFails),
           ~ \E l \in Legs : CloseDone(l) \/ EcuAnswers(l) \/ EcuSuppresses(l)
                             \/ EcuStray(l) \/ EcuExtra(l)
    PROVE  UNCHANGED ecu
<1> USE DEF exchange, legs, ecu, tasks
<1>1. CASE UNCHANGED vars
    BY <1>1 DEF vars
<1>2. CASE (\E t \in Targets : Request(t)) \/ ReadEof \/ PumpCancelled \/ CloseSession \/ DeadlinePasses
    BY <1>2 DEF Request, ReadEof, PumpCancelled, CloseSession, DeadlinePasses
<1>3. CASE PumpStep
    BY <1>3
    DEF PumpStep, ReplayStarts, MiddlewareDone, Connected, Unconnected, RecvFrame,
        RecvFails, RecvTimeout, RelayDone, RelayFails, NackDone, NackFails
<1>4. CASE LegStep
    BY <1>4
    DEF LegStep, ConnectOk, ConnectFails, ConnectClosed, RetireBegins, RetireEnds,
        ReadReady
<1>5. CASE CleanupStep
    BY <1>5
    DEF CleanupStep, CleanupConnects, CleanupReads, CleanupCloses, CleanupRetires,
        CleanupDone, Finish
<1>6. CASE \E l \in Legs : EcuStep(l)
    BY <1>6 DEF EcuStep, EcuEof
<1>7. CASE Terminated
    BY <1>7 DEF Terminated, vars
<1> QED BY <1>1, <1>2, <1>3, <1>4, <1>5, <1>6, <1>7 DEF Next

\* What the ECU sends next, whatever it has done with the request.
LEMMA AnswerForm ==
    ASSUME TypeOK, NEW l \in Legs, EcuAnswers(l)
    PROVE  \E k \in {"ack", "nack", "pend", "final"} :
              /\ queue' = [queue EXCEPT ![l] =
                              Append(@, [kind |-> k, n |-> Head(inbox[l])])]
              /\ k = "ack" => answered[l] = "no" /\ answered' = [answered EXCEPT ![l] = "acked"]
              /\ k = "nack" => answered[l] = "no"
              /\ k = "pend" => answered' = [answered EXCEPT ![l] = "pended"]
              /\ k \in {"ack", "pend"} => inbox' = inbox
              /\ k \in {"nack", "final"} =>
                    /\ inbox' = [inbox EXCEPT ![l] = Tail(@)]
                    /\ answered' = [answered EXCEPT ![l] = "no"]
<1>1. answered[l] = "no" \/ answered[l] = "acked" \/ answered[l] = "pended"
    BY DEF TypeOK
<1>2. CASE answered[l] = "no"
    BY <1>2 DEF EcuAnswers
<1>3. CASE answered[l] = "acked"
    BY <1>3 DEF EcuAnswers
<1>4. CASE answered[l] = "pended"
    BY <1>4 DEF EcuAnswers
<1> QED BY <1>1, <1>2, <1>3, <1>4

LEMMA NextEcu ==
    ASSUME TypeOK, Life, EcuInv, [Next]_vars
    PROVE  EcuInv'
<1> USE DEF exchange, legs, ecu, tasks
<1>1. CASE InjectDone \/ SendDone \/ SendFails
    <2>1. inbox' = inbox \/ inbox' = [inbox EXCEPT ![cur] = Append(@, req)]
        BY <1>1 DEF InjectDone, SendDone, SendFails, Delivered
    <2>2. answered' = answered
        BY <1>1 DEF InjectDone, SendDone, SendFails
    <2>3. inbox \in [Legs -> Seq(1..MaxRequests)]
        BY DEF TypeOK
    <2>4. \A s \in Seq(1..MaxRequests) : Append(s, req) # <<>>
        OBVIOUS
    <2>5. ASSUME NEW l \in Legs, inbox'[l] = <<>> PROVE inbox[l] = <<>>
        BY <2>1, <2>3, <2>4, <2>5
    <2> QED BY <2>2, <2>5 DEF EcuInv
<1>2. CASE \E l \in Legs : CloseDone(l)
    BY <1>2 DEF CloseDone, EcuInv, TypeOK
<1>3. CASE \E l \in Legs : EcuAnswers(l)
    <2> PICK l \in Legs : EcuAnswers(l) BY <1>3
    <2>1. inbox[l] # <<>>
        BY DEF EcuAnswers
    <2>2. \/ inbox' = inbox /\ \E a : answered' = [answered EXCEPT ![l] = a]
          \/ inbox' = [inbox EXCEPT ![l] = Tail(@)] /\ answered' = [answered EXCEPT ![l] = "no"]
        BY AnswerForm
    <2> QED BY <2>1, <2>2 DEF EcuInv, TypeOK
<1>4. CASE \E l \in Legs : EcuSuppresses(l) \/ EcuStray(l)
    BY <1>4 DEF EcuSuppresses, EcuStray, EcuInv, TypeOK
<1>5. CASE UNCHANGED ecu \/ \E l \in Legs : EcuExtra(l)
    BY <1>5 DEF EcuInv, EcuExtra
<1> QED BY <1>1, <1>2, <1>3, <1>4, <1>5, EcuSame

-----------------------------------------------------------------------------
(* The theorems about the life of the legs, with ReplayMiddleware and      *)
(* without it.                                                             *)

LEMMA InitLife ==
    ASSUME Init
    PROVE  LifeInv
<1>1. ControlTypeOK
    BY DEF Init, ControlTypeOK, Pcs
<1>2. DataTypeOK
    <2>1. <<>> \in Seq(Frames) /\ <<>> \in Seq(1..MaxRequests)
        OBVIOUS
    <2>2. 0 \in 0..MaxRequests
        BY ConstantsAssumption
    <2> QED BY <2>1, <2>2, NewReadType DEF Init, DataTypeOK
<1>3. Life
    <2>1. ReadTaskOwned /\ PumpInv /\ CacheInv /\ TeardownInv
        BY ConstantsAssumption
        DEF Init, ReadTaskOwned, PumpInv, CacheInv, TeardownInv, Holding, Early
    <2>2. \A l \in Legs : LegOwned(l)
        BY DEF Init, LegOwned
    <2>3. HandInv
        BY DEF Init, HandInv, Holding
    <2> QED BY <2>1, <2>2, <2>3 DEF Life
<1>4. EcuInv
    BY DEF Init, EcuInv
<1> QED BY <1>1, <1>2, <1>3, <1>4, TypeParts, LifeForm

LEMMA NextLife ==
    ASSUME LifeInv, [Next]_vars
    PROVE  LifeInv'
<1>1. TypeOK /\ Life /\ EcuInv /\ PumpInv
    BY LifeForm DEF Life
<1>2. TypeOK'
    BY <1>1, NextType
<1>3. Life'
    BY <1>1, PumpLife, LegLife, CleanupLife DEF Next, Terminated
<1>4. EcuInv'
    BY <1>1, NextEcu
<1> QED BY <1>2, <1>3, <1>4 DEF LifeInv, Life

\* Whatever the pump, the setup of a leg, its retirement and the teardown do
\* in whatever order, an open leg is cached, being set up or being closed, and
\* every outstanding recv() belongs to the exchange in progress
\* (_ecu_conns, _ecu_connect_tasks, _ecu_close_tasks and _ecu_read_owners).
THEOREM LegLifeSafe == Spec => []LifeInv
<1>1. Init => LifeInv
    BY InitLife
<1>2. LifeInv /\ [Next]_vars => LifeInv'
    BY NextLife
<1> QED BY <1>1, <1>2, PTL DEF Spec

\* A teardown that is over has left no leg open, also when it began while one
\* was being set up or retired (_cleanup_impl).
THEOREM TeardownReleases == Spec => []CleanupReleasesLegs
<1>1. LifeInv => CleanupReleasesLegs
    BY DEF LifeInv, TeardownInv, CleanupReleasesLegs, Early
<1> QED BY <1>1, LegLifeSafe, PTL

-----------------------------------------------------------------------------
(* Sequences.                                                              *)

LEMMA Appended ==
    ASSUME NEW S, NEW s \in Seq(S), NEW x \in S
    PROVE  /\ Len(s) \in Nat /\ DOMAIN s = 1..Len(s)
           /\ Append(s, x) \in Seq(S)
           /\ DOMAIN Append(s, x) = 1..(Len(s) + 1)
           /\ Len(Append(s, x)) = Len(s) + 1
           /\ \A i \in 1..Len(s) : Append(s, x)[i] = s[i]
           /\ Append(s, x)[Len(s) + 1] = x
OBVIOUS

LEMMA Tailed ==
    ASSUME NEW S, NEW s \in Seq(S), s # <<>>
    PROVE  /\ Len(s) \in Nat \ {0} /\ DOMAIN s = 1..Len(s) /\ Head(s) = s[1]
           /\ Tail(s) \in Seq(S)
           /\ Len(Tail(s)) = Len(s) - 1
           /\ DOMAIN Tail(s) = 1..(Len(s) - 1)
           /\ \A i \in 1..(Len(s) - 1) : Tail(s)[i] = s[i + 1]
OBVIOUS

LEMMA EmptySequence ==
    ASSUME NEW S, NEW s \in Seq(S)
    PROVE  /\ Len(s) \in Nat /\ DOMAIN s = 1..Len(s)
           /\ s = <<>> <=> Len(s) = 0
           /\ Len(<<>>) = 0 /\ DOMAIN <<>> = {}
OBVIOUS

-----------------------------------------------------------------------------
(* What a leg can still say, with ReplayMiddleware and without it,         *)
(* whatever the ECU adds to its answers.                                   *)

\* Where the pump goes: no exchange is under way there, it goes on with its
\* leg, or it waits for a frame.
Apart == \A l \in Legs : ~Engaged(l)

LEMMA ApartLeave ==
    ASSUME Return \/ Exit
    PROVE  Apart' /\ pc' \notin {"receiving", "relaying"} /\ UNCHANGED leg
BY DEF Return, Exit, Apart, Engaged

LEMMA ApartConnect ==
    ASSUME TypeOK, Connect, pc \in {"middleware", "retireOld"}
    PROVE  /\ Apart' /\ pc' \notin {"receiving", "relaying"}
           /\ \/ UNCHANGED leg
              \/ \E l \in Legs :
                    leg[l] \in {"fresh", "closed"} /\ leg' = [leg EXCEPT ![l] = "setup"]
BY ConstantsAssumption DEF Connect, Return, Nack, Apart, Engaged

LEMMA ApartRoute ==
    ASSUME TypeOK, Route, pc = "middleware"
    PROVE  /\ Apart' /\ pc' \notin {"receiving", "relaying"}
           /\ \/ UNCHANGED leg
              \/ \E l \in Legs :
                    leg[l] \in {"fresh", "closed"} /\ leg' = [leg EXCEPT ![l] = "setup"]
<1>1. CASE cache[tgt] = NoLeg
    BY <1>1, ApartConnect DEF Route
<1>2. CASE cache[tgt] # NoLeg
    BY <1>2 DEF Route, UseLeg, Apart, Engaged
<1> QED BY <1>1, <1>2

LEMMA GiveUp ==
    ASSUME pc \in {"sending", "receiving", "relaying"},
           (\E acc : Fail(acc)) \/ Retire(TRUE) \/ Retire(FALSE)
    PROVE  pc' \in {"nacking", "retiring"} /\ UNCHANGED <<cur, leg>>
BY DEF Fail, Nack, Retire

LEMMA GoOn ==
    ASSUME pc \in {"sending", "receiving", "relaying"},
           NEW acc, NEW owner, LoopHead(acc, owner)
    PROVE  /\ UNCHANGED <<cur, leg>>
           /\ \/ pc' \in {"nacking", "retiring"}
              \/ pc' = "receiving" /\ read' = IF owner = NoLeg THEN NewRead ELSE read
<1>1. CASE Closing \/ late \/ owner \notin {NoLeg, cur}
    BY <1>1, GiveUp DEF LoopHead
<1>2. CASE ~(Closing \/ late \/ owner \notin {NoLeg, cur})
    BY <1>2 DEF LoopHead
<1> QED BY <1>1, <1>2

\* The legs stay as they are, and one that is let go of owes nothing.
LEMMA LegsKept ==
    ASSUME TypeOK, \A l \in Legs : LegSettled(l),
           UNCHANGED <<heard, inbox, queue>>, settled \subseteq settled',
           \/ UNCHANGED leg
           \/ \E l \in Legs :
                 leg[l] \in {"fresh", "closed"} /\ leg' = [leg EXCEPT ![l] = "setup"],
           \A l \in Legs :
              \/ ~Engaged(l)
              \/ Engaged(l)' /\ UNCHANGED req
              \/ req \in settled'
              \/ leg[l] = "closed"
    PROVE  \A l \in Legs : LegSettled(l)'
<1> SUFFICES ASSUME NEW l \in Legs PROVE LegSettled(l)'
    OBVIOUS
<1>1. LegSettled(l)
    OBVIOUS
<1>2. leg'[l] \in {"fresh", "setup", "closed"} => leg[l] \in {"fresh", "setup", "closed"}
    BY DEF TypeOK
<1>3. heard[l] \subseteq settled' \cup (IF Engaged(l)' THEN {req'} ELSE {})
    BY <1>1 DEF LegSettled
<1> QED BY <1>1, <1>2, <1>3 DEF LegSettled, Engaged

\* One leg changes; the pump and the settled requests do not.
LEMMA LegChanges ==
    ASSUME \A l \in Legs : LegSettled(l), NEW k \in Legs,
           UNCHANGED <<pc, cur, req, settled>>,
           \A l \in Legs \ {k} : /\ leg'[l] = leg[l] /\ queue'[l] = queue[l]
                                 /\ inbox'[l] = inbox[l] /\ heard'[l] = heard[l],
           LegSettled(k)'
    PROVE  \A l \in Legs : LegSettled(l)'
<1> SUFFICES ASSUME NEW l \in Legs \ {k} PROVE LegSettled(l)'
    OBVIOUS
<1>1. LegSettled(l)
    OBVIOUS
<1> QED BY <1>1 DEF LegSettled, Engaged

\* Nothing reaches the tester and no frame is handed to the pump.
LEMMA FlowRests ==
    ASSUME FlowInv, UNCHANGED <<req, out>>, settled \subseteq settled',
           \/ pc' \notin {"receiving", "relaying"}
           \/ pc' = "receiving" /\ read'.state # "frame"
           \/ UNCHANGED <<pc, read, frame>>
           \/ pc' = "relaying" /\ UNCHANGED <<pc, frame>>
    PROVE  FlowInv'
<1>1. NoLateAnswer'
    BY DEF FlowInv, NoLateAnswer, IsUds
<1>2. (req = 0 => out = <<>>)'
    BY DEF FlowInv
<1>3. (pc = "receiving" /\ read.state = "frame" => Expected(read.frame))'
    BY DEF FlowInv, Expected
<1>4. (pc = "relaying" => Expected(frame) /\ (IsUds(frame) => Matches(frame)))'
    BY DEF FlowInv, Expected, IsUds, Matches
<1> QED BY <1>1, <1>2, <1>3, <1>4 DEF FlowInv

\* The request is sent, on a leg that is open if the ECU receives it.
LEMMA SendLegs ==
    ASSUME TypeOK, \A l \in Legs : LegSettled(l), Apart, cur \in Legs, req \in 1..MaxRequests,
           \E sent \in {FALSE, leg[cur] = "up"} : Delivered(cur, sent),
           UNCHANGED <<req, leg, queue>>, settled \subseteq settled',
           req \in settled' \/ (UNCHANGED cur /\ pc' \in {"receiving", "nacking", "retiring"})
    PROVE  \A l \in Legs : LegSettled(l)'
<1>1. CASE UNCHANGED <<inbox, heard>>
    BY <1>1, LegsKept DEF Apart
<1>2. CASE /\ leg[cur] = "up"
           /\ inbox' = [inbox EXCEPT ![cur] = Append(@, req)]
           /\ heard' = [heard EXCEPT ![cur] = @ \cup {req}]
    <2> SUFFICES ASSUME NEW l \in Legs PROVE LegSettled(l)'
        OBVIOUS
    <2>1. /\ inbox[l] \in Seq(1..MaxRequests) /\ inbox \in [Legs -> Seq(1..MaxRequests)]
          /\ heard \in [Legs -> SUBSET (1..MaxRequests)]
        BY DEF TypeOK
    <2>2. LegSettled(l) /\ ~Engaged(l)
        BY DEF Apart
    <2>3. heard[l] \subseteq settled
        BY <2>2 DEF LegSettled
    <2>4. CASE l # cur
        <3>1. inbox'[l] = inbox[l] /\ heard'[l] = heard[l] /\ queue'[l] = queue[l] /\ leg'[l] = leg[l]
            BY <1>2, <2>1, <2>4
        <3> QED BY <2>2, <2>3, <3>1 DEF LegSettled
    <2>5. CASE l = cur
        <3>1. inbox'[l] = Append(inbox[l], req) /\ heard'[l] = heard[l] \cup {req}
            BY <1>2, <2>1, <2>5
        <3>2. \A i \in DOMAIN inbox'[l] : inbox'[l][i] \in heard'[l]
            <4>1. \A i \in DOMAIN inbox'[l] :
                     \/ i \in DOMAIN inbox[l] /\ inbox'[l][i] = inbox[l][i]
                     \/ inbox'[l][i] = req
                BY <2>1, <3>1, Appended
            <4> QED BY <2>2, <3>1, <4>1 DEF LegSettled
        <3>3. heard'[l] \subseteq settled' \cup (IF Engaged(l)' THEN {req'} ELSE {})
            <4>1. heard'[l] \subseteq settled' \cup {req} /\ req' = req
                BY <2>3, <3>1
            <4> QED BY <2>5, <4>1 DEF Engaged
        <3>4. \A i \in DOMAIN queue'[l] : queue'[l][i].n \in heard'[l] \cup {0}
            BY <2>2, <3>1 DEF LegSettled
        <3>5. leg'[l] = "up"
            BY <1>2, <2>5
        <3> QED BY <3>2, <3>3, <3>4, <3>5 DEF LegSettled
    <2> QED BY <2>4, <2>5
<1> QED BY <1>1, <1>2 DEF Delivered

\* The steps of the pump.
LEMMA PumpSettled ==
    ASSUME SettledInv,
           \/ \E t \in Targets : Request(t)
           \/ ReadEof \/ PumpCancelled \/ DeadlinePasses \/ PumpStep \/ RetireEnds
    PROVE  (\A l \in Legs : LegSettled(l)') /\ FlowInv'
<1> USE DEF exchange, legs, ecu, tasks
<1>0. /\ LifeInv /\ TypeOK /\ PumpInv /\ (\A l \in Legs : LegSettled(l)) /\ FlowInv
      /\ cur \in Legs => LegOwned(cur)
    BY DEF SettledInv, LifeInv, TypeOK
<1>r. pc \in {"injecting", "sending"} => cur \in Legs /\ req \in 1..MaxRequests /\ Apart
    <2>1. req \in 0..MaxRequests
        BY <1>0 DEF TypeOK
    <2>2. pc \in {"injecting", "sending"} => req # 0 /\ cur \in Legs
        BY <1>0 DEF PumpInv, Holding
    <2>3. req # 0 => req \in 1..MaxRequests
        BY <2>1, ConstantsAssumption
    <2> QED BY <2>2, <2>3 DEF Apart, Engaged
<1>1. CASE \E t \in Targets : Request(t)
    <2>1. /\ pc = "idle" /\ pc' = "middleware" /\ out' = <<>>
          /\ UNCHANGED <<heard, inbox, queue, settled, leg>>
        BY <1>1 DEF Request
    <2>2. FlowInv'
        <3>1. DOMAIN out' = {}
            BY <2>1
        <3> QED BY <2>1, <3>1 DEF FlowInv, NoLateAnswer
    <2> QED BY <1>0, <2>1, <2>2, LegsKept DEF Engaged
<1>2. CASE ReadEof \/ Connected \/ Unconnected \/ MiddlewareDone
    <2>1. /\ pc \in {"idle", "connecting", "unconnect", "middleware"}
          /\ UNCHANGED <<req, settled, out, heard, inbox, queue>>
        BY <1>2 DEF ReadEof, Connected, Unconnected, MiddlewareDone
    <2>2. /\ pc' \notin {"receiving", "relaying"}
          /\ \/ UNCHANGED leg
             \/ \E l \in Legs :
                   leg[l] \in {"fresh", "closed"} /\ leg' = [leg EXCEPT ![l] = "setup"]
        BY <1>0, <1>2, ApartLeave, ApartRoute
        DEF ReadEof, Connected, Unconnected, MiddlewareDone, UseLeg, Nack
    <2> QED BY <1>0, <2>1, <2>2, LegsKept, FlowRests DEF Engaged
<1>3. CASE ReplayStarts
    <2>1. UNCHANGED <<pc, cur, req, settled, out, read, frame, heard, inbox, queue, leg>>
        BY <1>3 DEF ReplayStarts
    <2> QED BY <1>0, <2>1, LegsKept, FlowRests DEF Engaged
<1>4. CASE InjectDone
    <2>1. /\ pc = "injecting" /\ cur \in Legs /\ req \in 1..MaxRequests /\ Apart
          /\ settled' = settled \cup {req} /\ UNCHANGED <<req, out, queue>>
          /\ \E sent \in {FALSE, leg[cur] = "up"} : Delivered(cur, sent)
        BY <1>r, <1>4 DEF InjectDone
    <2>2. pc' \notin {"receiving", "relaying"} /\ UNCHANGED leg
        BY <1>4, ApartLeave DEF InjectDone
    <2> QED BY <1>0, <2>1, <2>2, SendLegs, FlowRests
<1>5. CASE SendDone \/ SendFails
    <2>1. /\ pc = "sending" /\ cur \in Legs /\ req \in 1..MaxRequests /\ Apart
          /\ UNCHANGED <<req, settled, out, queue>>
          /\ \E sent \in {FALSE, leg[cur] = "up"} : Delivered(cur, sent)
        <3>1. CASE SendDone
            <4>1. pc = "sending" /\ leg[cur] = "up" /\ Delivered(cur, TRUE)
                  /\ UNCHANGED <<req, settled, out, queue>>
                BY <3>1 DEF SendDone
            <4>2. TRUE \in {FALSE, leg[cur] = "up"}
                BY <4>1
            <4> QED BY <1>r, <4>1, <4>2
        <3>2. CASE SendFails
            BY <1>r, <3>2 DEF SendFails
        <3> QED BY <1>5, <3>1, <3>2
    <2>2. /\ UNCHANGED <<cur, leg>>
          /\ \/ pc' \in {"nacking", "retiring"}
             \/ pc' = "receiving" /\ read' = IF reader[tgt] = NoLeg THEN NewRead ELSE read
        BY <1>5, <2>1, GoOn, GiveUp DEF SendDone, SendFails
    <2>3. reader[tgt] = NoLeg
        BY <1>0, <2>1 DEF LifeInv, ReadTaskOwned, TypeOK
    <2>4. pc' \in {"receiving", "nacking", "retiring"}
        BY <2>2
    <2>5. \/ pc' \notin {"receiving", "relaying"}
          \/ pc' = "receiving" /\ read'.state # "frame"
        BY <2>2, <2>3 DEF NewRead, Waiting
    <2> QED BY <1>0, <2>1, <2>2, <2>4, <2>5, SendLegs, FlowRests
<1>6. CASE RecvFrame
    <2>1. /\ pc = "receiving" /\ read.state = "frame"
          /\ UNCHANGED <<cur, leg, req, settled, out, heard, inbox, queue>>
          /\ \/ pc' = "retiring"
             \/ /\ pc' = "relaying" /\ frame' = read.frame
                /\ read.frame.kind \in {"pend", "final"} => Matches(read.frame)
        <3>1. CASE Retire(FALSE)
            BY <1>6, <3>1 DEF RecvFrame, Retire
        <3>2. CASE ~Retire(FALSE)
            BY <1>6, <3>2 DEF RecvFrame
        <3> QED BY <3>1, <3>2
    <2>2. Expected(read.frame)
        BY <1>0, <2>1 DEF FlowInv
    <2>3. FlowInv'
        <3>1. CASE pc' = "retiring"
            BY <1>0, <2>1, <3>1, FlowRests
        <3>2. CASE pc' = "relaying"
            <4>1. NoLateAnswer' /\ (req = 0 => out = <<>>)'
                BY <1>0, <2>1 DEF FlowInv, NoLateAnswer, IsUds
            <4> QED BY <2>1, <2>2, <3>2, <4>1 DEF FlowInv, Expected, IsUds, Matches
        <3> QED BY <2>1, <3>1, <3>2
    <2> QED BY <1>0, <2>1, <2>3, LegsKept DEF Engaged
<1>7. CASE RecvFails \/ RecvTimeout
    <2> DEFINE owner == IF read.state = Waiting THEN reader[tgt] ELSE NoLeg
    <2>1. /\ pc = "receiving" /\ UNCHANGED <<req, settled, out, heard, inbox, queue>>
          /\ \/ \E acc : Fail(acc)
             \/ Retire(TRUE)
             \/ LoopHead(accepted, owner)
        BY <1>7 DEF RecvFails, RecvTimeout
    <2>2. /\ UNCHANGED <<cur, leg>>
          /\ \/ pc' \in {"nacking", "retiring"}
             \/ pc' = "receiving" /\ read' = IF owner = NoLeg THEN NewRead ELSE read
        <3> HIDE DEF owner
        <3> QED BY <2>1, GoOn, GiveUp
    <2>3. \/ pc' \notin {"receiving", "relaying"}
          \/ pc' = "receiving" /\ read'.state # "frame"
        BY <2>2 DEF NewRead, Waiting
    <2> QED BY <1>0, <2>1, <2>2, <2>3, LegsKept, FlowRests DEF Engaged
<1>8. CASE RelayFails
    <2>1. /\ pc = "relaying" /\ UNCHANGED <<cur, leg, req, settled, out, heard, inbox, queue>>
          /\ pc' \in {"nacking", "retiring"}
        BY <1>8, GiveUp DEF RelayFails
    <2> QED BY <1>0, <2>1, LegsKept, FlowRests DEF Engaged
<1>9. CASE RelayDone
    <2>1. /\ pc = "relaying" /\ UNCHANGED <<req, heard, inbox, queue>> /\ req # 0
          /\ out' = out \/ out' = Append(out, frame)
          /\ settled' \in {settled, settled \cup {req}}
        BY <1>0, <1>9 DEF RelayDone, PumpInv
    <2>2. /\ Expected(frame) /\ (IsUds(frame) => Matches(frame))
          /\ NoLateAnswer /\ frame \in Frames /\ out \in Seq(Frames)
        BY <1>0, <2>1 DEF FlowInv, TypeOK
    <2>3. NoLateAnswer'
        <3>1. IsUds(frame) => frame.n \in settled \cup {req} \/ (~Strict /\ frame.n = 0)
            <4>1. IsUds(frame) => frame.n # 0 \/ ~Strict
                BY <2>2, ConstantsAssumption DEF Matches, IsUds
            <4>2. frame.n \in settled \/ frame.n = 0 \/ frame.n = req
                BY <2>2 DEF Expected
            <4> QED BY <4>1, <4>2 DEF IsUds
        <3>2. \A i \in DOMAIN out' :
                 (i \in DOMAIN out /\ out'[i] = out[i]) \/ out'[i] = frame
            BY <2>1, <2>2, Appended
        <3> QED BY <2>1, <2>2, <3>1, <3>2 DEF NoLateAnswer, IsUds
    <2>4. CASE Return /\ settled' = settled \cup {req}
        <3>1. pc' \notin {"receiving", "relaying"} /\ UNCHANGED leg
            BY <2>4, ApartLeave
        <3> QED BY <1>0, <2>1, <2>3, <2>4, <3>1, LegsKept DEF FlowInv
    <2>5. CASE (Retire(FALSE) \/ LoopHead(accepted, reader[tgt])) /\ UNCHANGED settled
        <3>1. /\ UNCHANGED <<cur, leg>>
              /\ \/ pc' \in {"nacking", "retiring"}
                 \/ pc' = "receiving" /\ read' = IF reader[tgt] = NoLeg THEN NewRead ELSE read
            BY <2>1, <2>5, GoOn, GiveUp
        <3>2. reader[tgt] = NoLeg
            BY <1>0, <2>1 DEF LifeInv, ReadTaskOwned, TypeOK
        <3>3. FlowInv'
            BY <2>1, <2>3, <3>1, <3>2 DEF FlowInv, NewRead, Waiting
        <3> QED BY <1>0, <2>1, <2>5, <3>1, <3>3, LegsKept DEF Engaged
    <2> QED BY <1>9, <2>4, <2>5 DEF RelayDone
<1>10. CASE NackDone
    <2>1. /\ pc = "nacking" /\ UNCHANGED <<req, settled, heard, inbox, queue>> /\ req # 0
          /\ out' = out \/ out' = Append(out, [kind |-> "local", n |-> req])
          /\ IF cur = NoLeg THEN Return ELSE Retire(FALSE)
        BY <1>0, <1>10 DEF NackDone, PumpInv
    <2>2. pc' \notin {"receiving", "relaying"} /\ UNCHANGED leg
        BY <2>1, ApartLeave DEF Retire
    <2>3. \A l \in Legs : Engaged(l) => Engaged(l)'
        BY <2>1, ConstantsAssumption DEF Engaged, Retire
    <2>4. NoLateAnswer'
        <3>1. NoLateAnswer /\ out \in Seq(Frames) /\ [kind |-> "local", n |-> req] \in Frames
            BY <1>0 DEF FlowInv, TypeOK, Frames
        <3>2. \A i \in DOMAIN out' :
                 (i \in DOMAIN out /\ out'[i] = out[i]) \/ out'[i].kind = "local"
            BY <2>1, <3>1, Appended
        <3> QED BY <2>1, <3>1, <3>2 DEF NoLateAnswer, IsUds
    <2> QED BY <1>0, <2>1, <2>2, <2>3, <2>4, LegsKept DEF FlowInv
<1>11. CASE NackFails
    <2>1. /\ pc = "nacking" /\ UNCHANGED <<req, settled, out, heard, inbox, queue>>
          /\ IF cur = NoLeg THEN Return \/ Exit ELSE Retire(TRUE)
        BY <1>11 DEF NackFails
    <2>2. pc' \notin {"receiving", "relaying"} /\ UNCHANGED leg
        BY <2>1, ApartLeave DEF Retire
    <2>3. \A l \in Legs : Engaged(l) => Engaged(l)'
        BY <2>1, ConstantsAssumption DEF Engaged, Retire
    <2> QED BY <1>0, <2>1, <2>2, <2>3, LegsKept, FlowRests
<1>12. CASE DeadlinePasses
    <2>1. UNCHANGED <<pc, cur, req, settled, out, read, frame, heard, inbox, queue, leg>>
        BY <1>12 DEF DeadlinePasses
    <2> QED BY <1>0, <2>1, LegsKept, FlowRests DEF Engaged
<1>13. CASE PumpCancelled
    <2>1. UNCHANGED <<req, settled, out, heard, inbox, queue>>
        BY <1>13 DEF PumpCancelled
    <2>2. /\ pc' \notin {"receiving", "relaying"} /\ UNCHANGED leg
          /\ \A l \in Legs : Engaged(l) => Engaged(l)'
        <3>1. CASE /\ \/ pc \in {"idle", "middleware", "injecting"}
                      \/ pc = "nacking" /\ cur = NoLeg
                   /\ Exit
            BY <3>1, ApartLeave, ConstantsAssumption DEF Engaged
        <3>2. CASE Retire(TRUE)
            BY <3>2 DEF Retire, Engaged
        <3>3. CASE /\ UNCHANGED <<cur, leg>>
                   /\ \/ pc \in {"retiring", "retireOld"} /\ UNCHANGED pc
                      \/ pc = "connecting" /\ pc' = "unconnect"
            BY <3>3 DEF Engaged
        <3> QED BY <1>13, <3>1, <3>2, <3>3 DEF PumpCancelled
    <2> QED BY <1>0, <2>1, <2>2, LegsKept, FlowRests
<1>14. CASE RetireEnds
    <2>1. /\ closer[cur] = "done" /\ UNCHANGED <<req, settled, out, heard, inbox, queue>>
          /\ pc \in {"retiring", "retireOld"} /\ cur \in Legs
          /\ Exit \/ Return \/ (pc = "retireOld" /\ Connect)
        BY <1>0, <1>14 DEF RetireEnds, PumpInv, Holding
    <2>2. leg[cur] = "closed" /\ \A l \in Legs : Engaged(l) => l = cur
        BY <1>0, <2>1 DEF LegOwned, Engaged
    <2>3. /\ pc' \notin {"receiving", "relaying"}
          /\ \/ UNCHANGED leg
             \/ \E l \in Legs :
                   leg[l] \in {"fresh", "closed"} /\ leg' = [leg EXCEPT ![l] = "setup"]
        BY <1>0, <2>1, ApartLeave, ApartConnect
    <2> QED BY <1>0, <2>1, <2>2, <2>3, LegsKept, FlowRests
<1> QED
    BY <1>1, <1>2, <1>3, <1>4, <1>5, <1>6, <1>7, <1>8, <1>9, <1>10, <1>11, <1>12,
       <1>13, <1>14
    DEF PumpStep

\* The legs and their ECUs.
LEMMA LegSettles ==
    ASSUME SettledInv,
           \/ \E l \in Legs : CloseDone(l) \/ EcuStep(l)
           \/ ConnectOk \/ ConnectFails \/ ConnectClosed \/ RetireBegins
           \/ \E t \in Targets : ReadReady(t)
           \/ CloseSession \/ CleanupStep \/ UNCHANGED vars
    PROVE  (\A l \in Legs : LegSettled(l)') /\ FlowInv'
<1> USE DEF exchange, legs, ecu, tasks
<1>0. /\ LifeInv /\ TypeOK /\ Life /\ PumpInv /\ EcuInv
      /\ (\A l \in Legs : LegSettled(l) /\ LegOwned(l)) /\ FlowInv
    BY LifeForm DEF SettledInv, LifeInv
<1>t. /\ queue \in [Legs -> Seq(Frames)] /\ inbox \in [Legs -> Seq(1..MaxRequests)]
      /\ leg \in [Legs -> {"fresh", "setup", "up", "eof", "closed"}]
      /\ heard \in [Legs -> SUBSET (1..MaxRequests)]
    BY <1>0 DEF TypeOK
<1>1. CASE \E l \in Legs : CloseDone(l)
    <2> PICK l \in Legs : CloseDone(l) BY <1>1
    <2>1. /\ UNCHANGED <<pc, cur, req, settled, out, read, frame, queue>>
          /\ leg' = [leg EXCEPT ![l] = "closed"] /\ heard' = [heard EXCEPT ![l] = {}]
          /\ inbox' = [inbox EXCEPT ![l] = <<>>]
          /\ queue[l] = <<>>
        BY <1>0 DEF CloseDone, LegOwned
    <2>2. heard'[l] = {} /\ inbox'[l] = <<>> /\ queue'[l] = <<>>
        BY <1>t, <2>1
    <2>3. LegSettled(l)'
        <3>1. DOMAIN inbox'[l] = {} /\ DOMAIN queue'[l] = {}
            BY <2>2
        <3> QED BY <2>2, <3>1 DEF LegSettled
    <2>4. \A m \in Legs \ {l} : /\ leg'[m] = leg[m] /\ queue'[m] = queue[m]
                                /\ inbox'[m] = inbox[m] /\ heard'[m] = heard[m]
        BY <1>t, <2>1
    <2> QED BY <1>0, <2>1, <2>3, <2>4, LegChanges, FlowRests
<1>2. CASE ConnectOk \/ RetireBegins \/ CleanupCloses
    <2>1. UNCHANGED <<pc, cur, req, settled, out, read, frame, inbox, heard>>
        BY <1>2 DEF ConnectOk, RetireBegins, CleanupCloses
    <2>2. ASSUME NEW l \in Legs
          PROVE  /\ queue'[l] \in {queue[l], <<>>}
                 /\ leg'[l] \in {"fresh", "setup", "closed"} =>
                       leg[l] \in {"fresh", "setup", "closed"}
        <3>1. CASE \E L : StartClose(L)
            BY <1>t, <3>1 DEF StartClose
        <3>2. CASE ~ \E L : StartClose(L)
            <4>1. leg' = [leg EXCEPT ![cur] = "up"] /\ queue' = queue
                BY <1>2, <3>2 DEF ConnectOk, RetireBegins, CleanupCloses
            <4> QED BY <1>t, <4>1
        <3> QED BY <3>1, <3>2
    <2>3. ASSUME NEW l \in Legs PROVE LegSettled(l)'
        <3>1. LegSettled(l)
            BY <1>0
        <3>2. CASE queue'[l] = <<>>
            <4>1. DOMAIN queue'[l] = {}
                BY <3>2
            <4> QED BY <2>1, <2>2, <3>1, <3>2, <4>1 DEF LegSettled, Engaged
        <3>3. CASE queue'[l] = queue[l]
            BY <2>1, <2>2, <3>1, <3>3 DEF LegSettled, Engaged
        <3> QED BY <2>2, <3>2, <3>3
    <2> QED BY <1>0, <2>1, <2>3, FlowRests
<1>3. CASE ConnectFails
    <2>1. /\ UNCHANGED <<pc, cur, req, settled, out, read, frame, queue, inbox, heard>>
          /\ cur \in Legs /\ leg[cur] = "setup" /\ leg' = [leg EXCEPT ![cur] = "closed"]
        BY <1>0, <1>3 DEF ConnectFails, Life, HandInv, PumpInv
    <2>2. LegSettled(cur)
        BY <1>0, <2>1
    <2>3. ASSUME NEW l \in Legs PROVE LegSettled(l)'
        <3>1. leg'[l] = leg[l] \/ l = cur
            BY <1>t, <2>1
        <3> QED BY <1>0, <2>1, <2>2, <3>1 DEF LegSettled, Engaged
    <2> QED BY <1>0, <2>1, <2>3, FlowRests
<1>4. CASE \/ ConnectClosed \/ CloseSession \/ CleanupConnects \/ CleanupReads
           \/ CleanupRetires \/ CleanupDone \/ Finish \/ UNCHANGED vars
    <2>1. /\ UNCHANGED <<cur, req, settled, out, frame, queue, inbox, heard, leg>>
          /\ UNCHANGED pc \/ (pc = "stopping" /\ pc' = "finished")
          /\ UNCHANGED read \/ read'.state # "frame"
        <3>1. CASE CleanupReads
            <4>1. read' = read \/ read' = [read EXCEPT !.state = Cancelled]
                BY <3>1 DEF CleanupReads
            <4> QED BY <1>0, <3>1, <4>1 DEF CleanupReads, TypeOK, Cancelled
        <3>2. CASE ~CleanupReads
            BY <1>4, <3>2
            DEF ConnectClosed, CloseSession, CleanupConnects, CleanupRetires, CleanupDone,
                Finish, vars
        <3> QED BY <3>1, <3>2
    <2>2. \A l \in Legs : LegSettled(l)'
        BY <1>0, <2>1, LegsKept DEF Engaged
    <2>3. \/ pc' \notin {"receiving", "relaying"}
          \/ pc' = "receiving" /\ read'.state # "frame"
          \/ UNCHANGED <<pc, read, frame>>
          \/ pc' = "relaying" /\ UNCHANGED <<pc, frame>>
        BY <2>1
    <2> QED BY <1>0, <2>1, <2>2, <2>3, FlowRests
<1>5. CASE \E t \in Targets : ReadReady(t)
    <2> PICK t \in Targets : ReadReady(t) BY <1>5
    <2>1. /\ reader[t] = cur /\ cur \in Legs
          /\ pc \in {"receiving", "nacking", "retiring"}
          /\ UNCHANGED <<pc, cur, req, settled, out, frame, leg, inbox, heard>>
        BY <1>0, ConstantsAssumption
        DEF ReadReady, Life, ReadTaskOwned, PumpInv, Holding, TypeOK
    <2>2. CASE queue[cur] = <<>>
        <3>1. UNCHANGED queue /\ read'.state # "frame"
            BY <2>1, <2>2 DEF ReadReady, Failed
        <3> QED BY <1>0, <2>1, <3>1, LegsKept, FlowRests DEF Engaged
    <2>3. CASE queue[cur] # <<>>
        <3> DEFINE q == queue[cur]
        <3>1. /\ read' = [state |-> "frame", frame |-> Head(q)]
              /\ queue' = [queue EXCEPT ![cur] = Tail(@)]
            BY <2>1, <2>3 DEF ReadReady
        <3>2. /\ q \in Seq(Frames) /\ Head(q) = q[1] /\ 1 \in DOMAIN q
              /\ \A i \in DOMAIN Tail(q) : i + 1 \in DOMAIN q /\ Tail(q)[i] = q[i + 1]
            BY <1>t, <2>1, <2>3, Tailed
        <3>3. queue'[cur] = Tail(q) /\ \A l \in Legs \ {cur} : queue'[l] = queue[l]
            BY <1>t, <2>1, <3>1
        <3>4. \A i \in DOMAIN q : q[i].n \in heard[cur] \cup {0}
            BY <1>0, <2>1 DEF LegSettled
        <3>5. leg[cur] \notin {"fresh", "setup", "closed"}
            BY <1>0, <2>1, <2>3 DEF LegSettled
        <3>6. \A i \in DOMAIN queue'[cur] : queue'[cur][i].n \in heard[cur] \cup {0}
            BY <3>2, <3>3, <3>4
        <3>7. ASSUME NEW l \in Legs PROVE LegSettled(l)'
            <4>1. LegSettled(l)
                BY <1>0
            <4> HIDE DEF q
            <4>2. CASE l = cur
                BY <2>1, <3>5, <3>6, <4>1, <4>2 DEF LegSettled, Engaged
            <4>3. CASE l # cur
                BY <2>1, <3>3, <4>1, <4>3 DEF LegSettled, Engaged
            <4> QED BY <4>2, <4>3
        <3>8. Expected(read.frame)'
            <4>1. heard[cur] \subseteq settled \cup {req}
                BY <1>0, <2>1 DEF LegSettled
            <4>2. read'.frame.n \in heard[cur] \cup {0}
                BY <3>1, <3>2, <3>4
            <4> QED BY <2>1, <4>1, <4>2 DEF Expected
        <3>9. FlowInv'
            BY <1>0, <2>1, <3>8 DEF FlowInv, NoLateAnswer, IsUds
        <3> QED BY <3>7, <3>9
    <2> QED BY <2>2, <2>3
<1>6. CASE \E l \in Legs : EcuStep(l)
    <2> PICK l \in Legs : EcuStep(l) BY <1>6
    <2>1. /\ UNCHANGED <<pc, cur, req, settled, out, read, frame, heard>>
          /\ leg[l] = "up" /\ leg'[l] \in {"up", "eof"}
          /\ \A m \in Legs \ {l} : leg'[m] = leg[m]
        BY <1>t DEF EcuStep, EcuAnswers, EcuSuppresses, EcuStray, EcuExtra, EcuEof
    <2>2. /\ queue[l] \in Seq(Frames) /\ inbox[l] \in Seq(1..MaxRequests)
          /\ LegSettled(l)
        BY <1>0, <1>t
    <2>3. inbox' = inbox \/ (inbox[l] # <<>> /\ inbox' = [inbox EXCEPT ![l] = Tail(@)])
        BY <1>0, AnswerForm
        DEF EcuStep, EcuAnswers, EcuSuppresses, EcuStray, EcuExtra, EcuEof, EcuInv
    <2>4. \/ queue' = queue
          \/ \E f \in Frames : f.n \in heard[l] \cup {0}
                               /\ queue' = [queue EXCEPT ![l] = Append(@, f)]
        <3>1. CASE EcuAnswers(l)
            <4>1. PICK k \in {"ack", "nack", "pend", "final"} :
                     queue' = [queue EXCEPT ![l] = Append(@, [kind |-> k, n |-> Head(inbox[l])])]
                BY <1>0, <3>1, AnswerForm
            <4>2. Head(inbox[l]) \in heard[l] /\ Head(inbox[l]) \in 1..MaxRequests
                <5>1. inbox[l] # <<>>
                    BY <3>1 DEF EcuAnswers
                <5>2. Head(inbox[l]) = inbox[l][1] /\ 1 \in DOMAIN inbox[l]
                    BY <2>2, <5>1, Tailed
                <5>3. Head(inbox[l]) \in heard[l]
                    BY <2>2, <5>2 DEF LegSettled
                <5> QED BY <2>2, <5>1, <5>3, HeadTail
            <4>3. [kind |-> k, n |-> Head(inbox[l])] \in Frames
                BY <4>2, ConstantsAssumption DEF Frames, Kinds
            <4> QED BY <4>1, <4>2, <4>3
        <3>2. CASE EcuStray(l)
            <4>1. PICK k \in Kinds :
                     queue' = [queue EXCEPT ![l] = Append(@, [kind |-> k, n |-> 0])]
                BY <3>2 DEF EcuStray
            <4>2. [kind |-> k, n |-> 0] \in Frames
                BY ConstantsAssumption DEF Frames
            <4> QED BY <4>1, <4>2
        <3>3. CASE EcuExtra(l)
            <4>1. PICK f \in [kind : {"pend", "final"}, n : heard[l]] :
                     queue' = [queue EXCEPT ![l] = Append(@, f)]
                BY <3>3 DEF EcuExtra
            <4>2. heard[l] \subseteq 0..MaxRequests
                BY <1>t, ConstantsAssumption
            <4>3. f \in Frames /\ f.n \in heard[l]
                BY <4>2 DEF Frames, Kinds
            <4> QED BY <4>1, <4>3
        <3>4. CASE EcuSuppresses(l) \/ EcuEof(l)
            BY <3>4 DEF EcuSuppresses, EcuEof
        <3> QED BY <3>1, <3>2, <3>3, <3>4 DEF EcuStep
    <2>5. \A m \in Legs \ {l} : inbox'[m] = inbox[m] /\ queue'[m] = queue[m]
        BY <1>t, <2>3, <2>4
    <2>6. \A i \in DOMAIN inbox'[l] : inbox'[l][i] \in heard[l]
        <3>1. CASE inbox' = inbox
            BY <2>2, <3>1 DEF LegSettled
        <3>2. CASE inbox[l] # <<>> /\ inbox'[l] = Tail(inbox[l])
            <4>1. \A i \in DOMAIN inbox'[l] :
                     i + 1 \in DOMAIN inbox[l] /\ inbox'[l][i] = inbox[l][i + 1]
                BY <2>2, <3>2, Tailed
            <4> QED BY <2>2, <4>1 DEF LegSettled
        <3> QED BY <1>t, <2>3, <3>1, <3>2
    <2>7. \A i \in DOMAIN queue'[l] : queue'[l][i].n \in heard[l] \cup {0}
        <3>1. CASE queue' = queue
            BY <2>2, <3>1 DEF LegSettled
        <3>2. CASE \E f \in Frames : f.n \in heard[l] \cup {0}
                                     /\ queue' = [queue EXCEPT ![l] = Append(@, f)]
            <4>1. PICK f \in Frames : f.n \in heard[l] \cup {0}
                                      /\ queue' = [queue EXCEPT ![l] = Append(@, f)]
                BY <3>2
            <4>2. queue'[l] = Append(queue[l], f)
                BY <1>t, <4>1
            <4>3. \A i \in DOMAIN queue'[l] :
                     (i \in DOMAIN queue[l] /\ queue'[l][i] = queue[l][i]) \/ queue'[l][i] = f
                BY <2>2, <4>2, Appended
            <4> QED BY <2>2, <4>1, <4>3 DEF LegSettled
        <3> QED BY <2>4, <3>1, <3>2
    <2>8. LegSettled(l)'
        BY <2>1, <2>2, <2>6, <2>7 DEF LegSettled, Engaged
    <2> QED BY <1>0, <2>1, <2>5, <2>8, LegChanges, FlowRests
<1> QED BY <1>1, <1>2, <1>3, <1>4, <1>5, <1>6 DEF CleanupStep

LEMMA NextSettled ==
    ASSUME SettledInv, [Next]_vars
    PROVE  SettledInv'
<1>1. LifeInv'
    BY NextLife DEF SettledInv
<1>2. (\A l \in Legs : LegSettled(l)') /\ FlowInv'
    BY PumpSettled, LegSettles DEF Next, LegStep, Terminated
<1> QED BY <1>1, <1>2 DEF SettledInv

LEMMA InitSettled ==
    ASSUME Init
    PROVE  SettledInv
<1>1. FlowInv
    <2>1. DOMAIN out = {} /\ pc = "idle" /\ out = <<>>
        BY DEF Init
    <2> QED BY <2>1 DEF FlowInv, NoLateAnswer
<1>2. ASSUME NEW l \in Legs PROVE LegSettled(l)
    <2>1. /\ heard[l] = {} /\ inbox[l] = <<>> /\ queue[l] = <<>>
          /\ DOMAIN inbox[l] = {} /\ DOMAIN queue[l] = {}
        BY DEF Init
    <2> QED BY <2>1 DEF LegSettled
<1> QED BY <1>1, <1>2, InitLife DEF SettledInv

\* Whatever an ECU adds to its answers, and with ReplayMiddleware and without
\* it, a leg speaks only of requests that are settled and of the one whose
\* exchange is in progress.
THEOREM SettledSafe == Spec => []SettledInv
<1>1. Init => SettledInv
    BY InitSettled
<1>2. SettledInv /\ [Next]_vars => SettledInv'
    BY NextSettled
<1> QED BY <1>1, <1>2, PTL DEF Spec

\* Every leg in use and every outstanding recv() is found through the
\* session's tables, and a leg that can be used again owes nothing on a
\* request that is not settled (_get_or_connect_ecu, _recv_ecu_frame,
\* _retire_ecu_connection).
THEOREM LegsFound == Spec => []LegsInv
<1>1. SettledInv => LegsInv
    <2> SUFFICES ASSUME SettledInv PROVE LegsInv
        OBVIOUS
    <2>1. TypeOK /\ ReadTaskOwned
        BY DEF SettledInv, LifeInv
    <2>2. UsedLegCached
        BY DEF SettledInv, LifeInv, HandInv, PumpInv, Holding, Early, UsedLegCached
    <2>3. IdleLegsSettled
        <3> SUFFICES ASSUME NEW l \in Legs, LegSettled(l),
                            pc \in {"idle", "middleware", "connecting", "sending"}
                     PROVE  /\ heard[l] \subseteq settled
                            /\ \A i \in DOMAIN queue[l] : queue[l][i].n \in settled \cup {0}
            BY DEF SettledInv, IdleLegsSettled
        <3>1. heard[l] \subseteq settled
            BY DEF LegSettled, Engaged
        <3> QED BY <3>1 DEF LegSettled
    <2> QED BY <2>1, <2>2, <2>3 DEF LegsInv
<1> QED BY <1>1, SettledSafe, PTL

\* The tester is never given the answer to a request whose exchange did not
\* complete in place of its own, whatever the ECU adds and however late it
\* answers (_exchange_with_ecu, _retire_ecu_leg).
THEOREM LateAnswersDropped == Spec => []NoLateAnswer
<1>1. SettledInv => NoLateAnswer
    BY DEF SettledInv, FlowInv
<1> QED BY <1>1, SettledSafe, PTL

-----------------------------------------------------------------------------
(* Where the pump goes, without ReplayMiddleware.                          *)

NotInjecting == inject = "no" /\ pc # "injecting"

\* ReplayMiddleware is not there and the ECU adds nothing to its answers.
OneAnswer == \A s \in Setups : ~s.replay /\ s.extras = 0

\* It returns, leaves run(), answers with a Negative ACK, or retires its leg.
LEMMA LeaveMove ==
    ASSUME NotInjecting, Return \/ Exit
    PROVE  /\ pc' \in {"idle", "stopping"} /\ cur' = NoLeg
           /\ UNCHANGED leg /\ NotInjecting'
BY DEF Return, Exit, NotInjecting

LEMMA FailMove ==
    ASSUME NotInjecting, pc \in {"sending", "receiving", "relaying"}, NEW acc, Fail(acc)
    PROVE  /\ \/ pc' = "nacking" /\ ~acc
              \/ pc' = "retiring"
           /\ UNCHANGED <<cur, leg>> /\ NotInjecting'
BY DEF Fail, Nack, Retire, NotInjecting

LEMMA RetireMove ==
    ASSUME NotInjecting, NEW r, Retire(r)
    PROVE  pc' = "retiring" /\ UNCHANGED <<cur, leg>> /\ NotInjecting'
BY DEF Retire, NotInjecting

\* It sets up a leg, or the target has none.
LEMMA ConnectMove ==
    ASSUME NotInjecting, Connect, pc \in {"middleware", "retireOld"}
    PROVE  /\ NotInjecting'
           /\ \/ pc' \in {"idle", "nacking"} /\ cur' = NoLeg /\ UNCHANGED leg
              \/ /\ pc' = "connecting"
                 /\ \E l \in Legs :
                       leg[l] \in {"fresh", "closed"} /\ leg' = [leg EXCEPT ![l] = "setup"]
BY DEF Connect, Return, Nack, NotInjecting

LEMMA RouteMove ==
    ASSUME NotInjecting, Route, pc = "middleware"
    PROVE  /\ NotInjecting'
           /\ \/ pc' \in {"idle", "nacking"} /\ cur' = NoLeg /\ UNCHANGED leg
              \/ pc' \in {"sending", "retireOld"} /\ UNCHANGED leg
              \/ /\ pc' = "connecting"
                 /\ \E l \in Legs :
                       leg[l] \in {"fresh", "closed"} /\ leg' = [leg EXCEPT ![l] = "setup"]
<1>1. CASE cache[tgt] = NoLeg
    BY <1>1, ConnectMove DEF Route
<1>2. CASE cache[tgt] # NoLeg
    BY <1>2 DEF Route, UseLeg, NotInjecting
<1> QED BY <1>1, <1>2

\* It waits for the next frame of the ECU, or gives up.
LEMMA LoopHeadMove ==
    ASSUME NotInjecting, pc \in {"sending", "receiving", "relaying"},
           NEW acc, NEW owner, LoopHead(acc, owner)
    PROVE  /\ UNCHANGED <<cur, leg>> /\ NotInjecting'
           /\ \/ pc' = "nacking" /\ ~acc
              \/ pc' = "retiring"
              \/ pc' = "receiving" /\ read' = IF owner = NoLeg THEN NewRead ELSE read
<1> USE DEF tasks
<1>1. CASE Closing \/ late \/ owner \notin {NoLeg, cur}
    BY <1>1, FailMove, RetireMove DEF LoopHead
<1>2. CASE ~(Closing \/ late \/ owner \notin {NoLeg, cur})
    BY <1>2 DEF LoopHead, NotInjecting
<1> QED BY <1>1, <1>2

-----------------------------------------------------------------------------
(* Legs that are not in use are silent.                                    *)

\* The pump moves, and a leg it lets go of has nothing to say.
LEMMA QuietKept ==
    ASSUME TypeOK, QuietInv, UNCHANGED <<queue, inbox, answered>>,
           \/ UNCHANGED leg
           \/ \E l \in Legs :
                 leg[l] \in {"fresh", "closed"} /\ leg' = [leg EXCEPT ![l] = "setup"],
           \A l \in Legs : leg[l] = "up" /\ Engaged(l) => Engaged(l)' \/ Silent(l)
    PROVE  QuietInv'
<1> SUFFICES ASSUME NEW l \in Legs
             PROVE  /\ leg'[l] \in {"fresh", "setup", "closed"} => Silent(l)'
                    /\ leg'[l] = "up" /\ ~Engaged(l)' => Silent(l)'
                    /\ Len(inbox'[l]) <= 1
    BY DEF QuietInv
<1>1. Silent(l)' <=> Silent(l)
    BY DEF Silent
<1>2. /\ leg'[l] \in {"fresh", "setup", "closed"} => leg[l] \in {"fresh", "setup", "closed"}
      /\ leg'[l] = "up" => leg[l] = "up"
    BY DEF TypeOK
<1> QED BY <1>1, <1>2 DEF QuietInv

LEMMA SilentParts ==
    ASSUME TypeOK, LifeInv, QuietInv, pc = "sending", leg[cur] = "up"
    PROVE  cur \in Legs /\ queue[cur] = <<>> /\ inbox[cur] = <<>> /\ answered[cur] = "no"
<1>1. cur \in Legs
    BY DEF LifeInv, PumpInv, Holding
<1> QED BY <1>1 DEF QuietInv, Engaged, Silent

\* A request reaches the ECU on a leg that was silent.
LEMMA SendQuiet ==
    ASSUME LifeInv, QuietInv, pc = "sending",
           pc' \in {"receiving", "nacking", "retiring"}, UNCHANGED <<cur, leg, queue, answered>>,
           \E sent \in {FALSE, leg[cur] = "up"} : Delivered(cur, sent)
    PROVE  QuietInv'
<1>1. TypeOK /\ cur \in Legs
    BY DEF LifeInv, PumpInv, Holding
<1>2. CASE inbox' = inbox
    BY <1>1, <1>2, QuietKept DEF Engaged
<1>3. CASE leg[cur] = "up" /\ inbox' = [inbox EXCEPT ![cur] = Append(@, req)]
    <2>1. inbox[cur] = <<>> /\ inbox \in [Legs -> Seq(1..MaxRequests)]
        BY <1>1, <1>3, SilentParts DEF TypeOK
    <2>2. Len(inbox'[cur]) <= 1
        <3>1. inbox'[cur] = Append(<<>>, req)
            BY <1>1, <1>3, <2>1
        <3> QED BY <3>1
    <2>3. \A l \in Legs \ {cur} : inbox'[l] = inbox[l]
        BY <1>3, <2>1
    <2>4. \A l \in Legs \ {cur} : ~Engaged(l) /\ Silent(l)' = Silent(l)
        BY <2>3 DEF Engaged, Silent
    <2>5. Engaged(cur)'
        BY DEF Engaged
    <2> QED BY <1>3, <2>2, <2>3, <2>4, <2>5 DEF QuietInv
<1> QED BY <1>2, <1>3 DEF Delivered

LEMMA PumpQuiet ==
    ASSUME LifeInv, NotInjecting, OneAnswer, QuietInv, StreamInv,
           \/ \E t \in Targets : Request(t)
           \/ ReadEof \/ PumpCancelled \/ DeadlinePasses \/ PumpStep \/ RetireEnds
    PROVE  QuietInv' /\ NotInjecting'
<1> USE DEF exchange, legs, ecu, tasks
<1>0. TypeOK /\ Life /\ EcuInv /\ (Holding => cur \in Legs)
    BY LifeForm DEF Life, PumpInv
<1>1. CASE \E t \in Targets : Request(t)
    <2>1. /\ pc = "idle" /\ NotInjecting' /\ UNCHANGED <<leg, queue, inbox, answered>>
        BY <1>1 DEF Request, NotInjecting
    <2> QED BY <1>0, <2>1, QuietKept DEF Engaged
<1>2. CASE ReadEof \/ Connected \/ Unconnected
    <2>1. /\ pc \in {"idle", "connecting", "unconnect"}
          /\ UNCHANGED <<queue, inbox, answered>>
          /\ NotInjecting' /\ UNCHANGED leg
        BY <1>2, LeaveMove
        DEF ReadEof, Connected, Unconnected, UseLeg, Nack, NotInjecting
    <2> QED BY <1>0, <2>1, QuietKept DEF Engaged
<1>3. CASE ReplayStarts
    BY <1>0, <1>3 DEF ReplayStarts, OneAnswer, TypeOK
<1>4. CASE MiddlewareDone
    <2>1. /\ pc = "middleware" /\ UNCHANGED <<queue, inbox, answered>>
          /\ Route \/ Return \/ Nack \/ Exit
        BY <1>4 DEF MiddlewareDone
    <2>2. /\ NotInjecting'
          /\ \/ UNCHANGED leg
             \/ \E l \in Legs :
                   leg[l] \in {"fresh", "closed"} /\ leg' = [leg EXCEPT ![l] = "setup"]
        <3>1. CASE Nack
            BY <3>1 DEF Nack, NotInjecting
        <3> QED BY <2>1, <3>1, RouteMove, LeaveMove
    <2> QED BY <1>0, <2>1, <2>2, QuietKept DEF Engaged
<1>5. CASE InjectDone
    BY <1>5 DEF InjectDone, NotInjecting
<1>6. CASE SendDone \/ SendFails
    <2>1. /\ pc = "sending" /\ UNCHANGED <<queue, answered>>
          /\ \E sent \in {FALSE, leg[cur] = "up"} : Delivered(cur, sent)
        BY <1>6 DEF SendDone, SendFails
    <2>2. /\ NotInjecting' /\ UNCHANGED <<cur, leg>>
          /\ pc' \in {"receiving", "nacking", "retiring"}
        BY <1>6, LoopHeadMove, FailMove DEF SendDone, SendFails
    <2> QED BY <2>1, <2>2, SendQuiet
<1>7. CASE RecvFrame \/ RecvFails \/ RecvTimeout
    <2>1. /\ pc = "receiving" /\ UNCHANGED <<queue, inbox, answered>>
          /\ NotInjecting' /\ UNCHANGED <<cur, leg>>
          /\ pc' \in {"receiving", "relaying", "nacking", "retiring"}
        <3>1. CASE RecvFrame
            BY <3>1, RetireMove DEF RecvFrame, NotInjecting
        <3>2. CASE RecvFails
            BY <3>2, RetireMove, FailMove DEF RecvFails
        <3>3. CASE RecvTimeout
            <4>1. CASE pending
                BY <3>3, <4>1, LoopHeadMove DEF RecvTimeout
            <4>2. CASE ~pending
                BY <3>3, <4>2, FailMove DEF RecvTimeout
            <4> QED BY <4>1, <4>2
        <3> QED BY <1>7, <3>1, <3>2, <3>3
    <2> QED BY <1>0, <2>1, QuietKept DEF Engaged
<1>8. CASE RelayDone \/ RelayFails
    <2>1. pc = "relaying" /\ UNCHANGED <<queue, inbox, answered>>
        BY <1>8 DEF RelayDone, RelayFails
    <2>2. CASE Return /\ frame.kind \in {"final", "nack"}
        <3>1. queue[cur] = <<>> /\ inbox[cur] = <<>>
            BY <2>1, <2>2 DEF StreamInv, Arrived, IsLast
        <3>2. cur \in Legs /\ Silent(cur)
            BY <1>0, <2>1, <3>1 DEF EcuInv, Silent, Holding
        <3> QED BY <1>0, <2>1, <2>2, <3>2, LeaveMove, QuietKept DEF Engaged
    <2>3. CASE \/ LoopHead(accepted, reader[tgt]) \/ Retire(FALSE)
               \/ Fail(accepted)
        <3>1. /\ NotInjecting' /\ UNCHANGED <<cur, leg>>
              /\ pc' \in {"receiving", "nacking", "retiring"}
            BY <2>1, <2>3, LoopHeadMove, RetireMove, FailMove
        <3> QED BY <1>0, <2>1, <3>1, QuietKept DEF Engaged
    <2> QED BY <1>8, <2>2, <2>3 DEF RelayDone, RelayFails
<1>9. CASE NackDone \/ NackFails
    <2>1. /\ pc = "nacking" /\ UNCHANGED <<queue, inbox, answered>>
          /\ \/ cur = NoLeg /\ (Return \/ Exit)
             \/ cur # NoLeg /\ (Retire(FALSE) \/ Retire(TRUE))
        BY <1>9 DEF NackDone, NackFails
    <2>2. CASE cur = NoLeg /\ (Return \/ Exit)
        <3>1. \A l \in Legs : ~Engaged(l)
            BY <2>2, ConstantsAssumption DEF Engaged
        <3> QED BY <1>0, <2>1, <2>2, <3>1, LeaveMove, QuietKept
    <2>3. CASE cur # NoLeg /\ (Retire(FALSE) \/ Retire(TRUE))
        BY <1>0, <2>1, <2>3, RetireMove, QuietKept DEF Engaged
    <2> QED BY <2>1, <2>2, <2>3
<1>10. CASE DeadlinePasses
    <2>1. UNCHANGED <<pc, cur, inject, leg, queue, inbox, answered>>
        BY <1>10 DEF DeadlinePasses
    <2> QED BY <1>0, <2>1, QuietKept DEF Engaged, NotInjecting
<1>11. CASE PumpCancelled
    <2>1. UNCHANGED <<queue, inbox, answered>>
        BY <1>11 DEF PumpCancelled
    <2>2. CASE /\ \/ pc \in {"idle", "middleware", "injecting"}
                  \/ pc = "nacking" /\ cur = NoLeg
               /\ Exit
        <3>1. \A l \in Legs : ~Engaged(l)
            BY <2>2, ConstantsAssumption DEF Engaged
        <3> QED BY <1>0, <2>1, <2>2, <3>1, LeaveMove, QuietKept
    <2>3. CASE Retire(TRUE)
        BY <1>0, <2>1, <2>3, RetireMove, QuietKept DEF Engaged
    <2>4. CASE /\ UNCHANGED <<cur, inject, leg>>
               /\ UNCHANGED pc \/ (pc = "connecting" /\ pc' = "unconnect")
        <3>1. NotInjecting' /\ \A l \in Legs : Engaged(l) => Engaged(l)'
            BY <2>4 DEF Engaged, NotInjecting
        <3> QED BY <1>0, <2>1, <2>4, <3>1, QuietKept
    <2> QED BY <1>11, <2>2, <2>3, <2>4 DEF PumpCancelled
<1>12. CASE RetireEnds
    <2>1. /\ retire = "closing" /\ closer[cur] = "done" /\ UNCHANGED <<queue, inbox, answered>>
          /\ pc \in {"retiring", "retireOld"} /\ cur \in Legs
          /\ Exit \/ Return \/ (pc = "retireOld" /\ Connect)
        BY <1>0, <1>12 DEF RetireEnds, Life, PumpInv, Holding
    <2>2. leg[cur] = "closed" /\ \A l \in Legs : leg[l] = "up" => ~Engaged(l)
        BY <1>0, <2>1 DEF Life, LegOwned, Engaged
    <2>3. /\ NotInjecting'
          /\ \/ UNCHANGED leg
             \/ \E l \in Legs :
                   leg[l] \in {"fresh", "closed"} /\ leg' = [leg EXCEPT ![l] = "setup"]
        BY <2>1, LeaveMove, ConnectMove
    <2> QED BY <1>0, <2>1, <2>2, <2>3, QuietKept
<1> QED
    BY <1>1, <1>2, <1>3, <1>4, <1>5, <1>6, <1>7, <1>8, <1>9, <1>10, <1>11, <1>12
    DEF PumpStep

\* Legs begin to close: what they have queued is discarded.
LEMMA ShutQuiet ==
    ASSUME TypeOK, QuietInv, NEW L, StartClose(L),
           UNCHANGED <<pc, cur, inbox, answered>>
    PROVE  QuietInv'
<1> SUFFICES ASSUME NEW l \in Legs
             PROVE  /\ leg'[l] \in {"fresh", "setup", "closed"} => Silent(l)'
                    /\ leg'[l] = "up" /\ ~Engaged(l)' => Silent(l)'
                    /\ Len(inbox'[l]) <= 1
    BY DEF QuietInv
<1>1. CASE l \in L
    <2>1. leg'[l] = (IF leg[l] # "closed" THEN "eof" ELSE leg[l]) /\ queue'[l] = <<>>
        BY <1>1 DEF StartClose
    <2> QED BY <2>1 DEF QuietInv, Silent
<1>2. CASE l \notin L
    <2>1. leg'[l] = leg[l] /\ queue'[l] = queue[l]
        BY <1>2 DEF StartClose
    <2>2. (Engaged(l)' <=> Engaged(l)) /\ (Silent(l)' <=> Silent(l))
        BY <2>1 DEF Engaged, Silent
    <2> QED BY <2>1, <2>2 DEF QuietInv
<1> QED BY <1>1, <1>2

\* One leg changes; the others and the pump do not.
LEMMA OneQuiet ==
    ASSUME QuietInv, NEW k \in Legs,
           UNCHANGED cur, UNCHANGED pc \/ (pc = "stopping" /\ pc' = "finished"),
           \A l \in Legs \ {k} : /\ leg'[l] = leg[l] /\ queue'[l] = queue[l]
                                 /\ inbox'[l] = inbox[l] /\ answered'[l] = answered[l],
           leg'[k] \in {"fresh", "setup", "closed"} => Silent(k)',
           leg'[k] = "up" /\ ~Engaged(k) => Silent(k)',
           Len(inbox'[k]) <= 1
    PROVE  QuietInv'
<1> SUFFICES ASSUME NEW l \in Legs
             PROVE  /\ leg'[l] \in {"fresh", "setup", "closed"} => Silent(l)'
                    /\ leg'[l] = "up" /\ ~Engaged(l)' => Silent(l)'
                    /\ Len(inbox'[l]) <= 1
    BY DEF QuietInv
<1>1. Engaged(l)' <=> Engaged(l)
    BY DEF Engaged
<1>2. CASE l = k
    BY <1>1, <1>2
<1>3. CASE l # k
    <2>1. Silent(l)' <=> Silent(l)
        BY <1>3 DEF Silent
    <2> QED BY <1>1, <1>3, <2>1 DEF QuietInv
<1> QED BY <1>2, <1>3

LEMMA LegQuiet ==
    ASSUME LifeInv, QuietInv,
           \/ \E l \in Legs : CloseDone(l)
           \/ ConnectOk \/ ConnectFails \/ ConnectClosed \/ RetireBegins
           \/ \E t \in Targets : ReadReady(t)
           \/ CloseSession \/ CleanupStep \/ UNCHANGED vars
    PROVE  QuietInv'
<1> USE DEF exchange, legs, ecu, tasks
<1>0. TypeOK /\ Life
    BY LifeForm
<1>1. CASE \E l \in Legs : CloseDone(l)
    <2> PICK l \in Legs : CloseDone(l) BY <1>1
    <2>1. queue[l] = <<>> /\ queue' = queue
        BY <1>0 DEF CloseDone, Life, LegOwned
    <2>2. /\ inbox'[l] = <<>> /\ answered'[l] = "no" /\ UNCHANGED <<pc, cur>>
          /\ \A m \in Legs \ {l} : /\ leg'[m] = leg[m] /\ queue'[m] = queue[m]
                                   /\ inbox'[m] = inbox[m] /\ answered'[m] = answered[m]
        BY <1>0 DEF CloseDone, TypeOK
    <2>3. Silent(l)' /\ Len(inbox'[l]) <= 1
        BY <2>1, <2>2 DEF Silent
    <2> QED BY <2>2, <2>3, OneQuiet
<1>2. CASE ConnectOk
    <2>1. leg[cur] = "setup" /\ cur \in Legs /\ UNCHANGED <<pc, cur, inbox, answered>>
        BY <1>0, <1>2 DEF ConnectOk, Life, HandInv, PumpInv
    <2>2. CASE StartClose({cur})
        BY <1>0, <2>1, <2>2, ShutQuiet
    <2>3. CASE leg' = [leg EXCEPT ![cur] = "up"] /\ UNCHANGED queue
        <3>1. Silent(cur)' /\ Len(inbox'[cur]) <= 1
            BY <2>1, <2>3 DEF QuietInv, Silent
        <3>2. \A m \in Legs \ {cur} : leg'[m] = leg[m]
            BY <1>0, <2>3 DEF TypeOK
        <3> QED BY <2>1, <2>3, <3>1, <3>2, OneQuiet
    <2> QED BY <1>2, <2>2, <2>3 DEF ConnectOk
<1>3. CASE ConnectFails
    <2>1. /\ leg[cur] = "setup" /\ cur \in Legs /\ UNCHANGED <<pc, cur, queue, inbox, answered>>
          /\ leg' = [leg EXCEPT ![cur] = "closed"]
        BY <1>0, <1>3 DEF ConnectFails, Life, HandInv, PumpInv
    <2>2. Silent(cur)' /\ Len(inbox'[cur]) <= 1
        BY <2>1 DEF QuietInv, Silent
    <2>3. \A m \in Legs \ {cur} : leg'[m] = leg[m]
        BY <1>0, <2>1 DEF TypeOK
    <2> QED BY <1>0, <2>1, <2>2, <2>3, OneQuiet DEF TypeOK
<1>4. CASE RetireBegins
    BY <1>0, <1>4, ShutQuiet DEF RetireBegins
<1>5. CASE \E t \in Targets : ReadReady(t)
    <2> PICK t \in Targets : ReadReady(t) BY <1>5
    <2>1. /\ reader[t] = cur /\ cur \in Legs /\ Engaged(cur)
        BY <1>0, ConstantsAssumption
        DEF ReadReady, Life, ReadTaskOwned, PumpInv, Holding, Engaged, TypeOK
    <2>2. UNCHANGED <<pc, cur, leg, inbox, answered>>
        BY DEF ReadReady
    <2>3. CASE queue[cur] # <<>>
        <3>1. leg[cur] \notin {"fresh", "setup", "closed"} /\ Len(inbox[cur]) <= 1
            BY <2>1, <2>3 DEF QuietInv, Silent
        <3>2. \A m \in Legs \ {cur} : queue'[m] = queue[m]
            BY <1>0, <2>1 DEF ReadReady, TypeOK
        <3> QED BY <2>1, <2>2, <3>1, <3>2, OneQuiet
    <2>4. CASE queue[cur] = <<>>
        BY <1>0, <2>1, <2>2, <2>4, QuietKept DEF ReadReady, Engaged
    <2> QED BY <2>3, <2>4
<1>6. CASE CleanupCloses
    BY <1>0, <1>6, ShutQuiet DEF CleanupCloses
<1>7. CASE \/ ConnectClosed \/ CloseSession \/ CleanupConnects \/ CleanupReads
           \/ CleanupRetires \/ CleanupDone \/ Finish \/ UNCHANGED vars
    <2>1. /\ UNCHANGED <<cur, leg, queue, inbox, answered>>
          /\ UNCHANGED pc \/ (pc = "stopping" /\ pc' = "finished")
        BY <1>7
        DEF ConnectClosed, CloseSession, CleanupConnects, CleanupReads, CleanupRetires,
            CleanupDone, Finish, vars
    <2> QED BY <1>0, <2>1, QuietKept DEF Engaged
<1> QED BY <1>1, <1>2, <1>3, <1>4, <1>5, <1>6, <1>7 DEF CleanupStep

\* An ECU that answers each request once adds nothing.
LEMMA NothingAdded ==
    ASSUME OneAnswer, TypeOK, NEW l \in Legs
    PROVE  ~EcuExtra(l)
<1>1. setup.extras = 0 /\ added \in Nat
    BY DEF OneAnswer, TypeOK
<1> QED BY <1>1 DEF EcuExtra

LEMMA EcuQuiet ==
    ASSUME OneAnswer, LifeInv, QuietInv, NEW l \in Legs, EcuStep(l)
    PROVE  QuietInv'
<1> USE DEF exchange, legs, ecu, tasks
<1>0. TypeOK /\ EcuInv
    BY LifeForm
<1>1. CASE EcuEof(l)
    <2>1. /\ leg'[l] = "eof" /\ UNCHANGED <<pc, cur, queue, inbox, answered>>
          /\ \A m \in Legs \ {l} : leg'[m] = leg[m]
        BY <1>0, <1>1 DEF EcuEof, TypeOK
    <2>2. Len(inbox'[l]) <= 1
        BY <2>1 DEF QuietInv
    <2> QED BY <2>1, <2>2, OneQuiet
<1>2. CASE EcuAnswers(l) \/ EcuSuppresses(l) \/ EcuStray(l)
    <2>1. leg[l] = "up" /\ inbox[l] # <<>> /\ UNCHANGED <<pc, cur, leg>>
        BY <1>0, <1>2 DEF EcuAnswers, EcuSuppresses, EcuStray, EcuInv
    <2>2. Engaged(l)
        BY <2>1 DEF QuietInv, Silent
    <2>3. inbox' = inbox \/ inbox' = [inbox EXCEPT ![l] = Tail(@)]
        BY <1>2, AnswerForm, <1>0 DEF EcuSuppresses, EcuStray
    <2>4. Len(inbox'[l]) <= 1
        <3>1. inbox[l] \in Seq(1..MaxRequests) /\ inbox \in [Legs -> Seq(1..MaxRequests)]
            BY <1>0 DEF TypeOK
        <3>2. Len(inbox[l]) <= 1
            BY DEF QuietInv
        <3>3. Len(Tail(inbox[l])) <= 1
            <4> DEFINE n == Len(inbox[l])
                       m == Len(Tail(inbox[l]))
            <4>1. m = n - 1 /\ n \in Nat \ {0}
                BY <2>1, <3>1, Tailed
            <4>2. n <= 1
                BY <3>2
            <4> HIDE DEF n, m
            <4>3. m <= 1
                BY <4>1, <4>2
            <4> QED BY <4>3 DEF m
        <3>4. inbox'[l] = inbox[l] \/ inbox'[l] = Tail(inbox[l])
            BY <2>3, <3>1
        <3> QED BY <3>2, <3>3, <3>4
    <2>5. /\ UNCHANGED queue \/ \E f : queue' = [queue EXCEPT ![l] = Append(@, f)]
          /\ \E a : answered' = [answered EXCEPT ![l] = a]
        BY <1>2, <1>0, AnswerForm DEF EcuAnswers, EcuSuppresses, EcuStray
    <2>6. \A m \in Legs \ {l} : /\ queue'[m] = queue[m] /\ inbox'[m] = inbox[m]
                                /\ answered'[m] = answered[m]
        BY <1>0, <2>3, <2>5 DEF TypeOK
    <2> QED BY <2>1, <2>2, <2>4, <2>6, OneQuiet
<1> QED BY <1>0, <1>1, <1>2, NothingAdded DEF EcuStep

-----------------------------------------------------------------------------
(* The answers to the request in progress, and what the tester was sent.   *)

\* The parts of StreamInv: what is still under way, the frame that recv() has
\* returned, and the frame being relayed.
QueueFits ==
    /\ \A i \in DOMAIN inbox[cur] : inbox[cur][i] = req
    /\ \A i \in DOMAIN queue[cur] :
          /\ queue[cur][i].kind # "local" /\ queue[cur][i].n \in {0, req}
          /\ IsLast(queue[cur][i]) => i = Len(queue[cur]) /\ inbox[cur] = <<>>
          /\ Verdict(queue[cur][i]) => inbox[cur] = <<>> \/ answered[cur] # "no"
    /\ \A i, j \in DOMAIN queue[cur] :
          Verdict(queue[cur][i]) /\ Verdict(queue[cur][j]) => i = j

FrameFits ==
    /\ Arrived(frame)
    /\ IsUds(frame) => Matches(frame)
    /\ frame.kind \in {"ack", "pend", "final"} => accepted

LEMMA StreamParts ==
    StreamInv <=>
        (pc \in {"receiving", "relaying"} =>
            /\ QueueFits
            /\ pc = "receiving" /\ read.state = "frame" => Arrived(read.frame)
            /\ pc = "relaying" => FrameFits)
BY DEF StreamInv, QueueFits, FrameFits

\* The same for OutInv while a leg is in use.
SentFits(i) ==
    /\ out[i].kind \in {"ack", "pend"} /\ accepted
    /\ pc = "relaying" => frame.kind # "ack"
    /\ Verdict(out[i]) =>
          /\ Decided
          /\ pc = "receiving" /\ read.state = "frame" => ~Verdict(read.frame)
          /\ pc = "relaying" => ~Verdict(frame)

Unsent == {"middleware", "retireOld", "connecting", "unconnect", "sending", "nacking"}

LEMMA OutParts ==
    OutInv <=>
        /\ pc \in Unsent => Len(out) = 0 /\ ~accepted
        /\ pc \in {"receiving", "relaying"} => \A i \in DOMAIN out : SentFits(i)
        /\ \A i, j \in DOMAIN out : Verdict(out[i]) /\ Verdict(out[j]) => i = j
BY DEF OutInv, SentFits, Unsent

\* The pump leaves the exchange or has not begun it.
LEMMA OutKept ==
    ASSUME TypeOK, OutInv, UNCHANGED <<out, accepted>>, pc' \notin {"receiving", "relaying"},
           pc' \in Unsent => pc \in Unsent \/ (pc \in {"receiving", "relaying"} /\ ~accepted)
    PROVE  OutInv' /\ StreamInv'
<1>1. StreamInv'
    BY DEF StreamInv
<1>2. pc' \in Unsent => Len(out) = 0 /\ ~accepted
    <2>1. out \in Seq(Frames)
        BY DEF TypeOK
    <2>2. CASE pc \in {"receiving", "relaying"} /\ ~accepted
        <3>1. DOMAIN out = {}
            BY <2>2 DEF OutInv
        <3> QED BY <2>1, <2>2, <3>1
    <2> QED BY <2>2 DEF OutInv, Unsent
<1>3. (\A i, j \in DOMAIN out : Verdict(out[i]) /\ Verdict(out[j]) => i = j)'
    BY DEF OutInv, Verdict, IsVerdict
<1> QED BY <1>1, <1>2, <1>3, OutParts DEF OutInv, Unsent

\* Frames arrive or are discarded while the pump stays where it is.
LEMMA FlowKept ==
    ASSUME StreamInv, OutInv, UNCHANGED <<pc, req, cur, accepted, frame, out>>,
           pc \in {"receiving", "relaying"} =>
              QueueFits' /\ (Decided => Decided') /\ \A f : Arrived(f) => Arrived(f)',
           \/ read' = read
           \/ read'.state # "frame"
           \/ pc = "receiving" =>
                 /\ Arrived(read.frame)'
                 /\ Verdict(read'.frame) => \A i \in DOMAIN out : ~Verdict(out[i])
    PROVE  StreamInv' /\ OutInv'
<1>1. CASE pc \notin {"receiving", "relaying"}
    BY <1>1 DEF StreamInv, OutInv, Verdict, IsVerdict
<1>2. CASE pc \in {"receiving", "relaying"}
    <2>1. QueueFits' /\ (Decided => Decided') /\ \A f : Arrived(f) => Arrived(f)'
        BY <1>2
    <2>2. pc = "receiving" /\ read'.state = "frame" => Arrived(read.frame)'
        <3>1. CASE read' = read
            <4>1. pc = "receiving" /\ read.state = "frame" => Arrived(read.frame)
                BY <1>2, StreamParts
            <4>2. Arrived(read.frame) => Arrived(read.frame)'
                BY <2>1, <3>1 DEF Arrived, Decided
            <4> QED BY <3>1, <4>1, <4>2
        <3> QED BY <3>1
    <2>3. pc = "relaying" => FrameFits'
        <3>1. pc = "relaying" => FrameFits
            BY <1>2, StreamParts
        <3>2. Arrived(frame) => Arrived(frame)'
            BY <2>1 DEF Arrived, Decided
        <3> QED BY <3>1, <3>2 DEF FrameFits, IsUds, Matches
    <2>4. StreamInv'
        BY <2>1, <2>2, <2>3, StreamParts DEF StreamInv, QueueFits, FrameFits
    <2>5. ASSUME NEW i \in DOMAIN out PROVE SentFits(i)'
        <3>1. SentFits(i)
            BY <1>2, OutParts
        <3>2. Verdict(out[i])' <=> Verdict(out[i])
            BY DEF Verdict, IsVerdict
        <3>3. Verdict(out[i]) /\ pc = "receiving" /\ read'.state = "frame" => ~Verdict(read'.frame)
            BY <3>1 DEF SentFits
        <3>4. Verdict(out[i]) => ~Verdict(read'.frame) \/ ~(pc = "receiving" /\ read'.state = "frame")
            BY <3>3
        <3> QED BY <2>1, <3>1, <3>2, <3>4 DEF SentFits, Verdict, IsVerdict
    <2>6. OutInv'
        BY <1>2, <2>5, OutParts DEF OutInv, SentFits, Unsent, Verdict, IsVerdict
    <2> QED BY <2>4, <2>6
<1> QED BY <1>1, <1>2

\* The answers to a request: what is proved of every step.
Answers == StreamInv /\ OutInv /\ NoStaleResponse /\ NoErrorAfterAccept

LEMMA AnswersKept ==
    ASSUME Answers, UNCHANGED <<out, req>>
    PROVE  NoStaleResponse' /\ NoErrorAfterAccept'
BY DEF Answers, NoStaleResponse, NoErrorAfterAccept, IsUds

\* The request has been sent to a silent leg; the receive loop begins.
LEMMA SendDoneAnswers ==
    ASSUME LifeInv, NotInjecting, QuietInv, Answers, SendDone
    PROVE  Answers'
<1> USE DEF exchange, legs, ecu, tasks
<1>0. TypeOK /\ cur \in Legs /\ pc = "sending" /\ leg[cur] = "up"
    BY DEF LifeInv, PumpInv, Holding, SendDone
<1>1. /\ UNCHANGED <<cur, leg>>
      /\ UNCHANGED <<req, accepted, frame, out, queue, answered>>
      /\ inbox' = [inbox EXCEPT ![cur] = Append(@, req)]
      /\ \/ pc' = "nacking" /\ ~accepted
         \/ pc' = "retiring"
         \/ pc' = "receiving" /\ read' = IF reader[tgt] = NoLeg THEN NewRead ELSE read
    BY <1>0, LoopHeadMove DEF SendDone, Delivered
<1>2. CASE pc' # "receiving"
    BY <1>0, <1>1, <1>2, OutKept, AnswersKept DEF Answers, Unsent
<1>3. CASE pc' = "receiving"
    <2>1. reader[tgt] = NoLeg
        BY <1>0 DEF LifeInv, ReadTaskOwned, TypeOK
    <2>2. read'.state # "frame"
        BY <1>1, <1>3, <2>1 DEF NewRead, Waiting
    <2>3. queue'[cur] = <<>> /\ inbox'[cur] = Append(<<>>, req)
        BY <1>0, <1>1, SilentParts DEF TypeOK
    <2>4. QueueFits'
        <3>1. DOMAIN inbox'[cur] = {1} /\ inbox'[cur][1] = req /\ DOMAIN queue'[cur] = {}
            BY <2>3
        <3> QED BY <1>1, <3>1 DEF QueueFits
    <2>5. Len(out) = 0 /\ DOMAIN out = {}
        <3>1. Len(out) = 0
            BY <1>0 DEF Answers, OutInv
        <3> QED BY <1>0, <3>1, EmptySequence DEF TypeOK
    <2>6. StreamInv'
        BY <1>3, <2>2, <2>4, StreamParts DEF StreamInv, QueueFits
    <2>7. OutInv'
        BY <1>1, <1>3, <2>5 DEF OutInv
    <2> QED BY <1>1, <2>6, <2>7, AnswersKept DEF Answers
<1> QED BY <1>2, <1>3

\* recv() has returned, failed or timed out.
LEMMA RecvAnswers ==
    ASSUME LifeInv, NotInjecting, Answers, RecvFrame \/ RecvFails \/ RecvTimeout
    PROVE  Answers'
<1> USE DEF exchange, legs, ecu, tasks
<1>0. TypeOK /\ pc = "receiving" /\ UNCHANGED <<req, out, queue, inbox, answered>>
    BY DEF LifeInv, RecvFrame, RecvFails, RecvTimeout
<1>1. QueueFits /\ \A i \in DOMAIN out : SentFits(i)
    BY <1>0, StreamParts, OutParts DEF Answers
<1>2. CASE RecvFrame
    <2>1. read.state = "frame" /\ Arrived(read.frame)
        BY <1>0, <1>2, StreamParts DEF Answers, RecvFrame
    <2>2. CASE Retire(FALSE) /\ UNCHANGED accepted
        BY <1>0, <2>2, RetireMove, OutKept, AnswersKept DEF Answers, Unsent
    <2>3. CASE /\ ~(read.frame.kind = "ack" /\ accepted)
               /\ read.frame.kind \in {"pend", "final"} => Matches(read.frame)
               /\ pc' = "relaying" /\ frame' = read.frame /\ UNCHANGED cur
               /\ accepted' = (accepted \/ read.frame.kind \in {"ack", "pend", "final"})
        <3>1. QueueFits' /\ (Decided => Decided')
            BY <1>0, <1>1, <2>3 DEF QueueFits, Decided
        <3>2. FrameFits'
            BY <1>0, <2>1, <2>3, <3>1 DEF FrameFits, Arrived, IsUds, Matches
        <3>3. StreamInv'
            BY <2>3, <3>1, <3>2, StreamParts DEF StreamInv, QueueFits, FrameFits
        <3>4. ASSUME NEW i \in DOMAIN out PROVE SentFits(i)'
            <4>1. SentFits(i)
                BY <1>1
            <4> QED BY <1>0, <2>1, <2>3, <3>1, <4>1 DEF SentFits, Verdict, IsVerdict
        <3>5. OutInv'
            BY <1>0, <2>3, <3>4, OutParts
            DEF Answers, OutInv, SentFits, Unsent, Verdict, IsVerdict
        <3> QED BY <1>0, <3>3, <3>5, AnswersKept DEF Answers
    <2> QED BY <1>2, <2>2, <2>3 DEF RecvFrame
<1>3. CASE RecvFails
    <2>1. UNCHANGED accepted /\ (Fail(accepted) \/ Retire(TRUE))
        BY <1>3 DEF RecvFails
    <2> QED BY <1>0, <2>1, FailMove, RetireMove, OutKept, AnswersKept DEF Answers, Unsent
<1>4. CASE RecvTimeout
    <2> DEFINE owner == IF read.state = Waiting THEN reader[tgt] ELSE NoLeg
    <2>1. /\ UNCHANGED <<accepted, frame>>
          /\ LoopHead(accepted, owner) \/ Fail(accepted)
        BY <1>4 DEF RecvTimeout
    <2>2. /\ UNCHANGED cur
          /\ \/ pc' = "nacking" /\ ~accepted
             \/ pc' = "retiring"
             \/ pc' = "receiving" /\ read' = IF owner = NoLeg THEN NewRead ELSE read
        BY <1>0, <2>1, LoopHeadMove, FailMove
    <2>3. CASE pc' # "receiving"
        BY <1>0, <2>1, <2>2, <2>3, OutKept, AnswersKept DEF Answers, Unsent
    <2>4. CASE pc' = "receiving"
        <3>1. read'.state # "frame"
            BY <2>2, <2>4, ConstantsAssumption DEF NewRead, Waiting
        <3>2. QueueFits' /\ (Decided => Decided') /\ \A f : Arrived(f) => Arrived(f)'
            BY <1>0, <1>1, <2>2 DEF QueueFits, Decided, Arrived
        <3>3. StreamInv' /\ OutInv'
            BY <1>0, <2>1, <2>2, <2>4, <3>1, <3>2, FlowKept DEF Answers
        <3> QED BY <1>0, <3>3, AnswersKept DEF Answers
    <2> QED BY <2>3, <2>4
<1> QED BY <1>2, <1>3, <1>4

\* The tester has been sent a frame, or the relay of it has failed.
LEMMA RelayAnswers ==
    ASSUME LifeInv, NotInjecting, Answers, RelayDone \/ RelayFails
    PROVE  Answers'
<1> USE DEF exchange, legs, ecu, tasks
<1>0. /\ TypeOK /\ pc = "relaying" /\ UNCHANGED <<req, accepted, queue, inbox, answered>>
      /\ out \in Seq(Frames) /\ frame \in Frames
    BY DEF LifeInv, TypeOK, RelayDone, RelayFails
<1>1. QueueFits /\ FrameFits /\ \A i \in DOMAIN out : SentFits(i)
    BY <1>0, StreamParts, OutParts DEF Answers
<1>2. CASE RelayFails
    BY <1>0, <1>2, FailMove, OutKept, AnswersKept DEF RelayFails, Answers, Unsent
<1>3. CASE RelayDone
    <2>1. out' = out \/ out' = Append(out, frame)
        BY <1>3 DEF RelayDone
    <2>2. /\ out' \in Seq(Frames) /\ DOMAIN out = 1..Len(out) /\ Len(out) \in Nat
          /\ \A i \in DOMAIN out' :
                \/ i \in DOMAIN out /\ out'[i] = out[i]
                \/ i = Len(out) + 1 /\ out'[i] = frame
        BY <1>0, <2>1, Appended
    <2>3. \A i \in DOMAIN out : i # Len(out) + 1
        BY <2>2
    <2>4. NoStaleResponse'
        <3>1. IsUds(frame) => frame.n = req \/ (~Strict /\ frame.n = 0)
            BY <1>0, <1>1 DEF FrameFits, Arrived, Matches
        <3> QED BY <1>0, <2>2, <3>1 DEF Answers, NoStaleResponse, IsUds
    <2>5. NoErrorAfterAccept'
        <3>1. frame.kind # "local"
            BY <1>1 DEF FrameFits, Arrived
        <3>2. ASSUME NEW i \in DOMAIN out', NEW j \in DOMAIN out', i < j, out'[j].kind = "local"
              PROVE  out'[i].kind \notin {"ack", "pend", "final"}
            <4>1. j \in DOMAIN out /\ out'[j] = out[j]
                BY <2>2, <3>1, <3>2
            <4>2. i # Len(out) + 1
                BY <2>2, <3>2, <4>1
            <4>3. i \in DOMAIN out /\ out'[i] = out[i]
                BY <2>2, <4>2
            <4> QED BY <3>2, <4>1, <4>3 DEF Answers, NoErrorAfterAccept
        <3> QED BY <3>2 DEF NoErrorAfterAccept
    <2>6. \A i, j \in DOMAIN out' : Verdict(out'[i]) /\ Verdict(out'[j]) => i = j
        <3>1. \A i \in DOMAIN out : Verdict(out[i]) => ~Verdict(frame)
            BY <1>0, <1>1 DEF SentFits
        <3>2. \A i, j \in DOMAIN out : Verdict(out[i]) /\ Verdict(out[j]) => i = j
            BY DEF Answers, OutInv
        <3> QED BY <2>2, <3>1, <3>2
    <2>7. CASE Return \/ Retire(FALSE)
        <3>1. pc' \in {"idle", "stopping", "retiring"}
            BY <2>7, LeaveMove, RetireMove
        <3>2. StreamInv' /\ OutInv'
            BY <2>6, <3>1, OutParts DEF StreamInv, OutInv, Verdict, IsVerdict
        <3> QED BY <2>4, <2>5, <3>2 DEF Answers
    <2>8. CASE /\ frame.kind = "ack" \/ (frame.kind = "pend" /\ frame.n # 0)
               /\ LoopHead(accepted, reader[tgt])
        <3>1. accepted
            BY <1>1, <2>8 DEF FrameFits
        <3>2. /\ UNCHANGED cur
              /\ \/ pc' = "retiring"
                 \/ pc' = "receiving" /\ read' = IF reader[tgt] = NoLeg THEN NewRead ELSE read
            BY <1>0, <2>8, <3>1, LoopHeadMove
        <3>3. CASE pc' = "retiring"
            <4>1. StreamInv' /\ OutInv'
                BY <2>6, <3>3, OutParts DEF StreamInv, OutInv, Verdict, IsVerdict
            <4> QED BY <2>4, <2>5, <4>1 DEF Answers
        <3>4. CASE pc' = "receiving"
            <4>1. reader[tgt] = NoLeg
                BY <1>0 DEF LifeInv, ReadTaskOwned, TypeOK
            <4>2. read'.state # "frame"
                BY <3>2, <3>4, <4>1 DEF NewRead, Waiting
            <4>3. QueueFits' /\ (Decided => Decided')
                BY <1>0, <1>1, <3>2 DEF QueueFits, Decided
            <4>4. StreamInv'
                BY <3>4, <4>2, <4>3, StreamParts DEF StreamInv, QueueFits
            <4>5. ASSUME NEW i \in DOMAIN out' PROVE SentFits(i)'
                <5>1. out'[i].kind \in {"ack", "pend"} /\ accepted'
                    BY <1>0, <1>1, <2>2, <2>8, <3>1 DEF SentFits
                <5>2. Verdict(out'[i]) => Decided'
                    BY <1>0, <1>1, <2>2, <4>3 DEF SentFits, FrameFits, Arrived
                <5> QED BY <3>4, <4>2, <5>1, <5>2 DEF SentFits, Verdict, IsVerdict
            <4>6. OutInv'
                BY <2>6, <3>4, <4>5, OutParts
                DEF OutInv, SentFits, Unsent, Verdict, IsVerdict
            <4> QED BY <2>4, <2>5, <4>4, <4>6 DEF Answers
        <3> QED BY <3>2, <3>3, <3>4
    <2> QED BY <1>3, <2>7, <2>8 DEF RelayDone
<1> QED BY <1>2, <1>3

\* The EdgeNode's own Negative ACK is the only answer.
LEMMA NackAnswers ==
    ASSUME LifeInv, NotInjecting, Answers, NackDone \/ NackFails
    PROVE  Answers'
<1>0. /\ TypeOK /\ pc = "nacking" /\ UNCHANGED <<req, accepted>>
      /\ out \in Seq(Frames) /\ [kind |-> "local", n |-> req] \in Frames
    BY DEF LifeInv, TypeOK, NackDone, NackFails, Frames
<1>1. Len(out) = 0 /\ DOMAIN out = {}
    <2>1. Len(out) = 0
        BY <1>0 DEF Answers, OutInv
    <2> QED BY <1>0, <2>1, EmptySequence
<1>2. pc' \in {"idle", "stopping", "retiring"}
    BY LeaveMove, RetireMove DEF NackDone, NackFails
<1>3. out' = out \/ out' = Append(out, [kind |-> "local", n |-> req])
    BY DEF NackDone, NackFails
<1>4. \A i \in DOMAIN out' : i = 1 /\ out'[i].kind = "local"
    BY <1>0, <1>1, <1>3, Appended
<1>5. StreamInv'
    BY <1>2 DEF StreamInv
<1>6. OutInv'
    BY <1>2, <1>4 DEF OutInv
<1>7. NoStaleResponse' /\ NoErrorAfterAccept'
    BY <1>4 DEF NoStaleResponse, NoErrorAfterAccept, IsUds
<1> QED BY <1>5, <1>6, <1>7 DEF Answers

\* The other steps of the pump tell the tester nothing.
LEMMA PumpAnswers ==
    ASSUME LifeInv, NotInjecting, OneAnswer, QuietInv, Answers,
           \/ \E t \in Targets : Request(t)
           \/ ReadEof \/ PumpCancelled \/ DeadlinePasses \/ PumpStep \/ RetireEnds
    PROVE  Answers'
<1> USE DEF exchange, legs, ecu, tasks
<1>0. TypeOK /\ PumpInv
    BY DEF LifeInv
<1>1. CASE \E t \in Targets : Request(t)
    <2>1. /\ pc' = "middleware" /\ out' = <<>> /\ accepted' = FALSE
        BY <1>1 DEF Request
    <2>2. Len(out') = 0 /\ DOMAIN out' = {}
        BY <2>1
    <2> QED BY <2>1, <2>2 DEF Answers, StreamInv, OutInv, NoStaleResponse, NoErrorAfterAccept
<1>2. CASE ReadEof \/ Connected \/ Unconnected
    <2>1. /\ pc \in Unsent \/ pc' = "stopping"
          /\ pc' \notin {"receiving", "relaying"} /\ UNCHANGED <<req, accepted, out>>
        BY <1>2, LeaveMove
        DEF ReadEof, Connected, Unconnected, UseLeg, Nack, NotInjecting, Unsent, Exit
    <2> QED BY <1>0, <2>1, OutKept, AnswersKept DEF Answers, Unsent
<1>3. CASE ReplayStarts \/ InjectDone
    BY <1>0, <1>3 DEF ReplayStarts, InjectDone, NotInjecting, OneAnswer, TypeOK
<1>4. CASE MiddlewareDone
    <2>1. /\ pc = "middleware" /\ UNCHANGED <<req, accepted, out>>
          /\ Route \/ Return \/ Nack \/ Exit
        BY <1>4 DEF MiddlewareDone
    <2>2. pc' \notin {"receiving", "relaying"}
        BY <2>1, RouteMove, LeaveMove DEF Nack
    <2> QED BY <1>0, <2>1, <2>2, OutKept, AnswersKept DEF Answers, Unsent
<1>5. CASE SendDone
    BY <1>5, SendDoneAnswers
<1>6. CASE SendFails
    <2>1. pc = "sending" /\ UNCHANGED <<req, accepted, out>> /\ Fail(accepted)
        BY <1>6 DEF SendFails
    <2>2. pc' \in {"nacking", "retiring"}
        BY <2>1, FailMove
    <2> QED BY <1>0, <2>1, <2>2, OutKept, AnswersKept DEF Answers, Unsent
<1>7. CASE RecvFrame \/ RecvFails \/ RecvTimeout
    BY <1>7, RecvAnswers
<1>8. CASE RelayDone \/ RelayFails
    BY <1>8, RelayAnswers
<1>9. CASE NackDone \/ NackFails
    BY <1>9, NackAnswers
<1>10. CASE DeadlinePasses
    <2>1. UNCHANGED <<pc, req, cur, accepted, frame, out, read, queue, inbox, answered>>
        BY <1>10 DEF DeadlinePasses
    <2>2. pc \in {"receiving", "relaying"} =>
             QueueFits' /\ (Decided => Decided') /\ \A f : Arrived(f) => Arrived(f)'
        BY <2>1, StreamParts DEF Answers, QueueFits, Decided, Arrived
    <2>3. StreamInv' /\ OutInv'
        BY <2>1, <2>2, FlowKept DEF Answers
    <2> QED BY <2>1, <2>3, AnswersKept DEF Answers
<1>11. CASE PumpCancelled
    <2>1. /\ UNCHANGED <<req, accepted, out>>
          /\ \/ pc' \in {"stopping", "retiring"}
             \/ pc \in {"retiring", "retireOld"} /\ UNCHANGED pc
             \/ pc = "connecting" /\ pc' = "unconnect"
        BY <1>11, LeaveMove, RetireMove DEF PumpCancelled, Exit
    <2> QED BY <1>0, <2>1, OutKept, AnswersKept DEF Answers, Unsent
<1>12. CASE RetireEnds
    <2>1. /\ UNCHANGED <<req, accepted, out>>
          /\ \/ Exit \/ Return
             \/ pc = "retireOld" /\ Connect
        BY <1>0, <1>12 DEF RetireEnds, PumpInv
    <2>2. pc' \in {"idle", "stopping"} \/ (pc = "retireOld" /\ pc' \notin {"receiving", "relaying"})
        BY <2>1, LeaveMove, ConnectMove
    <2> QED BY <1>0, <2>1, <2>2, OutKept, AnswersKept DEF Answers, Unsent
<1> QED
    BY <1>1, <1>2, <1>3, <1>4, <1>5, <1>6, <1>7, <1>8, <1>9, <1>10, <1>11, <1>12
    DEF PumpStep

-----------------------------------------------------------------------------
(* The leg and its ECU meanwhile.                                          *)

\* The leg in use is closed, or the ECU stays silent: less is under way.
LEMMA LessAnswers ==
    ASSUME LifeInv, Answers, UNCHANGED <<pc, req, cur, accepted, frame, out>>,
           read' = read \/ read'.state # "frame",
           pc \in {"receiving", "relaying"} =>
              /\ queue'[cur] \in {queue[cur], <<>>}
              /\ \/ inbox'[cur] = <<>>
                 \/ inbox'[cur] = inbox[cur] /\ answered'[cur] = answered[cur]
    PROVE  Answers'
<1>1. ASSUME pc \in {"receiving", "relaying"}
      PROVE  QueueFits' /\ (Decided => Decided') /\ \A f : Arrived(f) => Arrived(f)'
    <2>1. QueueFits
        BY <1>1, StreamParts DEF Answers
    <2>2. DOMAIN <<>> = {}
        OBVIOUS
    <2>3. CASE queue'[cur] = <<>>
        BY <1>1, <2>1, <2>2, <2>3 DEF QueueFits, Decided, Arrived
    <2>4. CASE queue'[cur] = queue[cur]
        BY <1>1, <2>1, <2>2, <2>4 DEF QueueFits, Decided, Arrived
    <2> QED BY <1>1, <2>3, <2>4
<1>2. StreamInv' /\ OutInv'
    BY <1>1, FlowKept DEF Answers
<1> QED BY <1>2, AnswersKept DEF Answers

\* recv() takes the first frame.
LEMMA ReadAnswers ==
    ASSUME LifeInv, Answers, NEW t \in Targets, ReadReady(t)
    PROVE  Answers'
<1> USE DEF exchange, legs, ecu, tasks
<1>0. /\ TypeOK /\ reader[t] = cur /\ cur \in Legs
      /\ UNCHANGED <<pc, req, cur, accepted, frame, out, inbox, answered>>
    BY ConstantsAssumption
    DEF ReadReady, LifeInv, ReadTaskOwned, PumpInv, Holding, TypeOK
<1>1. CASE queue[cur] = <<>>
    <2>1. read'.state = Failed /\ UNCHANGED queue
        BY <1>0, <1>1 DEF ReadReady
    <2> QED BY <1>0, <2>1, LessAnswers DEF Failed
<1>2. CASE queue[cur] # <<>> /\ pc \notin {"receiving", "relaying"}
    <2>1. StreamInv' /\ OutInv'
        BY <1>0, <1>2, FlowKept DEF Answers
    <2> QED BY <1>0, <2>1, AnswersKept DEF Answers
<1>3. CASE queue[cur] # <<>> /\ pc \in {"receiving", "relaying"}
    <2> DEFINE q == queue[cur]
               n == Len(q)
    <2>1. /\ read' = [state |-> "frame", frame |-> Head(q)]
          /\ queue'[cur] = Tail(q)
        BY <1>0, <1>3 DEF ReadReady, TypeOK
    <2>2. /\ n \in Nat \ {0} /\ DOMAIN q = 1..n /\ Head(q) = q[1]
          /\ Len(Tail(q)) = n - 1 /\ DOMAIN Tail(q) = 1..(n - 1)
          /\ \A i \in 1..(n - 1) : Tail(q)[i] = q[i + 1]
          /\ Tail(q) \in Seq(Frames)
        <3>1. q \in Seq(Frames) /\ q # <<>>
            BY <1>0, <1>3 DEF TypeOK
        <3> QED BY <3>1, Tailed
    <2>3. QueueFits
        BY <1>3, StreamParts DEF Answers
    <2>4. QueueFits'
        <3>1. ASSUME NEW i \in 1..(n - 1)
              PROVE  /\ i + 1 \in DOMAIN q /\ Tail(q)[i] = q[i + 1]
                     /\ i + 1 = n <=> i = n - 1
            BY <2>2
        <3>2. ASSUME NEW i \in DOMAIN queue'[cur]
              PROVE  /\ queue'[cur][i].kind # "local" /\ queue'[cur][i].n \in {0, req}
                     /\ IsLast(queue'[cur][i]) => i = Len(queue'[cur]) /\ inbox[cur] = <<>>
                     /\ Verdict(queue'[cur][i]) => inbox[cur] = <<>> \/ answered[cur] # "no"
            <4>1. i \in 1..(n - 1) /\ queue'[cur][i] = q[i + 1] /\ Len(queue'[cur]) = n - 1
                BY <2>1, <2>2, <3>2
            <4>2. i + 1 \in DOMAIN q /\ (i + 1 = n <=> i = n - 1)
                BY <3>1, <4>1
            <4> QED BY <2>3, <4>1, <4>2 DEF QueueFits
        <3>3. ASSUME NEW i \in DOMAIN queue'[cur], NEW j \in DOMAIN queue'[cur],
                     Verdict(queue'[cur][i]), Verdict(queue'[cur][j])
              PROVE  i = j
            <4>1. /\ i \in 1..(n - 1) /\ queue'[cur][i] = q[i + 1]
                  /\ j \in 1..(n - 1) /\ queue'[cur][j] = q[j + 1]
                BY <2>1, <2>2, <3>3
            <4>2. i + 1 = j + 1
                <5>1. i + 1 \in DOMAIN q /\ j + 1 \in DOMAIN q
                    BY <3>1, <4>1
                <5> QED BY <2>3, <3>3, <4>1, <5>1 DEF QueueFits
            <4> QED BY <2>2, <4>1, <4>2
        <3> QED BY <1>0, <2>3, <3>2, <3>3 DEF QueueFits, IsLast, Verdict, IsVerdict
    <2>5. 1 \in DOMAIN q
        BY <2>2
    <2>6. \A i \in DOMAIN queue'[cur] :
             i + 1 \in DOMAIN q /\ queue'[cur][i] = q[i + 1] /\ i + 1 # 1
        BY <2>1, <2>2
    <2>7. Decided => Decided'
        BY <1>0, <2>6 DEF Decided, Verdict, IsVerdict
    <2>8. IsLast(q[1]) => queue'[cur] = <<>> /\ inbox[cur] = <<>>
        <3>1. IsLast(q[1]) => n = 1 /\ inbox[cur] = <<>>
            BY <2>3, <2>5 DEF QueueFits
        <3>2. n = 1 => Tail(q) = <<>>
            BY <2>2, EmptySequence
        <3> QED BY <2>1, <3>1, <3>2
    <2>9. Verdict(q[1]) => Decided'
        <3>1. Verdict(q[1]) => inbox[cur] = <<>> \/ answered[cur] # "no"
            BY <2>3, <2>5 DEF QueueFits
        <3>2. Verdict(q[1]) => \A i \in DOMAIN queue'[cur] : ~Verdict(queue'[cur][i])
            BY <2>3, <2>5, <2>6 DEF QueueFits
        <3> QED BY <1>0, <3>1, <3>2 DEF Decided, Verdict, IsVerdict
    <2>10. read'.frame = q[1]
        BY <2>1, <2>2
    <2>11. q[1].kind # "local" /\ q[1].n \in {0, req}
        BY <2>3, <2>5 DEF QueueFits
    <2>12. Arrived(read.frame)'
        BY <1>0, <2>8, <2>9, <2>10, <2>11 DEF Arrived, IsLast, Verdict, IsVerdict
    <2>13. \A f : Arrived(f) => Arrived(f)'
        <3>1. ASSUME NEW f, Arrived(f), IsLast(f) PROVE queue'[cur] = <<>>
            BY <1>3, <3>1 DEF Arrived
        <3> QED BY <1>0, <2>7, <3>1 DEF Arrived, IsLast, Verdict, IsVerdict
    <2>14. Verdict(read'.frame) => \A i \in DOMAIN out : ~Verdict(out[i])
        <3>1. ASSUME NEW i \in DOMAIN out, Verdict(out[i]) PROVE ~Verdict(q[1])
            <4>1. Decided
                BY <1>3, <3>1, OutParts DEF Answers, SentFits
            <4> QED BY <2>5, <4>1 DEF Decided
        <3> QED BY <2>10, <3>1
    <2>15. StreamInv' /\ OutInv'
        BY <1>0, <2>4, <2>7, <2>12, <2>13, <2>14, FlowKept DEF Answers
    <2> QED BY <1>0, <2>15, AnswersKept DEF Answers
<1> QED BY <1>1, <1>2, <1>3

\* The ECU's connection ends or it answers on a leg that is not in use now.
LEMMA OtherLegAnswers ==
    ASSUME Answers, UNCHANGED <<pc, req, cur, accepted, frame, out, read>>,
           queue'[cur] = queue[cur], inbox'[cur] = inbox[cur], answered'[cur] = answered[cur]
    PROVE  Answers'
<1>1. pc \in {"receiving", "relaying"} =>
         QueueFits' /\ (Decided => Decided') /\ \A f : Arrived(f) => Arrived(f)'
    BY StreamParts DEF Answers, QueueFits, Decided, Arrived
<1>2. StreamInv' /\ OutInv'
    BY <1>1, FlowKept DEF Answers
<1> QED BY <1>2, AnswersKept DEF Answers

\* A frame joins the queue of the leg in use: it is the last one, or the ECU
\* still has the request and has decided on it.
LEMMA ArrivalAnswers ==
    ASSUME LifeInv, QuietInv, Answers, cur \in Legs, pc \in {"receiving", "relaying"},
           UNCHANGED <<pc, req, cur, accepted, frame, out, read>>,
           inbox[cur] # <<>>, NEW f \in Frames, queue'[cur] = Append(queue[cur], f),
           f.kind # "local", f.n \in {0, req},
           Verdict(f) => answered[cur] = "no",
           \/ inbox'[cur] = <<>>
           \/ ~IsLast(f) /\ inbox'[cur] = inbox[cur] /\ answered'[cur] # "no"
    PROVE  Answers'
<1> DEFINE q == queue[cur]
           n == Len(q)
<1>1. /\ n \in Nat /\ DOMAIN q = 1..n /\ DOMAIN queue'[cur] = 1..(n + 1)
      /\ Len(queue'[cur]) = n + 1
      /\ \A i \in 1..n : queue'[cur][i] = q[i]
      /\ queue'[cur][n + 1] = f
    <2>1. q \in Seq(Frames)
        BY DEF LifeInv, TypeOK
    <2> QED BY <2>1, Appended
<1>2. QueueFits
    BY StreamParts DEF Answers
<1>3. \A i \in DOMAIN inbox'[cur] : inbox'[cur][i] = req
    <2>1. DOMAIN <<>> = {}
        OBVIOUS
    <2> QED BY <1>2, <2>1 DEF QueueFits
<1>4. \A i \in 1..n : /\ ~IsLast(q[i]) /\ q[i].kind # "local" /\ q[i].n \in {0, req}
                      /\ Verdict(q[i]) => answered[cur] # "no"
    BY <1>1, <1>2 DEF QueueFits
<1>5. \A i \in 1..(n + 1) : \/ i \in 1..n /\ queue'[cur][i] = q[i]
                            \/ i = n + 1 /\ queue'[cur][i] = f
    BY <1>1
<1>6. \A i \in 1..(n + 1) :
         /\ queue'[cur][i].kind # "local" /\ queue'[cur][i].n \in {0, req}
         /\ IsLast(queue'[cur][i]) => i = n + 1 /\ inbox'[cur] = <<>>
         /\ Verdict(queue'[cur][i]) => inbox'[cur] = <<>> \/ answered'[cur] # "no"
    BY <1>4, <1>5
<1>7. \A i, j \in 1..(n + 1) : Verdict(queue'[cur][i]) /\ Verdict(queue'[cur][j]) => i = j
    <2>1. \A i, j \in 1..n : Verdict(q[i]) /\ Verdict(q[j]) => i = j
        BY <1>1, <1>2 DEF QueueFits
    <2>2. \A i \in 1..n : ~(Verdict(q[i]) /\ Verdict(f))
        BY <1>4
    <2> QED BY <1>5, <2>1, <2>2
<1>8. QueueFits'
    BY <1>1, <1>3, <1>6, <1>7 DEF QueueFits, IsLast, Verdict, IsVerdict
<1>9. Decided => Decided'
    <2>1. Decided => ~Verdict(f) /\ \A i \in 1..n : ~Verdict(q[i])
        BY <1>1 DEF Decided
    <2>2. Decided => \A i \in 1..(n + 1) : ~Verdict(queue'[cur][i])
        BY <1>5, <2>1
    <2> QED BY <1>1, <2>2 DEF Decided, Verdict, IsVerdict
<1>10. \A g : Arrived(g) => Arrived(g)'
    <2>1. \A g : Arrived(g) => ~IsLast(g)
        BY DEF Arrived
    <2> QED BY <1>9, <2>1 DEF Arrived, IsLast, Verdict, IsVerdict
<1>11. StreamInv' /\ OutInv'
    BY <1>8, <1>9, <1>10, FlowKept DEF Answers
<1> QED BY <1>11, AnswersKept DEF Answers

LEMMA EcuAnswersKept ==
    ASSUME OneAnswer, LifeInv, QuietInv, Answers, NEW l \in Legs, EcuStep(l)
    PROVE  Answers'
<1> USE DEF exchange, legs, ecu, tasks
<1>0. /\ TypeOK /\ EcuInv /\ queue[l] \in Seq(Frames) /\ inbox[l] \in Seq(1..MaxRequests)
      /\ MaxRequests \in Nat /\ req \in Nat
    BY ConstantsAssumption DEF LifeInv, TypeOK
<1>1. UNCHANGED <<pc, req, cur, accepted, frame, out, read>>
    BY <1>0, NothingAdded DEF EcuStep, EcuAnswers, EcuSuppresses, EcuStray, EcuEof
<1>2. CASE EcuEof(l)
    BY <1>1, <1>2, OtherLegAnswers DEF EcuEof
<1>3. CASE /\ EcuAnswers(l) \/ EcuSuppresses(l) \/ EcuStray(l)
           /\ l # cur /\ pc \in {"receiving", "relaying"}
    <2>1. /\ UNCHANGED queue \/ \E f : queue' = [queue EXCEPT ![l] = Append(@, f)]
          /\ inbox' = inbox \/ inbox' = [inbox EXCEPT ![l] = Tail(@)]
          /\ \E a : answered' = [answered EXCEPT ![l] = a]
        BY <1>0, <1>3, AnswerForm DEF EcuAnswers, EcuSuppresses, EcuStray
    <2>2. cur \in Legs
        BY <1>3 DEF LifeInv, PumpInv, Holding
    <2>3. queue'[cur] = queue[cur] /\ inbox'[cur] = inbox[cur] /\ answered'[cur] = answered[cur]
        BY <1>0, <1>3, <2>1, <2>2 DEF TypeOK
    <2> QED BY <1>1, <2>3, OtherLegAnswers
<1>4. CASE (EcuAnswers(l) \/ EcuSuppresses(l) \/ EcuStray(l)) /\ pc \notin {"receiving", "relaying"}
    <2>1. StreamInv' /\ OutInv'
        BY <1>1, <1>4, FlowKept DEF Answers
    <2> QED BY <1>1, <2>1, AnswersKept DEF Answers
<1>5. CASE /\ EcuAnswers(l) \/ EcuSuppresses(l) \/ EcuStray(l)
           /\ l = cur /\ pc \in {"receiving", "relaying"}
    <2>1. inbox[l] # <<>> /\ queue \in [Legs -> Seq(Frames)] /\ inbox \in [Legs -> Seq(1..MaxRequests)]
          /\ answered \in [Legs -> {"no", "acked", "pended"}]
        BY <1>0, <1>5 DEF EcuAnswers, EcuSuppresses, EcuStray, EcuInv, TypeOK
    <2>2. Head(inbox[l]) = req /\ Tail(inbox[l]) = <<>> /\ req # 0
        <3>1. /\ Len(inbox[l]) \in Nat \ {0} /\ DOMAIN inbox[l] = 1..Len(inbox[l])
              /\ Head(inbox[l]) = inbox[l][1] /\ Len(Tail(inbox[l])) = Len(inbox[l]) - 1
              /\ Tail(inbox[l]) \in Seq(1..MaxRequests)
            BY <1>0, <2>1, Tailed
        <3>2. Len(inbox[l]) <= 1
            BY DEF QuietInv
        <3>3. Len(inbox[l]) = 1
            <4> DEFINE n == Len(inbox[l])
            <4>1. n \in Nat \ {0} /\ n <= 1
                BY <3>1, <3>2
            <4> HIDE DEF n
            <4>2. n = 1
                BY <4>1
            <4> QED BY <4>2 DEF n
        <3>4. Tail(inbox[l]) = <<>>
            <4>1. Len(Tail(inbox[l])) = 0
                BY <3>1, <3>3
            <4> QED BY <3>1, <4>1, EmptySequence
        <3>5. 1 \in DOMAIN inbox[cur] /\ inbox[l][1] \in 1..MaxRequests
            BY <1>0, <1>5, <3>1, <3>3
        <3>6. inbox[cur][1] = req
            BY <1>5, <3>5, StreamParts DEF Answers, QueueFits
        <3> QED BY <1>0, <1>5, <3>1, <3>4, <3>5, <3>6
    <2>3. CASE EcuAnswers(l)
        <3>1. PICK k \in {"ack", "nack", "pend", "final"} :
                 /\ queue' = [queue EXCEPT ![l] =
                                 Append(@, [kind |-> k, n |-> Head(inbox[l])])]
                 /\ k = "ack" => answered[l] = "no" /\ answered' = [answered EXCEPT ![l] = "acked"]
                 /\ k = "nack" => answered[l] = "no"
                 /\ k = "pend" => answered' = [answered EXCEPT ![l] = "pended"]
                 /\ k \in {"ack", "pend"} => inbox' = inbox
                 /\ k \in {"nack", "final"} =>
                       /\ inbox' = [inbox EXCEPT ![l] = Tail(@)]
                       /\ answered' = [answered EXCEPT ![l] = "no"]
            BY <1>0, <2>3, AnswerForm
        <3> DEFINE f == [kind |-> k, n |-> req]
        <3>2. f \in Frames /\ f.kind = k /\ f.n = req
            BY <1>0 DEF Frames, Kinds, TypeOK
        <3>3. queue'[cur] = Append(queue[cur], f)
            BY <1>5, <2>1, <2>2, <3>1
        <3>4. Verdict(f) => answered[cur] = "no"
            BY <1>5, <3>1, <3>2 DEF Verdict, IsVerdict
        <3>5. k \in {"nack", "final"} => inbox'[cur] = <<>>
            BY <1>5, <2>1, <2>2, <3>1
        <3>6. k \in {"ack", "pend"} =>
                 ~IsLast(f) /\ inbox'[cur] = inbox[cur] /\ answered'[cur] # "no"
            BY <1>5, <2>1, <2>2, <3>1, <3>2 DEF IsLast
        <3> HIDE DEF f
        <3> QED BY <1>1, <1>5, <2>1, <3>1, <3>2, <3>3, <3>4, <3>5, <3>6, ArrivalAnswers
    <2>4. CASE EcuStray(l)
        <3>1. PICK k \in Kinds : queue' = [queue EXCEPT ![l] = Append(@, [kind |-> k, n |-> 0])]
            BY <2>4 DEF EcuStray
        <3> DEFINE f == [kind |-> k, n |-> 0]
        <3>2. f \in Frames /\ f.kind # "local" /\ f.n = 0 /\ ~Verdict(f)
            BY <1>0 DEF Frames, Kinds, Verdict
        <3>3. queue'[cur] = Append(queue[cur], f)
            BY <1>5, <2>1, <3>1
        <3>4. inbox'[cur] = <<>>
            BY <1>5, <2>1, <2>2, <2>4 DEF EcuStray
        <3> HIDE DEF f
        <3> QED BY <1>1, <1>5, <2>1, <3>2, <3>3, <3>4, ArrivalAnswers
    <2>5. CASE EcuSuppresses(l)
        <3>1. inbox'[cur] = <<>> /\ queue' = queue
            BY <1>5, <2>1, <2>2, <2>5 DEF EcuSuppresses
        <3> QED BY <1>1, <3>1, LessAnswers
    <2> QED BY <1>5, <2>3, <2>4, <2>5
<1> QED BY <1>0, <1>2, <1>3, <1>4, <1>5, NothingAdded DEF EcuStep

\* The other steps of the legs, and those of the teardown.
LEMMA LegAnswers ==
    ASSUME LifeInv, Answers,
           \/ \E l \in Legs : CloseDone(l)
           \/ ConnectOk \/ ConnectFails \/ ConnectClosed \/ RetireBegins
           \/ \E t \in Targets : ReadReady(t)
           \/ CloseSession \/ CleanupStep \/ UNCHANGED vars
    PROVE  Answers'
<1> USE DEF exchange, legs, ecu, tasks
<1>0. TypeOK /\ (pc \in {"receiving", "relaying"} => cur \in Legs)
    BY DEF LifeInv, PumpInv, Holding
<1>1. CASE \E l \in Legs : CloseDone(l)
    <2>1. PICK l \in Legs : CloseDone(l) BY <1>1
    <2>2. /\ UNCHANGED <<pc, req, cur, accepted, frame, out, read, queue>>
          /\ \A m \in Legs : \/ inbox'[m] = <<>>
                             \/ inbox'[m] = inbox[m] /\ answered'[m] = answered[m]
        BY <1>0, <2>1 DEF CloseDone, TypeOK
    <2> QED BY <1>0, <2>2, LessAnswers
<1>2. CASE ConnectOk \/ RetireBegins \/ CleanupCloses
    <2>1. /\ UNCHANGED <<pc, req, cur, accepted, frame, out, read, inbox, answered>>
          /\ UNCHANGED queue \/ \E L : StartClose(L)
        BY <1>2 DEF ConnectOk, RetireBegins, CleanupCloses
    <2>2. \A m \in Legs : queue'[m] \in {queue[m], <<>>}
        BY <2>1 DEF StartClose
    <2> QED BY <1>0, <2>1, <2>2, LessAnswers
<1>3. CASE CleanupReads
    <2>1. /\ UNCHANGED <<pc, req, cur, accepted, frame, out, queue, inbox, answered>>
          /\ read' = read \/ read'.state # "frame"
        <3>1. read' = read \/ read' = [read EXCEPT !.state = Cancelled]
            BY <1>3 DEF CleanupReads
        <3> QED BY <1>0, <1>3, <3>1 DEF CleanupReads, TypeOK, Cancelled
    <2> QED BY <2>1, LessAnswers
<1>4. CASE \E t \in Targets : ReadReady(t)
    BY <1>4, ReadAnswers
<1>5. CASE ConnectFails \/ ConnectClosed \/ CloseSession \/ CleanupConnects \/ CleanupRetires
           \/ CleanupDone \/ UNCHANGED vars
    <2>1. UNCHANGED <<pc, req, cur, accepted, frame, out, read, queue, inbox, answered>>
        BY <1>5
        DEF ConnectFails, ConnectClosed, CloseSession, CleanupConnects, CleanupRetires,
            CleanupDone, vars
    <2> QED BY <2>1, LessAnswers
<1>6. CASE Finish
    <2>1. UNCHANGED <<out, accepted, req>> /\ pc' = "finished"
        BY <1>6 DEF Finish
    <2> QED BY <1>0, <2>1, OutKept, AnswersKept DEF Answers, Unsent
<1> QED BY <1>1, <1>2, <1>3, <1>4, <1>5, <1>6 DEF CleanupStep

-----------------------------------------------------------------------------
(* The theorems about the answers.  Without ReplayMiddleware: the answers  *)
(* to the requests that one injects are read by nobody.                    *)

LEMMA ExchangeForm ==
    ExchangeInv <=> NotInjecting /\ LifeInv /\ QuietInv /\ Answers
BY DEF ExchangeInv, NotInjecting, Answers

LEMMA InitExchange ==
    ASSUME Init
    PROVE  ExchangeInv
<1>1. NotInjecting /\ QuietInv
    BY DEF Init, NotInjecting, QuietInv, Silent
<1>2. Answers
    <2>1. DOMAIN out = {} /\ pc = "idle"
        BY DEF Init
    <2> QED BY <2>1 DEF Answers, StreamInv, OutInv, NoStaleResponse, NoErrorAfterAccept
<1> QED BY <1>1, <1>2, InitLife, ExchangeForm

LEMMA NextExchange ==
    ASSUME OneAnswer, ExchangeInv, [Next]_vars
    PROVE  ExchangeInv'
<1> USE DEF exchange, legs, ecu, tasks
<1>0. NotInjecting /\ LifeInv /\ QuietInv /\ Answers /\ StreamInv
    BY ExchangeForm DEF Answers
<1>1. LifeInv'
    BY <1>0, NextLife
<1>2. CASE \/ \E t \in Targets : Request(t)
           \/ ReadEof \/ PumpCancelled \/ DeadlinePasses \/ PumpStep \/ RetireEnds
    BY <1>0, <1>1, <1>2, PumpQuiet, PumpAnswers, ExchangeForm
    DEF ExchangeInv, NotInjecting, Answers
<1>3. CASE \/ \E l \in Legs : CloseDone(l)
           \/ ConnectOk \/ ConnectFails \/ ConnectClosed \/ RetireBegins
           \/ \E t \in Targets : ReadReady(t)
           \/ CloseSession \/ CleanupStep \/ UNCHANGED vars
    <2>1. NotInjecting'
        <3>1. inject' = inject
            BY <1>3
            DEF CloseDone, ConnectOk, ConnectFails, ConnectClosed, RetireBegins, ReadReady,
                CloseSession, CleanupStep, CleanupConnects, CleanupReads, CleanupCloses,
                CleanupRetires, CleanupDone, Finish, vars
        <3>2. pc' = pc \/ pc' = "finished"
            BY <1>3
            DEF CloseDone, ConnectOk, ConnectFails, ConnectClosed, RetireBegins, ReadReady,
                CloseSession, CleanupStep, CleanupConnects, CleanupReads, CleanupCloses,
                CleanupRetires, CleanupDone, Finish, vars
        <3> QED BY <1>0, <3>1, <3>2 DEF NotInjecting
    <2> QED BY <1>0, <1>1, <1>3, <2>1, LegQuiet, LegAnswers DEF ExchangeInv, NotInjecting, Answers
<1>4. CASE \E l \in Legs : EcuStep(l)
    <2>1. PICK l \in Legs : EcuStep(l) BY <1>4
    <2>2. QuietInv' /\ Answers'
        BY <1>0, <2>1, EcuQuiet, EcuAnswersKept
    <2>3. NotInjecting'
        BY <1>0, <2>1, NothingAdded
        DEF EcuStep, EcuAnswers, EcuSuppresses, EcuStray, EcuEof, NotInjecting, LifeInv
    <2> QED BY <1>1, <2>2, <2>3 DEF ExchangeInv, NotInjecting, Answers
<1> QED BY <1>2, <1>3, <1>4 DEF Next, LegStep, Terminated

\* The exchange is right in every state of a session without ReplayMiddleware.
THEOREM ExchangeSafe ==
    ASSUME OneAnswer
    PROVE  Spec => []ExchangeInv
<1>1. Init => ExchangeInv
    BY InitExchange
<1>2. ExchangeInv /\ [Next]_vars => ExchangeInv'
    BY NextExchange
<1> QED BY <1>1, <1>2, PTL DEF Spec

\* With such an ECU the tester is never given the answer to another request
\* than its last, whatever the timing of timeouts, teardown and late answers
\* (_exchange_with_ecu).
THEOREM AnswersCurrent ==
    ASSUME OneAnswer
    PROVE  Spec => []NoStaleResponse
<1>1. ExchangeInv => NoStaleResponse
    BY DEF ExchangeInv
<1> QED BY <1>1, ExchangeSafe, PTL

\* A request gets one verdict: the ECU's, or the EdgeNode's if the ECU has
\* given none (_relay_ecu_frame, _send_diag_nack).
THEOREM OneVerdict ==
    ASSUME OneAnswer
    PROVE  Spec => []SingleVerdict
<1>1. ExchangeInv /\ FlowInv => SingleVerdict
    <2> SUFFICES ASSUME ExchangeInv, FlowInv PROVE SingleVerdict
        OBVIOUS
    <2> DEFINE V == {i \in DOMAIN out : IsVerdict(out[i]) /\ out[i].n = req}
    <2>1. \A i, j \in V : i = j
        <3>1. CASE req = 0
            <4>1. DOMAIN out = {}
                BY <3>1, EmptySequence DEF FlowInv
            <4> QED BY <4>1
        <3>2. CASE req # 0
            BY <3>2 DEF ExchangeInv, OutInv, Verdict
        <3> QED BY <3>1, <3>2
    <2>2. Cardinality(V) <= 1
        <3>1. CASE V = {}
            BY <3>1, FS_EmptySet
        <3>2. CASE V # {}
            <4> HIDE DEF V
            <4>1. PICK i : i \in V BY <3>2
            <4>2. V = {i}
                BY <2>1, <4>1
            <4>3. Cardinality(V) = 1
                BY <4>2, FS_Singleton
            <4> QED BY <4>3
        <3> QED BY <3>1, <3>2
    <2> QED BY <2>2 DEF SingleVerdict, ExchangeInv
<1>2. SettledInv => FlowInv
    BY DEF SettledInv
<1> QED BY <1>1, <1>2, ExchangeSafe, SettledSafe, PTL

=============================================================================
