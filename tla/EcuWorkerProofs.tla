--------------------------- MODULE EcuWorkerProofs ---------------------------
(***************************************************************************)
(* Proofs about EcuWorker for any number of requests, protocol versions,   *)
(* any size of the queue and any max_response_pending, on every supported  *)
(* Python: what a tester receives for a request is a conversation.         *)
(***************************************************************************)
EXTENDS EcuWorker, FiniteSetTheorems, TLAPS

Frame == [kind : Kinds, ver : Versions]

-----------------------------------------------------------------------------
(* What appending one frame does to the frames of a request.               *)

\* No frame of w is of a kind in K.
Free(w, K) == \A i \in 1..Len(w) : w[i].kind \notin K

\* The order of WireOrder, for the frames of one request.
Ordered(w) ==
    \A i \in 1..Len(w) :
        /\ w[i].kind \in Refusals \cup Answers => i = Len(w)
        /\ w[i].kind = "ack" => i = 1
        /\ w[i].kind \notin {"ack", "nack"} => w[1].kind = "ack"

\* The positions of the ResponsePendings.
Pends(w) == {i \in 1..Len(w) : w[i].kind = "pend"}

\* The positions of a sequence.
LEMMA FrameAppend ==
    ASSUME NEW w \in Seq(Frame), NEW r \in Frame
    PROVE  /\ Append(w, r) \in Seq(Frame)
           /\ Len(w) \in Nat
           /\ Len(Append(w, r)) = Len(w) + 1
           /\ \A i \in 1..Len(w) : Append(w, r)[i] = w[i]
           /\ Append(w, r)[Len(w) + 1] = r
OBVIOUS

\* A frame of another kind keeps the sequence free of K.
LEMMA FreeAppend ==
    ASSUME NEW w \in Seq(Frame), NEW r \in Frame, NEW K
    PROVE  Free(Append(w, r), K) <=> Free(w, K) /\ r.kind \notin K
BY FrameAppend DEF Free

\* The order survives a frame that may follow.
LEMMA OrderedAppend ==
    ASSUME NEW w \in Seq(Frame), NEW r \in Frame, Ordered(w),
           Free(w, Refusals \cup Answers),
           r.kind = "ack" => Len(w) = 0,
           r.kind \notin {"ack", "nack"} => Len(w) >= 1 /\ w[1].kind = "ack"
    PROVE  Ordered(Append(w, r))
<1> DEFINE x == Append(w, r)
<1>1. /\ Len(w) \in Nat
      /\ Len(x) = Len(w) + 1
      /\ \A i \in 1..Len(w) : x[i] = w[i]
      /\ x[Len(w) + 1] = r
    BY FrameAppend
<1> HIDE DEF x
<1>2. ASSUME NEW i \in 1..Len(x), i # Len(x)
      PROVE  /\ i \in 1..Len(w) /\ x[i] = w[i] /\ x[1] = w[1]
             /\ w[i].kind \notin Refusals \cup Answers
    BY <1>1, <1>2 DEF Free
<1>3. r.kind \notin {"ack", "nack"} => x[1].kind = "ack"
    BY <1>1
<1>4. r.kind = "ack" => Len(x) = 1
    BY <1>1
<1> QED BY <1>1, <1>2, <1>3, <1>4 DEF Ordered, x

\* A ResponsePending adds one to their number, any other frame none.
LEMMA PendsAppend ==
    ASSUME NEW w \in Seq(Frame), NEW r \in Frame
    PROVE  /\ Cardinality(Pends(w)) \in Nat
           /\ Cardinality(Pends(Append(w, r))) =
                 IF r.kind = "pend" THEN Cardinality(Pends(w)) + 1
                 ELSE Cardinality(Pends(w))
<1>1. IsFiniteSet(1..Len(w))
    BY FS_Interval, FrameAppend
<1>2. IsFiniteSet(Pends(w)) /\ Cardinality(Pends(w)) \in Nat
    BY <1>1, FS_Subset, FS_CardinalityType DEF Pends
<1>3. CASE r.kind = "pend"
    <2>1. Pends(Append(w, r)) = Pends(w) \cup {Len(w) + 1}
        BY <1>3, FrameAppend DEF Pends
    <2>2. Len(w) + 1 \notin Pends(w)
        BY FrameAppend DEF Pends
    <2> QED BY <1>2, <1>3, <2>1, <2>2, FS_AddElement
<1>4. CASE r.kind # "pend"
    <2>1. Pends(Append(w, r)) = Pends(w)
        BY <1>4, FrameAppend DEF Pends
    <2> QED BY <1>2, <1>4, <2>1
<1> QED BY <1>2, <1>3, <1>4

\* Received, in these words.
LEMMA ReceivedFree ==
    ASSUME NEW w \in Seq(Frame), NEW K
    PROVE  ({i \in DOMAIN w : w[i].kind \in K} = {}) <=> Free(w, K)
BY DEF Free

-----------------------------------------------------------------------------
(* The state in these words.                                               *)

\* The request in hand is a request, or there is none.
LEMMA JobType ==
    ASSUME TypeOK
    PROVE  /\ MaxRequests \in Nat
           /\ job.n \in Nat
           /\ job.n # 0 => job \in Jobs /\ job.n \in Ids /\ job.ver \in Versions
BY ConstantsAssumption DEF TypeOK, Jobs, NoJob, Ids

\* The frames of each request are a sequence of frames.
LEMMA WireType ==
    TypeOK => \A n \in Ids : /\ wire[n] \in Seq(Frame)
                             /\ Len(wire[n]) \in Nat
                             /\ DOMAIN wire[n] = 1..Len(wire[n])
<1>1. TypeOK => wire \in [Ids -> Seq(Frame)]
    BY DEF TypeOK, Frame
<1> QED BY <1>1

\* What Received says of a request.
LEMMA ReceivedForms ==
    TypeOK => \A n \in Ids :
                 /\ \A K : Received(n, K) = {} <=> Free(wire[n], K)
                 /\ Received(n, {"pend"}) = Pends(wire[n])
<1> SUFFICES ASSUME TypeOK, NEW n \in Ids
             PROVE  /\ \A K : Received(n, K) = {} <=> Free(wire[n], K)
                    /\ Received(n, {"pend"}) = Pends(wire[n])
    OBVIOUS
<1>1. wire[n] \in Seq(Frame) /\ DOMAIN wire[n] = 1..Len(wire[n])
    BY WireType
<1>2. ASSUME NEW K PROVE Received(n, K) = {} <=> Free(wire[n], K)
    BY <1>1 DEF Free, Received
<1>3. Received(n, {"pend"}) = Pends(wire[n])
    BY <1>1 DEF Received, Pends
<1> QED BY <1>2, <1>3

\* What WireOrder and VersionEcho say of each request.
Conversation(n) ==
    /\ Ordered(wire[n])
    /\ \A i \in 1..Len(wire[n]) : wire[n][i].ver = asked[n]

LEMMA WireForms ==
    TypeOK => (WireOrder /\ VersionEcho <=> \A n \in Ids : Conversation(n))
BY WireType DEF WireOrder, VersionEcho, Conversation, Ordered

-----------------------------------------------------------------------------
(* Types.                                                                  *)

\* A frame that is written is a frame of its request.
LEMMA WriteType ==
    ASSUME TypeOK, NEW k \in Kinds, NEW n \in Ids, NEW v \in Versions,
           Write(k, n, v)
    PROVE  wire' \in [Ids -> Seq(Frame)]
BY FrameAppend DEF Write, TypeOK, Frame

\* The state keeps its types while the requests are in their order.
LEMMA NextType ==
    ASSUME TypeOK, QueueInv, [Next]_vars
    PROVE  TypeOK'
<1> USE DEF pump, work
<1>0. /\ MaxRequests \in Nat /\ job.n \in Nat
      /\ job.n # 0 => job \in Jobs /\ job.n \in Ids /\ job.ver \in Versions
    BY JobType
<1>1. CASE \E v \in Versions : ReadDiagnostic(v)
    <2> PICK v \in Versions : ReadDiagnostic(v) BY <1>1
    <2>1. count + 1 \in Ids
        BY <1>0 DEF ReadDiagnostic, TypeOK, Ids
    <2>2. wire' \in [Ids -> Seq(Frame)]
        <3>1. CASE Write("nack", count + 1, v)
            BY <2>1, <3>1, WriteType DEF Kinds, Refusals
        <3>2. CASE UNCHANGED wire
            BY <3>2 DEF TypeOK, Frame
        <3> QED BY <3>1, <3>2 DEF ReadDiagnostic
    <2>3. count' \in 0..MaxRequests /\ asked' \in [Ids -> Versions]
        BY <1>0, <2>1 DEF ReadDiagnostic, TypeOK, Ids
    <2> QED BY <2>2, <2>3 DEF ReadDiagnostic, TypeOK, Frame
<1>2. CASE HookDone
    <2>1. pc = "hook" => count \in Ids
        BY <1>0 DEF QueueInv, TypeOK, Ids
    <2>2. wire' \in [Ids -> Seq(Frame)]
        <3>1. CASE \E k \in {"nack", "ack"} : Write(k, count, version)
            <4>1. count \in Ids /\ version \in Versions
                BY <1>2, <2>1 DEF HookDone, TypeOK
            <4>2. {"nack", "ack"} \subseteq Kinds
                BY DEF Kinds, Refusals
            <4> QED BY <3>1, <4>1, <4>2, WriteType
        <3>2. CASE UNCHANGED wire
            BY <3>2 DEF TypeOK, Frame
        <3> QED BY <1>2, <3>1, <3>2 DEF HookDone
    <2> QED BY <1>2, <2>2 DEF HookDone, TypeOK, Frame
<1>3. CASE AckSent
    <2>1. count \in Ids
        BY <1>0, <1>3 DEF AckSent, QueueInv, TypeOK, Ids
    <2>2. wire' \in [Ids -> Seq(Frame)]
        <3>1. CASE Write("busy", count, version)
            BY <2>1, <3>1, WriteType DEF Kinds, Refusals, TypeOK
        <3>2. CASE UNCHANGED wire
            BY <3>2 DEF TypeOK, Frame
        <3> QED BY <1>3, <3>1, <3>2 DEF AckSent
    <2>3. [n |-> count, ver |-> version] \in Jobs
        BY <2>1 DEF Jobs, TypeOK
    <2>4. queue' \in Seq(Jobs)
        <3>1. queue \in Seq(Jobs)
            BY DEF TypeOK
        <3>2. Append(queue, [n |-> count, ver |-> version]) \in Seq(Jobs)
            BY <2>3, <3>1
        <3> QED BY <1>3, <3>1, <3>2 DEF AckSent
    <2> QED BY <1>3, <2>2, <2>4 DEF AckSent, TypeOK, Frame
<1>4. CASE Get
    <2>1. Head(queue) \in Jobs /\ Tail(queue) \in Seq(Jobs)
        BY <1>4 DEF Get, TypeOK
    <2>2. Head(queue).n \in Ids
        BY <2>1 DEF Jobs
    <2> QED BY <1>4, <2>1, <2>2 DEF Get, TypeOK
<1>5. CASE Returns
    <2>1. job.n \in Ids /\ job.ver \in Versions
        BY <1>0, <1>5 DEF Returns, QueueInv
    <2>2. wire' \in [Ids -> Seq(Frame)]
        <3>1. CASE Write("final", job.n, job.ver)
            <4>1. "final" \in Kinds
                BY DEF Kinds, Answers
            <4> QED BY <2>1, <3>1, <4>1, WriteType
        <3>2. CASE UNCHANGED wire
            BY <3>2 DEF TypeOK, Frame
        <3> QED BY <1>5, <3>1, <3>2 DEF Returns
    <2> QED BY <1>5, <2>1, <2>2 DEF Returns, TypeOK, Frame
<1>6. CASE P2Timeout
    <2>1. job.n \in Ids /\ job.ver \in Versions
        BY <1>0, <1>6 DEF P2Timeout, QueueInv
    <2>2. wire' \in [Ids -> Seq(Frame)]
        <3>1. {"pend", "reject"} \subseteq Kinds
            BY DEF Kinds, Answers
        <3>2. \E k \in {"pend", "reject"} : Write(k, job.n, job.ver)
            BY <1>6 DEF P2Timeout
        <3> QED BY <2>1, <3>1, <3>2, WriteType
    <2>3. handler' \in [Ids -> {"none", "running", "cancelled", "ended"} \cup Outcomes]
        <3>1. handler' = handler \/ handler' = [handler EXCEPT ![job.n] = "cancelled"]
            BY <1>6 DEF P2Timeout, CancelHandler
        <3> QED BY <3>1 DEF TypeOK
    <2>4. pendings' \in Nat /\ wpc' \in {"reject", "pending"}
        BY <1>6 DEF P2Timeout, TypeOK
    <2> QED BY <1>6, <2>2, <2>3, <2>4 DEF P2Timeout, TypeOK, Frame
<1>7. CASE \E n \in Ids : HandlerSends(n)
    <2> PICK n \in Ids : HandlerSends(n) BY <1>7
    <2>1. wire' \in [Ids -> Seq(Frame)]
        BY WriteType DEF HandlerSends, Kinds, TypeOK
    <2> QED BY <2>1 DEF HandlerSends, TypeOK, Frame
<1>8. CASE \E n \in Ids : HandlerEnds(n) \/ HandlerStops(n)
    BY <1>8 DEF HandlerEnds, HandlerStops, TypeOK
<1>9. CASE WorkerCancelled
    BY <1>9 DEF WorkerCancelled, CancelHandler, TypeOK
<1>10. CASE WorkerSent \/ WorkerSendFails
    BY <1>10 DEF WorkerSent, WorkerSendFails, TypeOK
<1>11. CASE StopWorker \/ Evict
    BY <1>11 DEF StopWorker, Evict, TypeOK
<1>12. CASE \/ \E v \in Versions : ReadOther(v)
            \/ ReadEof \/ SendDone \/ Joined \/ LinkEnds
    BY <1>12 DEF ReadOther, ReadEof, SendDone, Joined, LinkEnds, TypeOK
<1>13. CASE UNCHANGED vars
    BY <1>13 DEF vars, TypeOK
<1> QED
    BY <1>1, <1>2, <1>3, <1>4, <1>5, <1>6, <1>7, <1>8, <1>9, <1>10, <1>11,
       <1>12, <1>13
    DEF Next, PumpStep, StopStep, WorkerStep, Terminated

-----------------------------------------------------------------------------
(* The order of the requests.                                              *)

\* The positions of the queue after put_nowait and get.
LEMMA QueuePut ==
    ASSUME NEW q \in Seq(Jobs), NEW j \in Jobs
    PROVE  /\ Len(q) \in Nat
           /\ DOMAIN q = 1..Len(q)
           /\ Len(Append(q, j)) = Len(q) + 1
           /\ DOMAIN Append(q, j) = 1..(Len(q) + 1)
           /\ \A i \in 1..Len(q) : Append(q, j)[i] = q[i] /\ q[i] \in Jobs
           /\ Append(q, j)[Len(q) + 1] = j
OBVIOUS

LEMMA QueueGet ==
    ASSUME NEW q \in Seq(Jobs), q # <<>>
    PROVE  /\ Len(q) \in Nat /\ Len(q) >= 1
           /\ DOMAIN q = 1..Len(q)
           /\ Len(Tail(q)) = Len(q) - 1
           /\ DOMAIN Tail(q) = 1..(Len(q) - 1)
           /\ Head(q) = q[1] /\ q[1] \in Jobs
           /\ \A i \in 1..(Len(q) - 1) : Tail(q)[i] = q[i + 1] /\ i + 1 \in DOMAIN q
OBVIOUS

\* A queued request is a request.
LEMMA QueueType ==
    ASSUME TypeOK
    PROVE  /\ queue \in Seq(Jobs) /\ DOMAIN queue = 1..Len(queue)
           /\ \A i \in DOMAIN queue : queue[i].n \in Ids /\ queue[i].ver \in Versions
<1>1. queue \in Seq(Jobs)
    BY DEF TypeOK
<1>2. DOMAIN queue = 1..Len(queue) /\ \A i \in DOMAIN queue : queue[i] \in Jobs
    BY <1>1
<1> QED BY <1>1, <1>2 DEF Jobs

\* Requests are read, queued and taken in one order.
LEMMA NextQueue ==
    ASSUME TypeOK, QueueInv, [Next]_vars
    PROVE  QueueInv'
<1> USE DEF pump, work
<1>0. /\ MaxRequests \in Nat /\ job.n \in Nat /\ count \in 0..MaxRequests
      /\ job.n # 0 => job.n \in Ids
      /\ queue \in Seq(Jobs)
      /\ \A i \in DOMAIN queue : queue[i].n \in Ids
    BY JobType, QueueType DEF TypeOK
<1>1. CASE \E v \in Versions : ReadDiagnostic(v)
    <2> PICK v \in Versions : ReadDiagnostic(v) BY <1>1
    <2>1. /\ count' = count + 1 /\ version' = v /\ asked'[count + 1] = v
          /\ \A n \in Ids : n <= count => asked'[n] = asked[n]
          /\ UNCHANGED <<queue, wpc, job, handler>>
        BY <1>0 DEF ReadDiagnostic, TypeOK, Ids
    <2> QED BY <1>0, <2>1 DEF QueueInv, Ids
<1>2. CASE HookDone
    BY <1>0, <1>2 DEF HookDone, QueueInv
<1>3. CASE AckSent /\ UNCHANGED queue
    BY <1>0, <1>3 DEF AckSent, QueueInv
<1>4. CASE AckSent /\ ~UNCHANGED queue
    <2>1. /\ queue' = Append(queue, [n |-> count, ver |-> version])
          /\ pc = "acking" /\ pc' = "idle"
          /\ UNCHANGED <<count, asked, wpc, job, handler>>
        BY <1>4 DEF AckSent
    <2>2. /\ count \in Ids /\ job.n < count /\ version = asked[count]
          /\ \A i \in DOMAIN queue : queue[i].n < count
        BY <1>0, <2>1 DEF QueueInv, Ids
    <2>3. [n |-> count, ver |-> version] \in Jobs
        BY <2>2 DEF TypeOK, Jobs
    <2>4. /\ Len(queue) \in Nat
          /\ DOMAIN queue = 1..Len(queue)
          /\ DOMAIN queue' = 1..(Len(queue) + 1)
          /\ \A i \in 1..Len(queue) : queue'[i] = queue[i]
          /\ queue'[Len(queue) + 1].n = count
          /\ queue'[Len(queue) + 1].ver = version
        BY <1>0, <2>1, <2>3, QueuePut
    <2>5. \A i \in DOMAIN queue' :
             \/ i \in DOMAIN queue /\ queue'[i] = queue[i]
             \/ i = Len(queue) + 1
        BY <2>4
    <2>6. \A i \in DOMAIN queue' :
             /\ job.n < queue'[i].n /\ queue'[i].n <= count
             /\ queue'[i].ver = asked[queue'[i].n]
        BY <1>0, <2>2, <2>4, <2>5 DEF QueueInv
    <2>7. \A i, j \in DOMAIN queue' : i < j => queue'[i].n < queue'[j].n
        BY <1>0, <2>2, <2>4, <2>5 DEF QueueInv
    <2> QED BY <2>1, <2>6, <2>7 DEF QueueInv
<1>5. CASE Get
    <2>1. /\ queue # <<>> /\ queue' = Tail(queue) /\ job' = Head(queue)
          /\ handler' = [handler EXCEPT ![Head(queue).n] = "running"]
          /\ UNCHANGED <<pc, count, version, asked>>
        BY <1>5 DEF Get
    <2>2. /\ Len(queue) \in Nat /\ Len(queue) >= 1
          /\ DOMAIN queue = 1..Len(queue)
          /\ DOMAIN queue' = 1..(Len(queue) - 1)
          /\ job' = queue[1]
          /\ \A i \in 1..(Len(queue) - 1) : queue'[i] = queue[i + 1] /\ i + 1 \in DOMAIN queue
        BY <1>0, <2>1, QueueGet
    <2>3. /\ job'.n \in Ids /\ job.n < job'.n /\ job'.n <= count
          /\ job'.ver = asked[job'.n]
          /\ \A i \in 1..(Len(queue) - 1) : job'.n < queue[i + 1].n
          /\ pc \in {"hook", "acking"} => job'.n < count
        <3>1. 1 \in DOMAIN queue /\ \A i \in 1..(Len(queue) - 1) : i + 1 \in DOMAIN queue /\ 1 < i + 1
            BY <2>2
        <3> QED BY <1>0, <2>2, <3>1 DEF QueueInv
    <2>4. \A n \in Ids : job'.n < n => handler'[n] = "none"
        BY <1>0, <2>1, <2>2, <2>3 DEF QueueInv, TypeOK, Ids
    <2>5. \A i \in DOMAIN queue' :
             /\ job'.n < queue'[i].n /\ queue'[i].n <= count
             /\ queue'[i].ver = asked[queue'[i].n]
             /\ pc \in {"hook", "acking"} => queue'[i].n < count
        BY <2>2, <2>3 DEF QueueInv
    <2>6. \A i, j \in DOMAIN queue' : i < j => queue'[i].n < queue'[j].n
        BY <2>2 DEF QueueInv
    <2>7. job'.n # 0
        BY <2>3 DEF Ids
    <2> QED BY <2>1, <2>3, <2>4, <2>5, <2>6, <2>7 DEF QueueInv
<1>6. CASE Returns \/ P2Timeout \/ WorkerCancelled
    <2>1. \A n \in Ids : job.n < n => handler'[n] = handler[n]
        BY <1>0, <1>6 DEF Returns, P2Timeout, WorkerCancelled, CancelHandler, TypeOK
    <2>2. /\ wpc' \in {"reject", "pending", "final", "abort", "wait"} => wpc # "ended" /\ wpc # "get"
          /\ UNCHANGED <<pc, count, version, asked, queue, job>>
        BY <1>6 DEF Returns, P2Timeout, WorkerCancelled
    <2>3. wpc' \in {"wait", "pending", "reject", "final", "abort"} => job'.n # 0
        BY <2>2 DEF QueueInv, TypeOK
    <2> QED BY <2>1, <2>2, <2>3 DEF QueueInv
<1>7. CASE WorkerSent \/ WorkerSendFails
    BY <1>7 DEF WorkerSent, WorkerSendFails, QueueInv
<1>8. CASE \E n \in Ids : HandlerSends(n) \/ HandlerEnds(n) \/ HandlerStops(n)
    <2> PICK n \in Ids : HandlerSends(n) \/ HandlerEnds(n) \/ HandlerStops(n) BY <1>8
    <2>1. handler[n] \in {"running", "cancelled"}
        BY DEF HandlerSends, HandlerEnds, HandlerStops
    <2>2. \A m \in Ids : job.n < m => handler'[m] = handler[m]
        BY <2>1 DEF HandlerSends, HandlerEnds, HandlerStops, QueueInv, TypeOK
    <2>3. UNCHANGED <<pc, count, version, asked, queue, wpc, job>>
        BY DEF HandlerSends, HandlerEnds, HandlerStops
    <2> QED BY <2>2, <2>3 DEF QueueInv
<1>9. CASE \/ \E v \in Versions : ReadOther(v)
           \/ ReadEof \/ SendDone \/ StopWorker \/ Joined \/ Evict \/ LinkEnds
    <2>1. /\ pc' = pc \/ pc' \notin {"hook", "acking"}
          /\ pc' \in {"hook", "acking"} => version' = version
          /\ UNCHANGED <<count, asked, queue, wpc, job, handler>>
        BY <1>9 DEF ReadOther, ReadEof, SendDone, StopWorker, Joined, Evict, LinkEnds
    <2> QED BY <2>1 DEF QueueInv
<1>10. CASE UNCHANGED vars
    BY <1>10 DEF vars, QueueInv
<1> QED
    BY <1>1, <1>2, <1>3, <1>4, <1>5, <1>6, <1>7, <1>8, <1>9, <1>10
    DEF Next, PumpStep, StopStep, WorkerStep, Terminated

\* The requests the tasks have in hand are requests, each after the last.
LEMMA InHand ==
    ASSUME TypeOK, QueueInv
    PROVE  /\ \A i \in DOMAIN queue : queue[i].n \in Ids /\ job.n < queue[i].n
           /\ wpc \in {"wait", "pending"} =>
                 job.n \in Ids /\ job.ver \in Versions /\ job.ver = asked[job.n]
           /\ pc \in {"hook", "acking"} => count \in Ids /\ job.n < count
<1>1. \A i \in DOMAIN queue : queue[i].n \in Ids /\ job.n < queue[i].n
    BY QueueType DEF QueueInv
<1>2. wpc \in {"wait", "pending"} =>
         job.n \in Ids /\ job.ver \in Versions /\ job.ver = asked[job.n]
    BY JobType DEF QueueInv
<1>3. pc \in {"hook", "acking"} => count \in Ids /\ job.n < count
    <2>1. count \in 0..MaxRequests /\ MaxRequests \in Nat /\ job.n \in Nat
        BY JobType DEF TypeOK
    <2> QED BY <2>1 DEF QueueInv, Ids
<1> QED BY <1>1, <1>2, <1>3

-----------------------------------------------------------------------------
(* Handlers.                                                               *)

\* A connection that is gone does not come back.
LEMMA LinkStaysDown ==
    ASSUME [Next]_vars, link' = "up"
    PROVE  link = "up"
BY DEF Next, PumpStep, StopStep, WorkerStep, Terminated, pump, work, vars,
       ReadDiagnostic, ReadOther, ReadEof, HookDone, AckSent, SendDone,
       StopWorker, Joined, Evict, LinkEnds, Get, Returns, P2Timeout,
       WorkerSent, WorkerSendFails, WorkerCancelled, HandlerSends,
       HandlerEnds, HandlerStops

\* A handler runs only while the worker waits for it.
LEMMA NextHandlers ==
    ASSUME TypeOK, QueueInv, HandlerOwned, [Next]_vars
    PROVE  HandlerOwned'
<1> USE DEF pump, work
<1> SUFFICES ASSUME link' = "up", NEW n \in Ids, handler'[n] = "running"
             PROVE  n = job'.n /\ wpc' \in {"wait", "pending"}
    BY DEF HandlerOwned
<1>0. /\ link = "up"
      /\ handler[n] = "running" => n = job.n /\ wpc \in {"wait", "pending"}
    BY LinkStaysDown DEF HandlerOwned
<1>1. CASE Get
    BY <1>0, <1>1 DEF Get, TypeOK
<1>2. CASE Returns
    BY <1>0, <1>2 DEF Returns, TypeOK
<1>3. CASE P2Timeout
    BY <1>0, <1>3 DEF P2Timeout, CancelHandler, TypeOK
<1>4. CASE WorkerCancelled
    BY <1>0, <1>4 DEF WorkerCancelled, CancelHandler, TypeOK
<1>5. CASE WorkerSent \/ WorkerSendFails
    BY <1>0, <1>5 DEF WorkerSent, WorkerSendFails, Broken
<1>6. CASE \E m \in Ids : HandlerSends(m) \/ HandlerEnds(m) \/ HandlerStops(m)
    BY <1>0, <1>6 DEF HandlerSends, HandlerEnds, HandlerStops, TypeOK, Outcomes
<1>7. CASE \/ \E v \in Versions : ReadDiagnostic(v) \/ ReadOther(v)
           \/ ReadEof \/ HookDone \/ AckSent \/ SendDone \/ StopWorker \/ Joined
           \/ Evict \/ LinkEnds \/ UNCHANGED vars
    <2>1. UNCHANGED <<handler, job, wpc>>
        BY <1>7 DEF ReadDiagnostic, ReadOther, ReadEof, HookDone, AckSent,
                    SendDone, StopWorker, Joined, Evict, LinkEnds, vars
    <2> QED BY <1>0, <2>1
<1> QED
    BY <1>1, <1>2, <1>3, <1>4, <1>5, <1>6, <1>7
    DEF Next, PumpStep, StopStep, WorkerStep, Terminated

-----------------------------------------------------------------------------
(* Who writes what, and when.                                              *)

\* Acked and Unanswered, for the frames w of one request.
AckOnly(w, up) ==
    /\ Free(w, Kinds \ {"ack"})
    /\ Len(w) <= 1
    /\ up => Len(w) = 1
AckFirst(w, up) ==
    /\ Free(w, Refusals \cup Answers)
    /\ up => Len(w) >= 1 /\ w[1].kind = "ack"

LEMMA AckOnlyFirst ==
    ASSUME NEW w \in Seq(Frame), NEW up \in BOOLEAN, AckOnly(w, up)
    PROVE  AckFirst(w, up)
<1>1. Free(w, Refusals \cup Answers)
    BY DEF AckOnly, Free, Kinds, Refusals, Answers
<1>2. ASSUME up PROVE Len(w) >= 1 /\ w[1].kind = "ack"
    <2>1. Len(w) = 1 /\ w[1] \in Frame /\ w[1].kind \notin Kinds \ {"ack"}
        BY <1>2 DEF AckOnly, Free
    <2> QED BY <2>1 DEF Frame
<1> QED BY <1>1, <1>2 DEF AckFirst

\* ConversationInv in these words.
Progress ==
    /\ \A n \in Ids : count < n => Len(wire[n]) = 0
    /\ pc = "hook" => Len(wire[count]) = 0
    /\ pc = "acking" => AckOnly(wire[count], link = "up")
    /\ \A i \in DOMAIN queue : AckOnly(wire[queue[i].n], link = "up")
    /\ wpc \in {"wait", "pending"} => AckFirst(wire[job.n], link = "up")
    /\ \A n \in Ids : job.n < n => Free(wire[n], Answers \cup {"pend"})

LEMMA ProgressForm ==
    TypeOK /\ QueueInv => (ConversationInv <=> Progress)
<1> SUFFICES ASSUME TypeOK, QueueInv PROVE ConversationInv <=> Progress
    OBVIOUS
<1>1. ASSUME NEW n \in Ids, NEW K PROVE Received(n, K) = {} <=> Free(wire[n], K)
    BY ReceivedForms
<1>2. ASSUME NEW n \in Ids
      PROVE  /\ Acked(n) <=> AckOnly(wire[n], link = "up")
             /\ Unanswered(n) <=> AckFirst(wire[n], link = "up")
    BY <1>1 DEF Acked, Unanswered, AckOnly, AckFirst
<1>3. /\ \A i \in DOMAIN queue : queue[i].n \in Ids
      /\ wpc \in {"wait", "pending"} => job.n \in Ids
      /\ pc = "acking" => count \in Ids
    BY InHand
<1>4. \A n \in Ids : Received(n, Answers \cup {"pend"}) = {}
                        <=> Free(wire[n], Answers \cup {"pend"})
    BY <1>1
<1> QED BY <1>2, <1>3, <1>4 DEF ConversationInv, Progress

\* One frame of kind k, in the version of request n, is put on the wire.
Puts(n, k) ==
    wire' = [wire EXCEPT ![n] = Append(@, [kind |-> k, ver |-> asked'[n]])]

\* A frame of kind k may follow the frames w.
MayFollow(w, k) ==
    /\ Free(w, Refusals \cup Answers)
    /\ k = "ack" => Len(w) = 0
    /\ k \notin {"ack", "nack"} => Len(w) >= 1 /\ w[1].kind = "ack"

\* The pump writes for the newest request, which is not in the queue yet.
PumpPuts(n, k) ==
    /\ k \in {"nack", "ack", "busy"}
    /\ n = count' /\ job.n < n /\ \A i \in DOMAIN queue : queue[i].n < n
    /\ IF k = "ack" THEN pc' = "acking" ELSE pc' \in {"sending", "leaving"}
    /\ count' >= count
    /\ UNCHANGED <<queue, wpc, job, pendings>>

\* The worker writes for the request it waits for.
WorkerPuts(n, k) ==
    /\ k \in {"pend", "reject", "final"}
    /\ n = job.n /\ wpc = "wait"
    /\ IF k = "pend"
       THEN /\ wpc' = "pending" /\ pendings' = pendings + 1
            /\ MaxPending # 0 => pendings < MaxPending
       ELSE wpc' \notin {"wait", "pending"}
    /\ UNCHANGED <<pump, queue, job>>

\* A handler writes for its own, which is the one the worker waits for.
HandlerPuts(n, k) ==
    /\ k = "extra"
    /\ n = job.n /\ wpc \in {"wait", "pending"}
    /\ UNCHANGED <<pump, queue, work>>

Author(n, k) == PumpPuts(n, k) \/ WorkerPuts(n, k) \/ HandlerPuts(n, k)

\* A step writes nothing, or one of the three tasks writes a frame that may
\* follow those the tester has.
LEMMA StepWrites ==
    ASSUME TypeOK, QueueInv, HandlerOwned, Progress, [Next]_vars
    PROVE  \/ wire' = wire
           \/ /\ link = "up" /\ link' = "up"
              /\ \E n \in Ids, k \in Kinds :
                    Puts(n, k) /\ MayFollow(wire[n], k) /\ Author(n, k)
<1> SUFFICES ASSUME wire' # wire
             PROVE  /\ link = "up" /\ link' = "up"
                    /\ \E n \in Ids, k \in Kinds :
                          Puts(n, k) /\ MayFollow(wire[n], k) /\ Author(n, k)
    OBVIOUS
<1> USE DEF pump, work
<1>0. /\ {"nack", "ack", "busy", "pend", "reject", "final", "extra"} \subseteq Kinds
      /\ \A w, k : AckFirst(w, TRUE) /\ k # "ack" => MayFollow(w, k)
      /\ \A w : Len(w) = 0 => MayFollow(w, "nack") /\ MayFollow(w, "ack")
    BY DEF Kinds, Refusals, Answers, AckFirst, MayFollow, Free
<1>1. ASSUME NEW k, NEW n, NEW v, Write(k, n, v), v = asked'[n]
      PROVE  link = "up" /\ Puts(n, k)
    BY <1>1 DEF Write, Puts
<1>2. CASE \E v \in Versions : ReadDiagnostic(v)
    <2> PICK v \in Versions : ReadDiagnostic(v) BY <1>2
    <2>0. /\ count \in 0..MaxRequests /\ MaxRequests \in Nat /\ job.n \in Nat
          /\ asked \in [Ids -> Versions]
          /\ \A i \in DOMAIN queue : queue[i].n \in Nat
        <3>1. count \in 0..MaxRequests /\ asked \in [Ids -> Versions]
            BY DEF TypeOK
        <3>2. MaxRequests \in Nat /\ job.n \in Nat
            BY JobType
        <3>3. \A i \in DOMAIN queue : queue[i].n \in Nat
            BY QueueType DEF Ids
        <3> QED BY <3>1, <3>2, <3>3
    <2>1. /\ count + 1 \in Ids /\ asked'[count + 1] = v
          /\ Write("nack", count + 1, v)
        BY <2>0 DEF ReadDiagnostic, Ids
    <2>2. /\ job.n < count + 1
          /\ \A i \in DOMAIN queue : queue[i].n < count + 1
        BY <2>0 DEF QueueInv
    <2>3. PumpPuts(count + 1, "nack") /\ link' = link
        BY <2>2 DEF ReadDiagnostic, PumpPuts, TypeOK
    <2>4. MayFollow(wire[count + 1], "nack")
        BY <1>0, <2>1 DEF Progress, TypeOK
    <2> QED BY <1>0, <1>1, <2>1, <2>3, <2>4 DEF Author
<1>3. CASE HookDone
    <2>1. /\ count \in Ids /\ job.n < count /\ version = asked'[count]
          /\ \A i \in DOMAIN queue : queue[i].n < count
        BY <1>3, InHand DEF HookDone, QueueInv
    <2>2. PICK k \in {"nack", "ack"} :
             /\ Write(k, count, version)
             /\ pc' = IF k = "ack" THEN "acking" ELSE "sending"
        BY <1>3 DEF HookDone
    <2>3. PumpPuts(count, k) /\ link' = link
        BY <1>3, <2>1, <2>2 DEF HookDone, PumpPuts, TypeOK
    <2>4. MayFollow(wire[count], k)
        BY <1>0, <1>3 DEF Progress, HookDone
    <2> QED BY <1>0, <1>1, <2>1, <2>2, <2>3, <2>4 DEF Author
<1>4. CASE AckSent
    <2>1. /\ count \in Ids /\ job.n < count /\ version = asked'[count]
          /\ \A i \in DOMAIN queue : queue[i].n < count
        BY <1>4, InHand DEF AckSent, QueueInv
    <2>2. Write("busy", count, version) /\ pc' = "sending" /\ UNCHANGED queue
        BY <1>4 DEF AckSent
    <2>3. PumpPuts(count, "busy") /\ link' = link
        BY <1>4, <2>1, <2>2 DEF AckSent, PumpPuts, TypeOK
    <2>4. link = "up" /\ Puts(count, "busy")
        BY <1>1, <2>1, <2>2
    <2>5. MayFollow(wire[count], "busy")
        <3>1. AckOnly(wire[count], link = "up") /\ wire[count] \in Seq(Frame)
            BY <1>4, <2>1, WireType DEF AckSent, Progress
        <3>2. AckOnly(wire[count], TRUE)
            BY <2>4, <3>1 DEF AckOnly
        <3>3. AckFirst(wire[count], TRUE)
            BY <3>1, <3>2, AckOnlyFirst
        <3> QED BY <3>3 DEF AckFirst, MayFollow
    <2> QED BY <1>0, <2>1, <2>3, <2>4, <2>5 DEF Author
<1>5. CASE Returns \/ P2Timeout
    <2>1. job.n \in Ids /\ job.ver = asked'[job.n] /\ wpc = "wait"
        BY <1>5, InHand DEF Returns, P2Timeout
    <2>2. PICK k \in {"pend", "reject", "final"} :
             Write(k, job.n, job.ver) /\ WorkerPuts(job.n, k) /\ link' = link
        <3>1. CASE Returns
            BY <3>1 DEF Returns, WorkerPuts
        <3>2. CASE P2Timeout
            BY <3>2, ConstantsAssumption DEF P2Timeout, WorkerPuts, TypeOK
        <3> QED BY <1>5, <3>1, <3>2
    <2>3. link = "up" /\ Puts(job.n, k)
        BY <1>1, <2>1, <2>2
    <2>4. MayFollow(wire[job.n], k)
        BY <1>0, <2>1, <2>3 DEF Progress
    <2> QED BY <1>0, <2>1, <2>2, <2>3, <2>4 DEF Author
<1>6. CASE \E n \in Ids : HandlerSends(n)
    <2> PICK n \in Ids : HandlerSends(n) BY <1>6
    <2>1. link = "up" /\ Puts(n, "extra") /\ link' = link
        BY <1>1 DEF HandlerSends
    <2>2. n = job.n /\ wpc \in {"wait", "pending"}
        BY <2>1 DEF HandlerOwned, HandlerSends
    <2>3. HandlerPuts(n, "extra")
        BY <2>2 DEF HandlerSends, HandlerPuts
    <2>4. MayFollow(wire[n], "extra")
        <3>1. AckFirst(wire[n], TRUE)
            BY <2>1, <2>2 DEF Progress, AckFirst
        <3> QED BY <3>1 DEF AckFirst, MayFollow
    <2> QED BY <1>0, <2>1, <2>3, <2>4 DEF Author
<1>7. CASE \/ \E v \in Versions : ReadOther(v)
           \/ ReadEof \/ SendDone \/ StopWorker \/ Joined \/ Evict \/ LinkEnds
           \/ Get \/ WorkerSent \/ WorkerSendFails \/ WorkerCancelled
           \/ UNCHANGED vars
           \/ \E n \in Ids : HandlerEnds(n) \/ HandlerStops(n)
    BY <1>7 DEF ReadOther, ReadEof, SendDone, StopWorker, Joined, Evict,
                LinkEnds, Get, WorkerSent, WorkerSendFails, WorkerCancelled,
                vars, HandlerEnds, HandlerStops
<1> QED
    BY <1>2, <1>3, <1>4, <1>5, <1>6, <1>7
    DEF Next, PumpStep, StopStep, WorkerStep, Terminated

-----------------------------------------------------------------------------
(* The wire.                                                               *)

\* The version of a request that was read is history.
LEMMA AskedKept ==
    ASSUME TypeOK, [Next]_vars
    PROVE  \A n \in Ids : n <= count => asked'[n] = asked[n]
<1> USE DEF pump, work
<1>1. CASE \E v \in Versions : ReadDiagnostic(v)
    <2>1. count \in 0..MaxRequests /\ asked \in [Ids -> Versions] /\ MaxRequests \in Nat
        BY JobType DEF TypeOK
    <2> QED BY <1>1, <2>1 DEF ReadDiagnostic, Ids
<1>2. CASE UNCHANGED asked
    BY <1>2
<1> QED
    BY <1>1, <1>2
    DEF Next, PumpStep, StopStep, WorkerStep, Terminated, vars, ReadOther,
        ReadEof, HookDone, AckSent, SendDone, StopWorker, Joined, Evict,
        LinkEnds, Get, Returns, P2Timeout, WorkerSent, WorkerSendFails,
        WorkerCancelled, HandlerSends, HandlerEnds, HandlerStops

\* What is put on the wire of a request, and what is not.
LEMMA PutsFrame ==
    ASSUME TypeOK, TypeOK', NEW n \in Ids, NEW k \in Kinds, Puts(n, k)
    PROVE  /\ [kind |-> k, ver |-> asked'[n]] \in Frame
           /\ wire'[n] = Append(wire[n], [kind |-> k, ver |-> asked'[n]])
           /\ \A m \in Ids : m # n => wire'[m] = wire[m]
BY DEF Puts, TypeOK, Frame

\* The order of the frames and their versions are kept.
LEMMA NextWire ==
    ASSUME TypeOK, TypeOK', QueueInv, HandlerOwned, Progress,
           \A n \in Ids : Conversation(n), [Next]_vars
    PROVE  \A n \in Ids : Conversation(n)'
<1> SUFFICES ASSUME NEW m \in Ids PROVE Conversation(m)'
    OBVIOUS
<1>0. /\ wire[m] \in Seq(Frame) /\ Len(wire[m]) \in Nat
      /\ Len(wire[m]) = 0 \/ asked'[m] = asked[m]
    <2>1. count \in Nat /\ m \in Nat
        BY JobType DEF TypeOK, Ids
    <2> QED BY <2>1, WireType, AskedKept DEF Progress
<1>1. CASE wire'[m] = wire[m]
    BY <1>0, <1>1 DEF Conversation
<1>2. CASE wire'[m] # wire[m]
    <2>1. PICK n \in Ids, k \in Kinds : Puts(n, k) /\ MayFollow(wire[n], k)
        BY <1>2, StepWrites
    <2>2. n = m
        BY <1>2, <2>1, PutsFrame
    <2> DEFINE r == [kind |-> k, ver |-> asked'[m]]
    <2>3. r \in Frame /\ wire'[m] = Append(wire[m], r)
        BY <2>1, <2>2, PutsFrame
    <2>4. Ordered(wire'[m])
        BY <1>0, <2>1, <2>2, <2>3, OrderedAppend DEF Conversation, MayFollow
    <2>5. \A i \in 1..Len(wire'[m]) : wire'[m][i].ver = asked'[m]
        <3>1. /\ Len(wire'[m]) = Len(wire[m]) + 1
              /\ \A i \in 1..Len(wire[m]) : wire'[m][i] = wire[m][i]
              /\ wire'[m][Len(wire[m]) + 1] = r
            BY <1>0, <2>3, FrameAppend
        <3>2. \A i \in 1..Len(wire[m]) : wire[m][i].ver = asked'[m]
            BY <1>0 DEF Conversation
        <3> QED BY <1>0, <3>1, <3>2
    <2> QED BY <2>4, <2>5 DEF Conversation
<1> QED BY <1>1, <1>2

\* How one frame changes what the tester has.
LEMMA PutsStatus ==
    ASSUME NEW w \in Seq(Frame), NEW r \in Frame
    PROVE  /\ Len(w) = 0 /\ r.kind = "ack" => AckOnly(Append(w, r), TRUE)
           /\ AckFirst(w, TRUE) /\ r.kind \notin Refusals \cup Answers
                 => AckFirst(Append(w, r), TRUE)
<1>1. /\ Len(w) \in Nat
      /\ Len(Append(w, r)) = Len(w) + 1
      /\ \A i \in 1..Len(w) : Append(w, r)[i] = w[i]
      /\ Append(w, r)[Len(w) + 1] = r
    BY FrameAppend
<1>2. Len(w) = 0 /\ r.kind = "ack" => AckOnly(Append(w, r), TRUE)
    BY <1>1 DEF AckOnly, Free
<1>3. AckFirst(w, TRUE) /\ r.kind \notin Refusals \cup Answers
         => AckFirst(Append(w, r), TRUE)
    BY <1>1, FreeAppend DEF AckFirst
<1> QED BY <1>2, <1>3

\* What holds of a live connection holds of a broken one.
LEMMA StatusWeaker ==
    ASSUME NEW w, NEW up \in BOOLEAN, NEW on \in BOOLEAN, on => up
    PROVE  /\ AckOnly(w, up) => AckOnly(w, on)
           /\ AckFirst(w, up) => AckFirst(w, on)
BY DEF AckOnly, AckFirst

\* Where the pump may come from.
LEMMA PumpMoves ==
    ASSUME TypeOK, [Next]_vars
    PROVE  /\ count' = count \/ count' = count + 1
           /\ pc' = "hook" => \/ pc = "hook" /\ count' = count
                              \/ count' = count + 1 /\ wire' = wire
           /\ pc' = "acking" => /\ count' = count
                                /\ \/ pc = "acking"
                                   \/ pc = "hook" /\ Write("ack", count, version)
<1> USE DEF pump, work
<1>1. CASE \/ \E v \in Versions : ReadDiagnostic(v) \/ ReadOther(v)
           \/ ReadEof \/ HookDone \/ AckSent \/ SendDone \/ StopWorker \/ Joined
    BY <1>1 DEF ReadDiagnostic, ReadOther, ReadEof, HookDone, AckSent, SendDone,
                StopWorker, Joined
<1>2. CASE UNCHANGED pump
    BY <1>2
<1> QED
    BY <1>1, <1>2
    DEF Next, PumpStep, StopStep, WorkerStep, Terminated, vars, Evict,
        LinkEnds, Get, Returns, P2Timeout, WorkerSent, WorkerSendFails,
        WorkerCancelled, HandlerSends, HandlerEnds, HandlerStops

\* Where a queued request may come from.
LEMMA QueueMoves ==
    ASSUME TypeOK, [Next]_vars
    PROVE  \A i \in DOMAIN queue' :
              \/ \E j \in DOMAIN queue : queue'[i] = queue[j]
              \/ pc = "acking" /\ queue'[i].n = count /\ wire' = wire
<1> USE DEF pump, work
<1>1. CASE AckSent /\ queue' # queue
    <2>1. /\ queue' = Append(queue, [n |-> count, ver |-> version])
          /\ pc = "acking" /\ wire' = wire
        BY <1>1 DEF AckSent
    <2>2. queue \in Seq(Jobs)
        BY DEF TypeOK
    <2>3. /\ Len(queue) \in Nat /\ DOMAIN queue = 1..Len(queue)
          /\ DOMAIN queue' = 1..(Len(queue) + 1)
          /\ \A i \in 1..Len(queue) : queue'[i] = queue[i]
          /\ queue'[Len(queue) + 1] = [n |-> count, ver |-> version]
        BY <2>1, <2>2
    <2> QED BY <2>1, <2>3
<1>2. CASE Get
    <2>1. queue \in Seq(Jobs) /\ queue # <<>> /\ queue' = Tail(queue)
        BY <1>2 DEF Get, TypeOK
    <2> QED BY <2>1, QueueGet
<1>3. CASE UNCHANGED queue
    BY <1>3
<1> QED
    BY <1>1, <1>2, <1>3
    DEF Next, PumpStep, StopStep, WorkerStep, Terminated, vars, ReadDiagnostic,
        ReadOther, ReadEof, HookDone, SendDone, StopWorker, Joined, Evict,
        LinkEnds, Returns, P2Timeout, WorkerSent, WorkerSendFails,
        WorkerCancelled, HandlerSends, HandlerEnds, HandlerStops

\* How the worker comes to wait for a request.
LEMMA JobMoves ==
    ASSUME TypeOK, [Next]_vars
    PROVE  \/ /\ job' = job
              /\ wpc' \in {"wait", "pending"} => wpc \in {"wait", "pending"}
              /\ pendings' = pendings \/ pendings' = pendings + 1
           \/ /\ \E j \in DOMAIN queue : job' = queue[j]
              /\ pendings' = 0
              /\ UNCHANGED wire
<1> USE DEF pump, work
<1>1. CASE Get
    <2>1. queue \in Seq(Jobs) /\ queue # <<>> /\ job' = Head(queue)
        BY <1>1 DEF Get, TypeOK
    <2>2. 1 \in DOMAIN queue /\ job' = queue[1]
        BY <2>1, QueueGet
    <2> QED BY <1>1, <2>2 DEF Get
<1>2. CASE \/ Returns \/ P2Timeout \/ WorkerSent \/ WorkerSendFails
           \/ WorkerCancelled
    BY <1>2 DEF Returns, P2Timeout, WorkerSent, WorkerSendFails, WorkerCancelled
<1>3. CASE UNCHANGED <<wpc, job, pendings>>
    BY <1>3
<1> QED
    BY <1>1, <1>2, <1>3
    DEF Next, PumpStep, StopStep, WorkerStep, Terminated, vars, ReadDiagnostic,
        ReadOther, ReadEof, HookDone, AckSent, SendDone, StopWorker, Joined,
        Evict, LinkEnds, HandlerSends, HandlerEnds, HandlerStops

\* Whose frames a step may touch: only the newest request's by the pump, and
\* the one the worker waits for by the others.
LEMMA Touched ==
    ASSUME TypeOK, TypeOK', QueueInv, HandlerOwned, Progress, [Next]_vars,
           NEW m \in Ids, wire'[m] # wire[m]
    PROVE  /\ link = "up" /\ link' = "up"
           /\ \E k \in Kinds :
                 /\ Author(m, k) /\ MayFollow(wire[m], k)
                 /\ [kind |-> k, ver |-> asked'[m]] \in Frame
                 /\ wire'[m] = Append(wire[m], [kind |-> k, ver |-> asked'[m]])
<1>1. wire' # wire
    OBVIOUS
<1>2. link = "up" /\ link' = "up"
    BY <1>1, StepWrites
<1>3. PICK n \in Ids, k \in Kinds :
         Puts(n, k) /\ MayFollow(wire[n], k) /\ Author(n, k)
    BY <1>1, StepWrites
<1>4. n = m
    BY <1>3, PutsFrame
<1> QED BY <1>2, <1>3, <1>4, PutsFrame

\* Every conversation goes on from where it stood.
LEMMA NextProgress ==
    ASSUME TypeOK, TypeOK', QueueInv, HandlerOwned, Progress, [Next]_vars
    PROVE  Progress'
<1> USE DEF pump, work
<1>0. /\ \A n \in Ids : n \in Nat
      /\ count \in Nat /\ job.n \in Nat /\ job.n <= count
      /\ \A i \in DOMAIN queue : queue[i].n \in Ids /\ job.n < queue[i].n
      /\ \A n \in Ids : wire[n] \in Seq(Frame) /\ Len(wire[n]) \in Nat
      /\ wpc \in {"wait", "pending"} => job.n \in Ids
      /\ pc \in {"hook", "acking"} => count \in Ids /\ job.n < count
    <2>1. MaxRequests \in Nat /\ count \in 0..MaxRequests /\ job.n \in Nat
        BY JobType DEF TypeOK
    <2>2. job.n <= count
        BY DEF QueueInv
    <2> QED BY <2>1, <2>2, InHand, WireType DEF Ids
<1>a. /\ (link = "up") \in BOOLEAN /\ (link' = "up") \in BOOLEAN
      /\ link' = "up" => link = "up"
    BY LinkStaysDown
<1>b. ASSUME NEW w
      PROVE  /\ AckOnly(w, link = "up") => AckOnly(w, link' = "up")
             /\ AckFirst(w, link = "up") => AckFirst(w, link' = "up")
    BY <1>a DEF AckOnly, AckFirst
<1>1. ASSUME NEW n \in Ids, count' < n PROVE Len(wire'[n]) = 0
    <2>1. count < n
        BY <1>0, <1>1, PumpMoves
    <2>2. wire'[n] = wire[n]
        <3> SUFFICES ASSUME wire'[n] # wire[n] PROVE FALSE
            OBVIOUS
        <3>1. PICK k \in Kinds : Author(n, k)
            BY Touched
        <3> QED BY <1>0, <1>1, <2>1, <3>1
                DEF Author, PumpPuts, WorkerPuts, HandlerPuts
    <2> QED BY <2>1, <2>2 DEF Progress
<1>2. ASSUME pc' = "hook" PROVE Len(wire'[count']) = 0
    <2>1. CASE count' = count + 1 /\ wire' = wire
        <3>1. count + 1 \in Ids
            BY <1>0, <2>1, JobType DEF TypeOK, Ids
        <3> QED BY <1>0, <2>1, <3>1 DEF Progress
    <2>2. CASE pc = "hook" /\ count' = count
        <3>1. count \in Ids /\ Len(wire[count]) = 0 /\ job.n < count
            BY <1>0, <2>2 DEF Progress
        <3>2. wire'[count] = wire[count]
            <4> SUFFICES ASSUME wire'[count] # wire[count] PROVE FALSE
                OBVIOUS
            <4>1. PICK k \in Kinds : Author(count, k)
                BY <3>1, Touched
            <4> QED BY <1>0, <1>2, <3>1, <4>1
                    DEF Author, PumpPuts, WorkerPuts, HandlerPuts
        <3> QED BY <2>2, <3>1, <3>2
    <2> QED BY <1>2, <2>1, <2>2, PumpMoves
<1>3. ASSUME pc' = "acking" PROVE AckOnly(wire'[count'], link' = "up")
    <2>0. count' = count
        BY <1>3, PumpMoves
    <2>1. CASE pc = "acking"
        <3>1. /\ count \in Ids /\ AckOnly(wire[count], link = "up")
              /\ job.n < count
            BY <1>0, <2>1 DEF Progress
        <3>2. wire'[count] = wire[count]
            <4> SUFFICES ASSUME wire'[count] # wire[count] PROVE FALSE
                OBVIOUS
            <4>1. PICK k \in Kinds : Author(count, k) /\ MayFollow(wire[count], k)
                BY <3>1, Touched
            <4>2. link = "up"
                BY <3>1, Touched
            <4>3. PumpPuts(count, k)
                BY <1>0, <3>1, <4>1 DEF Author, WorkerPuts, HandlerPuts
            <4>4. k = "ack"
                BY <1>3, <4>3 DEF PumpPuts
            <4>5. Len(wire[count]) = 0
                BY <4>1, <4>4 DEF MayFollow
            <4> QED BY <3>1, <4>2, <4>5 DEF AckOnly
        <3> QED BY <1>b, <2>0, <3>1, <3>2
    <2>2. CASE pc = "hook" /\ Write("ack", count, version)
        <3>1. count \in Ids /\ Len(wire[count]) = 0 /\ wire[count] \in Seq(Frame)
            BY <1>0, <2>2 DEF Progress
        <3>2. CASE link = "up"
            <4>1. [kind |-> "ack", ver |-> version] \in Frame
                BY DEF Frame, Kinds, TypeOK
            <4>2. wire'[count] = Append(wire[count], [kind |-> "ack", ver |-> version])
                BY <2>2, <3>1, <3>2 DEF Write, TypeOK
            <4>3. AckOnly(wire'[count], TRUE)
                BY <3>1, <4>1, <4>2, PutsStatus
            <4> QED BY <2>0, <4>3 DEF AckOnly
        <3>3. CASE link # "up"
            <4>1. wire'[count] = wire[count] /\ link' # "up"
                BY <1>a, <2>2, <3>3 DEF Write
            <4> QED BY <2>0, <3>1, <4>1 DEF AckOnly, Free
        <3> QED BY <3>2, <3>3
    <2> QED BY <1>3, <2>1, <2>2, PumpMoves
<1>4. ASSUME NEW i \in DOMAIN queue'
      PROVE  AckOnly(wire'[queue'[i].n], link' = "up")
    <2>1. CASE \E j \in DOMAIN queue : queue'[i] = queue[j]
        <3>1. PICK j \in DOMAIN queue : queue'[i] = queue[j]
            BY <2>1
        <3>2. queue[j].n \in Ids /\ job.n < queue[j].n
              /\ AckOnly(wire[queue[j].n], link = "up")
            BY <1>0 DEF Progress
        <3>3. wire'[queue[j].n] = wire[queue[j].n]
            <4> SUFFICES ASSUME wire'[queue[j].n] # wire[queue[j].n] PROVE FALSE
                OBVIOUS
            <4>1. PICK k \in Kinds : Author(queue[j].n, k)
                BY <3>2, Touched
            <4> QED BY <1>0, <3>2, <4>1
                    DEF Author, PumpPuts, WorkerPuts, HandlerPuts
        <3> QED BY <1>b, <3>1, <3>2, <3>3
    <2>2. CASE pc = "acking" /\ queue'[i].n = count /\ wire' = wire
        BY <1>b, <2>2 DEF Progress
    <2> QED BY <2>1, <2>2, QueueMoves
<1>5. ASSUME wpc' \in {"wait", "pending"}
      PROVE  AckFirst(wire'[job'.n], link' = "up")
    <2>1. CASE (\E j \in DOMAIN queue : job' = queue[j]) /\ UNCHANGED wire
        <3>1. PICK j \in DOMAIN queue : job' = queue[j]
            BY <2>1
        <3>2. wire[job'.n] \in Seq(Frame) /\ AckOnly(wire[job'.n], link = "up")
            BY <1>0, <3>1 DEF Progress
        <3>3. AckFirst(wire[job'.n], link = "up")
            BY <1>a, <3>2, AckOnlyFirst
        <3> QED BY <1>b, <2>1, <3>3
    <2>2. CASE job' = job /\ wpc \in {"wait", "pending"}
        <3>1. job.n \in Ids /\ AckFirst(wire[job.n], link = "up")
              /\ wire[job.n] \in Seq(Frame)
            BY <1>0, <2>2 DEF Progress
        <3>2. CASE wire'[job.n] = wire[job.n]
            BY <1>b, <2>2, <3>1, <3>2
        <3>3. CASE wire'[job.n] # wire[job.n]
            <4>0. link = "up"
                BY <3>1, <3>3, Touched
            <4>1. PICK k \in Kinds :
                     /\ Author(job.n, k)
                     /\ [kind |-> k, ver |-> asked'[job.n]] \in Frame
                     /\ wire'[job.n] = Append(wire[job.n], [kind |-> k, ver |-> asked'[job.n]])
                BY <3>1, <3>3, Touched
            <4>2. k \in {"pend", "extra"}
                BY <1>0, <1>5, <4>1 DEF Author, PumpPuts, WorkerPuts, HandlerPuts
            <4>3. k \notin Refusals \cup Answers
                BY <4>2 DEF Refusals, Answers
            <4>4. AckFirst(wire[job.n], TRUE)
                BY <3>1, <4>0 DEF AckFirst
            <4>5. AckFirst(wire'[job.n], TRUE)
                BY <3>1, <4>1, <4>3, <4>4, PutsStatus
            <4> QED BY <2>2, <4>5 DEF AckFirst
        <3> QED BY <3>2, <3>3
    <2> QED BY <1>5, <2>1, <2>2, JobMoves
<1>6. ASSUME NEW n \in Ids, job'.n < n
      PROVE  Free(wire'[n], Answers \cup {"pend"})
    <2>1. job.n < n
        BY <1>0, <1>6, JobMoves
    <2>2. Free(wire[n], Answers \cup {"pend"}) /\ wire[n] \in Seq(Frame)
        BY <1>0, <2>1 DEF Progress
    <2>3. CASE wire'[n] = wire[n]
        BY <2>2, <2>3
    <2>4. CASE wire'[n] # wire[n]
        <3>1. PICK k \in Kinds :
                 /\ Author(n, k)
                 /\ [kind |-> k, ver |-> asked'[n]] \in Frame
                 /\ wire'[n] = Append(wire[n], [kind |-> k, ver |-> asked'[n]])
            BY <2>4, Touched
        <3>2. k \notin Answers \cup {"pend"}
            BY <1>0, <2>1, <3>1
            DEF Author, PumpPuts, WorkerPuts, HandlerPuts, Answers
        <3> QED BY <2>2, <3>1, <3>2, FreeAppend
    <2> QED BY <2>3, <2>4
<1> QED BY <1>1, <1>2, <1>3, <1>4, <1>5, <1>6 DEF Progress

-----------------------------------------------------------------------------
(* The limits.                                                             *)

\* The queue never holds more than QueueSize requests.
LEMMA NextQueueSize ==
    ASSUME TypeOK, Len(queue) <= QueueSize, [Next]_vars
    PROVE  Len(queue') <= QueueSize
<1> USE DEF pump, work
<1>0. queue \in Seq(Jobs) /\ Len(queue) \in Nat /\ QueueSize \in Nat
    BY ConstantsAssumption DEF TypeOK
<1>1. CASE AckSent /\ queue' # queue
    <2>1. /\ Len(queue) < QueueSize
          /\ queue' = Append(queue, [n |-> count, ver |-> version])
        BY <1>1 DEF AckSent
    <2>2. Len(queue') = Len(queue) + 1
        BY <1>0, <2>1
    <2> QED BY <1>0, <2>1, <2>2
<1>2. CASE Get
    <2>1. queue # <<>> /\ queue' = Tail(queue)
        BY <1>2 DEF Get
    <2>2. Len(queue') = Len(queue) - 1
        BY <1>0, <2>1
    <2> QED BY <1>0, <2>2
<1>3. CASE UNCHANGED queue
    BY <1>3
<1> QED
    BY <1>1, <1>2, <1>3
    DEF Next, PumpStep, StopStep, WorkerStep, Terminated, vars, ReadDiagnostic,
        ReadOther, ReadEof, HookDone, SendDone, StopWorker, Joined, Evict,
        LinkEnds, Returns, P2Timeout, WorkerSent, WorkerSendFails,
        WorkerCancelled, HandlerSends, HandlerEnds, HandlerStops

\* The number of ResponsePendings of each request, and what is known of it.
PendCount(w) == Cardinality(Pends(w))
Counted ==
    /\ wpc \in {"wait", "pending"} => PendCount(wire[job.n]) <= pendings
    /\ MaxPending # 0 => \A n \in Ids : PendCount(wire[n]) <= MaxPending

LEMMA CountedForm ==
    TypeOK /\ QueueInv =>
        (Counted <=> /\ PendingCounted
                     /\ MaxPending # 0 => \A n \in Ids :
                           Cardinality(Received(n, {"pend"})) <= MaxPending)
<1> SUFFICES ASSUME TypeOK, QueueInv
             PROVE  Counted <=>
                       /\ PendingCounted
                       /\ MaxPending # 0 => \A n \in Ids :
                             Cardinality(Received(n, {"pend"})) <= MaxPending
    OBVIOUS
<1>1. \A n \in Ids : Received(n, {"pend"}) = Pends(wire[n])
    BY ReceivedForms
<1>2. wpc \in {"wait", "pending"} => job.n \in Ids
    BY InHand
<1> QED BY <1>1, <1>2 DEF Counted, PendingCounted, PendCount

\* A request without ResponsePendings has none.
LEMMA NoPends ==
    ASSUME NEW w \in Seq(Frame), Free(w, Answers \cup {"pend"})
    PROVE  PendCount(w) = 0
<1>1. Pends(w) = {}
    BY DEF Pends, Free
<1> QED BY <1>1, FS_EmptySet DEF PendCount

\* pending_sent keeps count, and the cap is kept.
LEMMA NextCounted ==
    ASSUME TypeOK, TypeOK', QueueInv, HandlerOwned, Progress, Counted,
           [Next]_vars
    PROVE  Counted'
<1> USE DEF pump, work
<1>0. /\ job.n \in Nat /\ pendings \in Nat /\ MaxPending \in Nat
      /\ \A i \in DOMAIN queue : queue[i].n \in Ids /\ job.n < queue[i].n
      /\ \A n \in Ids : wire[n] \in Seq(Frame)
      /\ wpc \in {"wait", "pending"} => job.n \in Ids
    <2>1. job.n \in Nat /\ \A n \in Ids : wire[n] \in Seq(Frame)
        BY JobType, WireType
    <2>2. pendings \in Nat /\ MaxPending \in Nat
        BY ConstantsAssumption DEF TypeOK
    <2> QED BY <2>1, <2>2, InHand
<1>1. ASSUME NEW n \in Ids, wire'[n] # wire[n]
      PROVE  \/ PendCount(wire'[n]) = PendCount(wire[n])
             \/ /\ WorkerPuts(n, "pend")
                /\ PendCount(wire'[n]) = PendCount(wire[n]) + 1
    <2>1. PICK k \in Kinds :
             /\ Author(n, k)
             /\ [kind |-> k, ver |-> asked'[n]] \in Frame
             /\ wire'[n] = Append(wire[n], [kind |-> k, ver |-> asked'[n]])
        BY <1>1, Touched
    <2>2. PendCount(wire'[n]) = IF k = "pend" THEN PendCount(wire[n]) + 1
                                ELSE PendCount(wire[n])
        BY <1>0, <2>1, PendsAppend DEF PendCount
    <2>3. k = "pend" => WorkerPuts(n, k)
        BY <2>1 DEF Author, PumpPuts, HandlerPuts
    <2> QED BY <2>2, <2>3
<1>2. \A n \in Ids : PendCount(wire[n]) \in Nat
    <2>1. SUFFICES ASSUME NEW n \in Ids PROVE PendCount(wire[n]) \in Nat
        OBVIOUS
    <2>2. IsFiniteSet(1..Len(wire[n]))
        BY <1>0, FS_Interval
    <2> QED BY <2>2, FS_Subset, FS_CardinalityType DEF PendCount, Pends
<1>3. ASSUME wpc' \in {"wait", "pending"}
      PROVE  PendCount(wire'[job'.n]) <= pendings'
    <2>1. CASE (\E j \in DOMAIN queue : job' = queue[j]) /\ UNCHANGED wire /\ pendings' = 0
        <3>1. job'.n \in Ids /\ job.n < job'.n
            BY <1>0, <2>1
        <3>2. PendCount(wire[job'.n]) = 0
            BY <1>0, <3>1, NoPends DEF Progress
        <3> QED BY <2>1, <3>2
    <2>2. CASE /\ job' = job /\ wpc \in {"wait", "pending"}
               /\ pendings' = pendings \/ pendings' = pendings + 1
        <3>1. job.n \in Ids /\ PendCount(wire[job.n]) <= pendings
            BY <1>0, <2>2 DEF Counted
        <3>2. PendCount(wire[job.n]) \in Nat
            BY <1>2, <3>1
        <3>3. CASE wire'[job.n] = wire[job.n]
            BY <1>0, <2>2, <3>1, <3>2, <3>3
        <3>4. CASE wire'[job.n] # wire[job.n]
            <4>1. CASE PendCount(wire'[job.n]) = PendCount(wire[job.n])
                BY <1>0, <2>2, <3>1, <3>2, <4>1
            <4>2. CASE /\ WorkerPuts(job.n, "pend")
                       /\ PendCount(wire'[job.n]) = PendCount(wire[job.n]) + 1
                <5>1. pendings' = pendings + 1
                    BY <4>2 DEF WorkerPuts
                <5> QED BY <1>0, <2>2, <3>1, <3>2, <4>2, <5>1
            <4> QED BY <1>1, <3>1, <3>4, <4>1, <4>2
        <3> QED BY <3>3, <3>4
    <2> QED BY <1>3, <2>1, <2>2, JobMoves
<1>4. ASSUME MaxPending # 0, NEW n \in Ids
      PROVE  PendCount(wire'[n]) <= MaxPending
    <2>1. PendCount(wire[n]) <= MaxPending
        BY <1>4 DEF Counted
    <2>2. CASE WorkerPuts(n, "pend") /\ PendCount(wire'[n]) = PendCount(wire[n]) + 1
        <3>1. n = job.n /\ wpc = "wait" /\ pendings < MaxPending
            BY <1>4, <2>2 DEF WorkerPuts
        <3>2. PendCount(wire[n]) <= pendings
            BY <3>1 DEF Counted
        <3> QED BY <1>0, <1>2, <2>2, <3>1, <3>2
    <2> QED BY <1>1, <2>1, <2>2
<1> QED BY <1>3, <1>4 DEF Counted

-----------------------------------------------------------------------------
(* The theorems.                                                           *)

LEMMA WorkerForm ==
    WorkerInv <=> /\ TypeOK /\ QueueInv /\ HandlerOwned /\ Progress
                  /\ \A n \in Ids : Conversation(n)
                  /\ Counted /\ Len(queue) <= QueueSize
<1>1. WorkerInv <=> /\ TypeOK /\ QueueInv /\ HandlerOwned /\ ConversationInv
                    /\ WireOrder /\ VersionEcho /\ PendingCounted
                    /\ Len(queue) <= QueueSize
                    /\ MaxPending # 0 => \A n \in Ids :
                          Cardinality(Received(n, {"pend"})) <= MaxPending
    BY DEF WorkerInv, WireInv, Bounded
<1> QED BY <1>1, ProgressForm, WireForms, CountedForm

LEMMA InitWorker == Init => WorkerInv
<1> SUFFICES ASSUME Init PROVE WorkerInv
    OBVIOUS
<1>0. /\ pc = "idle" /\ count = 0 /\ queue = <<>> /\ wpc = "get" /\ job = NoJob
      /\ \A n \in Ids : handler[n] = "none" /\ wire[n] = <<>>
      /\ job.n = 0
    BY DEF Init, NoJob
<1>1. TypeOK
    <2>1. /\ 0 \in 0..MaxRequests
          /\ <<>> \in Seq(Jobs)
          /\ <<>> \in Seq([kind : Kinds, ver : Versions])
        BY ConstantsAssumption
    <2>2. /\ asked \in [Ids -> Versions]
          /\ handler \in [Ids -> {"none", "running", "cancelled", "ended"} \cup Outcomes]
          /\ wire \in [Ids -> Seq([kind : Kinds, ver : Versions])]
        BY <2>1, ConstantsAssumption DEF Init, Ids
    <2> QED BY <2>1, <2>2 DEF Init, TypeOK
<1>2. Len(queue) = 0 /\ DOMAIN queue = {} /\ QueueSize \in Nat
    BY <1>0, ConstantsAssumption
<1>3. \A n \in Ids : Len(wire[n]) = 0 /\ 1..Len(wire[n]) = {}
    BY <1>0
<1>4. QueueInv
    BY <1>0, <1>2 DEF QueueInv, Ids
<1>5. HandlerOwned
    BY <1>0 DEF HandlerOwned
<1>6. Progress
    BY <1>0, <1>2, <1>3 DEF Progress, Free
<1>7. \A n \in Ids : Conversation(n)
    BY <1>3 DEF Conversation, Ordered
<1>8. Counted
    <2>1. \A n \in Ids : PendCount(wire[n]) = 0
        BY <1>3, FS_EmptySet DEF PendCount, Pends
    <2> QED BY <1>0, <2>1, ConstantsAssumption DEF Counted
<1> QED BY <1>1, <1>2, <1>4, <1>5, <1>6, <1>7, <1>8, WorkerForm

LEMMA NextWorker == WorkerInv /\ [Next]_vars => WorkerInv'
<1> SUFFICES ASSUME WorkerInv, [Next]_vars PROVE WorkerInv'
    OBVIOUS
<1>1. /\ TypeOK /\ QueueInv /\ HandlerOwned /\ Progress
      /\ \A n \in Ids : Conversation(n)
      /\ Counted /\ Len(queue) <= QueueSize
    BY WorkerForm
<1>2. TypeOK' /\ QueueInv' /\ HandlerOwned'
    BY <1>1, NextType, NextQueue, NextHandlers
<1>3. Progress' /\ \A n \in Ids : Conversation(n)'
    BY <1>1, <1>2, NextProgress, NextWire
<1>4. Counted' /\ Len(queue') <= QueueSize
    BY <1>1, <1>2, NextCounted, NextQueueSize
<1>5. (/\ TypeOK /\ QueueInv /\ HandlerOwned /\ Progress
       /\ \A n \in Ids : Conversation(n)
       /\ Counted /\ Len(queue) <= QueueSize)'
    BY <1>2, <1>3, <1>4
<1> QED BY <1>5, WorkerForm, PTL

\* The inductive invariant of the diagnostic path of a connection (_loop,
\* _handle_diagnostic, _uds_worker, _dispatch_with_p2, evict).
THEOREM WorkerSafe == Spec => []WorkerInv
BY InitWorker, NextWorker, PTL DEF Spec

\* What a tester receives for a request is a conversation in the version of the
\* request, whatever the pump, the worker and the handlers interleave: the ACK
\* first, and nothing after an answer or a refusal.
THEOREM WireCorrect == Spec => []WireInv
<1>1. WorkerInv => WireInv
    BY DEF WorkerInv
<1> QED BY <1>1, WorkerSafe, PTL

\* On a live connection the only handler that runs is the one the worker waits
\* for.
THEOREM HandlersOwned == Spec => []HandlerOwned
<1>1. WorkerInv => HandlerOwned
    BY DEF WorkerInv
<1> QED BY <1>1, WorkerSafe, PTL

\* _UDS_QUEUE_MAXSIZE and max_response_pending are limits.
THEOREM LimitsKept == Spec => []Bounded
<1>1. WorkerInv => Bounded
    BY DEF WorkerInv
<1> QED BY <1>1, WorkerSafe, PTL

\* No request is answered after a later one has been: the one queue and the one
\* worker of a session process its requests in order.
THEOREM AnswersOrdered == Spec => AnswersInOrder
<1>1. ASSUME WorkerInv, WorkerInv', [Next]_vars, NEW m \in Ids, NEW n \in Ids,
             m > n, Received(m, Answers) # {}
      PROVE  Received(n, Answers)' = Received(n, Answers)
    <2>1. /\ TypeOK /\ TypeOK' /\ QueueInv /\ HandlerOwned /\ Progress
        <3>1. TypeOK' BY <1>1 DEF WorkerInv, WireInv
        <3> QED BY <1>1, <3>1, WorkerForm
    <2>2. m <= job.n /\ n < job.n
        <3>1. job.n < m => Received(m, Answers) = {}
            <4>1. job.n < m => Free(wire[m], Answers)
                BY <2>1 DEF Progress, Free
            <4> QED BY <2>1, <4>1, ReceivedForms
        <3>2. job.n \in Nat /\ m \in Nat /\ n \in Nat
            BY <2>1, JobType DEF Ids
        <3> QED BY <1>1, <3>1, <3>2
    <2>3. CASE wire'[n] = wire[n]
        BY <2>3 DEF Received
    <2>4. CASE wire'[n] # wire[n]
        <3>1. PICK k \in Kinds : Author(n, k)
            BY <2>1, <2>4, Touched, <1>1
        <3>2. job.n \in Nat /\ n \in Nat
            BY <2>1, JobType DEF Ids
        <3> QED BY <2>2, <3>1, <3>2
                DEF Author, PumpPuts, WorkerPuts, HandlerPuts
    <2> QED BY <2>3, <2>4
<1>2. WorkerInv /\ WorkerInv' /\ [Next]_vars =>
         [\A m, n \in Ids :
            m > n /\ Received(m, Answers) # {} =>
               Received(n, Answers)' = Received(n, Answers)]_vars
    BY <1>1
<1> QED BY <1>2, WorkerSafe, PTL DEF Spec, AnswersInOrder

=============================================================================
