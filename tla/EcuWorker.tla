------------------------------ MODULE EcuWorker ------------------------------
(***************************************************************************)
(* The diagnostic path of one activated connection of the virtual ECU      *)
(* (virtual_ecu/virtecu/session.py): the pump acknowledges a Diagnostic    *)
(* Message and queues it, _uds_worker takes the requests one at a time,    *)
(* and _dispatch_with_p2 watches the handler of the current one.           *)
(*                                                                         *)
(* Three kinds of tasks take steps, and a step is the code between two     *)
(* awaits: the pump (pc), the worker (wpc) and the dispatch tasks in which *)
(* services and plugins run (handler).                                     *)
(*                                                                         *)
(*   pc   idle      waits for a frame                                      *)
(*        hook      awaits the on_diagnostic_ack hooks                     *)
(*        acking    drains the Positive ACK                                *)
(*        sending   drains another response and reads on                   *)
(*        leaving   drains a response that closes the connection           *)
(*        stopping  run() is in its finally clause                         *)
(*        joining   it has cancelled the worker and awaits it              *)
(*        closed    run() has ended                                        *)
(*   wpc  get       waits for a request                                    *)
(*        wait      waits for the handler, for one P2 window at a time     *)
(*        pending, reject, final, abort                                    *)
(*                  drains a ResponsePending, the NRC 0x10 of the cap, the *)
(*                  answer, or the answer after which it drops the link    *)
(*        ended     the worker task is done                                *)
(***************************************************************************)
EXTENDS Integers, Sequences, FiniteSets

CONSTANTS
    MaxRequests,  \* bound: Diagnostic Messages the tester sends
    MaxSends,     \* bound: frames a handler sends before it returns
    QueueSize,    \* _UDS_QUEUE_MAXSIZE
    MaxPending,   \* uds.max_response_pending
    Versions,     \* protocol versions the tester uses
    Plans,        \* the versions it may plan for its Diagnostic Messages
    OldWait       \* asyncio.wait_for of Python 3.10 and 3.11

ASSUME ConstantsAssumption ==
    /\ {MaxRequests, MaxSends, MaxPending} \subseteq Nat
    /\ QueueSize \in Nat \ {0}
    /\ OldWait \in BOOLEAN
    /\ Versions # {}
    /\ Plans \subseteq [1..MaxRequests -> Versions]

VARIABLES
    pc,        \* the await at which the pump is suspended
    count,     \* requests received; the newest is the pump's
    version,   \* _current_req_version
    asked,     \* the version of each request, as the tester plans it
    queue,     \* _uds_queue
    wpc,       \* the await at which the worker is suspended
    job,       \* the request the worker holds
    pendings,  \* pending_sent
    cancel,    \* cancel() was called on the worker and is not delivered yet
    evicted,   \* evict() has taken the worker task from the session
    handler,   \* the dispatch task of each request
    link,      \* the connection: "up", or "down" by either side
    wire,      \* what the tester received for each request
    autoPending  \* uds.auto_response_pending, fixed by the configuration

pump == <<pc, count, version, asked>>
work == <<wpc, job, pendings, cancel>>
vars == <<pump, queue, work, evicted, handler, link, wire, autoPending>>

-----------------------------------------------------------------------------
Ids == 1..MaxRequests

\* How a dispatch task may end by itself: with bytes or an NRC to send, with
\* nothing to send, by AbortConnectionAfterResponse, by another exception.
Outcomes == {"answer", "silent", "abort", "error"}

\* The frames of a request, in the order in which they make sense.
Refusals == {"nack", "busy"}
Answers == {"reject", "final"}
Kinds == {"ack", "pend", "extra"} \cup Refusals \cup Answers

NoJob == [n |-> 0, ver |-> CHOOSE v \in Versions : TRUE]
Jobs == [n : Ids, ver : Versions]

TypeOK ==
    /\ pc \in {"idle", "hook", "acking", "sending", "leaving", "stopping",
               "joining", "closed"}
    /\ count \in 0..MaxRequests
    /\ version \in Versions
    /\ asked \in [Ids -> Versions]
    /\ queue \in Seq(Jobs)
    /\ wpc \in {"get", "wait", "pending", "reject", "final", "abort", "ended"}
    /\ job \in Jobs \cup {NoJob}
    /\ pendings \in Nat
    /\ {cancel, evicted, autoPending} \subseteq BOOLEAN
    /\ handler \in [Ids -> {"none", "running", "cancelled", "ended"} \cup Outcomes]
    /\ link \in {"up", "down"}
    /\ wire \in [Ids -> Seq([kind : Kinds, ver : Versions])]

Init ==
    /\ pc = "idle"
    /\ count = 0
    /\ version \in Versions
    /\ asked \in Plans
    /\ queue = <<>>
    /\ wpc = "get"
    /\ job = NoJob
    /\ pendings = 0
    /\ cancel = FALSE /\ evicted = FALSE
    /\ autoPending \in BOOLEAN
    /\ handler = [n \in Ids |-> "none"]
    /\ link = "up"
    /\ wire = [n \in Ids |-> <<>>]

-----------------------------------------------------------------------------
\* _send: the write is done at once, the drain is the await that follows.
Write(k, n, v) ==
    wire' = IF link = "up"
            THEN [wire EXCEPT ![n] = Append(@, [kind |-> k, ver |-> v])]
            ELSE wire

Received(n, K) == {i \in DOMAIN wire[n] : wire[n][i].kind \in K}

\* A drain raises once the connection is gone.
Broken == link # "up"

-----------------------------------------------------------------------------
(* The pump: _loop and _handle_diagnostic.                                 *)

\* A Diagnostic Message is read: it is refused with a Negative ACK, which may
\* also close the connection, or goes to the hooks.
ReadDiagnostic(v) ==
    /\ pc = "idle"
    /\ count < MaxRequests
    /\ v = asked[count + 1]
    /\ count' = count + 1
    /\ version' = v
    /\ \/ pc' \in {"sending", "leaving"} /\ Write("nack", count + 1, v)
       \/ pc' = "hook" /\ UNCHANGED wire
    /\ UNCHANGED <<asked, queue, work, evicted, autoPending, handler, link>>

\* Any other frame: it is answered in its own version, or needs no answer (an
\* Alive Check Response).
ReadOther(v) ==
    /\ pc = "idle"
    /\ version' = v
    /\ pc' \in {"idle", "sending"}
    /\ UNCHANGED <<count, asked, queue, work, evicted, autoPending, handler,
                   link, wire>>

\* The stream has ended, or an invalid frame ends it after a Header NACK.
ReadEof ==
    /\ pc = "idle"
    /\ pc' \in {"stopping", "leaving"}
    /\ UNCHANGED <<count, version, asked, queue, work, evicted, autoPending,
                   handler, link, wire>>

\* A hook withholds the ACK, replaces it, or lets it be.
HookDone ==
    /\ pc = "hook"
    /\ \/ pc' = "idle" /\ UNCHANGED wire
       \/ pc' = "sending" /\ Write("nack", count, version)
       \/ pc' = "acking" /\ Write("ack", count, version)
    /\ UNCHANGED <<count, version, asked, queue, work, evicted, autoPending,
                   handler, link>>

\* Mutant: the pump waits for room in the queue.
AckSentBlocks ==
    /\ pc = "acking"
    /\ Len(queue) < QueueSize
    /\ queue' = Append(queue, [n |-> count, ver |-> version])
    /\ pc' = "idle"
    /\ UNCHANGED <<count, version, asked, work, evicted, autoPending, handler,
                   link, wire>>

\* The ACK is out: the request is queued with its version, or answered with
\* busyRepeatRequest.
AckSent ==
    /\ pc = "acking"
    /\ IF Len(queue) < QueueSize
       THEN /\ queue' = Append(queue, [n |-> count, ver |-> version])
            /\ pc' = "idle"
            /\ UNCHANGED wire
       ELSE /\ pc' = "sending"
            /\ Write("busy", count, version)
            /\ UNCHANGED queue
    /\ UNCHANGED <<count, version, asked, work, evicted, autoPending, handler,
                   link>>

SendDone ==
    /\ \/ pc = "sending" /\ pc' = "idle"
       \/ pc = "leaving" /\ pc' = "stopping"
       \/ pc \in {"acking", "sending", "leaving"} /\ Broken /\ pc' = "stopping"
    /\ UNCHANGED <<count, version, asked, queue, work, evicted, autoPending,
                   handler, link, wire>>

\* _stop_uds_worker, unless evict() has taken the task.
StopWorker ==
    /\ pc = "stopping"
    /\ pc' = "joining"
    /\ cancel' = (cancel \/ (~evicted /\ wpc # "ended"))
    /\ UNCHANGED <<count, version, asked, queue, wpc, job, pendings, evicted,
                   autoPending, handler, link, wire>>

Joined ==
    /\ pc = "joining"
    /\ evicted \/ wpc = "ended"
    /\ pc' = "closed"
    /\ link' = "down"
    /\ UNCHANGED <<count, version, asked, queue, work, evicted, autoPending,
                   handler, wire>>

-----------------------------------------------------------------------------
(* What other tasks and the peer do to the connection.                     *)

\* evict() by a contender for the tester's address.
Evict ==
    /\ pc \notin {"joining", "closed"}
    /\ ~evicted
    /\ evicted' = TRUE
    /\ cancel' = (wpc # "ended")
    /\ link' = "down"
    /\ UNCHANGED <<pump, queue, wpc, job, pendings, handler, autoPending,
                   wire>>

\* An inactivity timer closes the writer, or the peer resets the connection.
LinkEnds ==
    /\ link = "up"
    /\ link' = "down"
    /\ UNCHANGED <<pump, queue, work, evicted, autoPending, handler, wire>>

-----------------------------------------------------------------------------
(* The worker.                                                             *)

\* A request is taken and its dispatch task created.
Get ==
    /\ wpc = "get"
    /\ ~cancel
    /\ queue # <<>>
    /\ job' = Head(queue)
    /\ queue' = Tail(queue)
    /\ wpc' = "wait"
    /\ pendings' = 0
    /\ handler' = [handler EXCEPT ![Head(queue).n] = "running"]
    /\ UNCHANGED <<pump, cancel, evicted, autoPending, link, wire>>

\* Mutant: the version is read from the session when the answer is sent.
ReturnsCurrentVersion ==
    /\ wpc = "wait"
    /\ handler[job.n] \in Outcomes
    /\ cancel => OldWait /\ autoPending
    /\ cancel' = FALSE
    /\ \/ /\ handler[job.n] \in {"answer", "abort"}
          /\ Write("final", job.n, version)
          /\ wpc' = IF handler[job.n] = "abort" THEN "abort" ELSE "final"
       \/ /\ handler[job.n] \in {"silent", "error"}
          /\ wpc' = "get"
          /\ UNCHANGED wire
    /\ handler' = [handler EXCEPT ![job.n] = "ended"]
    /\ UNCHANGED <<pump, queue, job, pendings, evicted, autoPending, link>>

\* The handler has ended and resolve_uds returns, with or without an answer.
\* Before Python 3.12 wait_for returns the result of a future that is done
\* although its own task was cancelled, and the cancellation is lost.
Returns ==
    /\ wpc = "wait"
    /\ handler[job.n] \in Outcomes
    /\ cancel => OldWait /\ autoPending
    /\ cancel' = FALSE
    /\ \/ /\ handler[job.n] \in {"answer", "abort"}
          /\ Write("final", job.n, job.ver)
          /\ wpc' = IF handler[job.n] = "abort" THEN "abort" ELSE "final"
       \/ /\ handler[job.n] \in {"silent", "error"}
          /\ wpc' = "get"
          /\ UNCHANGED wire
    /\ handler' = [handler EXCEPT ![job.n] = "ended"]
    /\ UNCHANGED <<pump, queue, job, pendings, evicted, autoPending, link>>

\* task.cancel() on the dispatch task; a task that is done stays as it is.
CancelHandler(n) ==
    handler' = IF handler[n] = "running"
               THEN [handler EXCEPT ![n] = "cancelled"] ELSE handler

\* Mutant: the cap is off by one.
P2TimeoutOneMore ==
    /\ wpc = "wait"
    /\ autoPending
    /\ ~cancel
    /\ IF MaxPending # 0 /\ pendings > MaxPending
       THEN /\ CancelHandler(job.n)
            /\ Write("reject", job.n, job.ver)
            /\ wpc' = "reject"
            /\ UNCHANGED pendings
       ELSE /\ Write("pend", job.n, job.ver)
            /\ wpc' = "pending"
            /\ pendings' = pendings + 1
            /\ UNCHANGED handler
    /\ UNCHANGED <<pump, queue, job, cancel, evicted, autoPending, link>>

\* Mutant: at the cap the announcements stop, but not the waiting.
P2TimeoutWaitsOn ==
    /\ wpc = "wait"
    /\ autoPending
    /\ ~cancel
    /\ MaxPending # 0 => pendings < MaxPending
    /\ Write("pend", job.n, job.ver)
    /\ wpc' = "pending"
    /\ pendings' = pendings + 1
    /\ UNCHANGED <<pump, queue, job, cancel, handler, evicted, autoPending,
                   link>>

\* Mutant: at the cap the request is put back, to be tried again later.
P2TimeoutRequeues ==
    /\ wpc = "wait"
    /\ autoPending
    /\ ~cancel
    /\ IF MaxPending # 0 /\ pendings >= MaxPending
       THEN /\ CancelHandler(job.n)
            /\ queue' = Append(queue, job)
            /\ wpc' = "get"
            /\ UNCHANGED <<wire, pendings>>
       ELSE /\ Write("pend", job.n, job.ver)
            /\ wpc' = "pending"
            /\ pendings' = pendings + 1
            /\ UNCHANGED <<handler, queue>>
    /\ UNCHANGED <<pump, job, cancel, evicted, autoPending, link>>

\* The P2 window ends, perhaps just as the handler does: ResponsePending, or
\* the end of the matter once the cap is reached.
P2Timeout ==
    /\ wpc = "wait"
    /\ autoPending
    /\ ~cancel
    /\ IF MaxPending # 0 /\ pendings >= MaxPending
       THEN /\ CancelHandler(job.n)
            /\ Write("reject", job.n, job.ver)
            /\ wpc' = "reject"
            /\ UNCHANGED pendings
       ELSE /\ Write("pend", job.n, job.ver)
            /\ wpc' = "pending"
            /\ pendings' = pendings + 1
            /\ UNCHANGED handler
    /\ UNCHANGED <<pump, queue, job, cancel, evicted, autoPending, link>>

\* A drain of the worker returns.  The answer of an ECUReset is followed by
\* _finalize, which drops the connection.
WorkerSent ==
    /\ ~cancel
    /\ \/ wpc = "pending" /\ wpc' = "wait" /\ UNCHANGED link
       \/ wpc \in {"reject", "final"} /\ wpc' = "get" /\ UNCHANGED link
       \/ /\ wpc = "abort"
          /\ wpc' = "get"
          /\ link' = "down"
    /\ UNCHANGED <<pump, queue, job, pendings, cancel, evicted, autoPending,
                   handler, wire>>

\* It raises: the worker logs it and goes on, without a look at the dispatch
\* task; inside the except clause for the abort nothing catches it.
WorkerSendFails ==
    /\ ~cancel
    /\ Broken
    /\ \/ wpc \in {"pending", "reject", "final"} /\ wpc' = "get"
       \/ wpc = "abort" /\ wpc' = "ended"
    /\ UNCHANGED <<pump, queue, job, pendings, cancel, evicted, autoPending,
                   handler, link, wire>>

\* Mutant: the cancelled worker leaves the shielded dispatch task alone.
WorkerCancelledDetached ==
    /\ cancel
    /\ wpc' = "ended"
    /\ cancel' = FALSE
    /\ UNCHANGED <<pump, queue, job, pendings, handler, evicted, autoPending,
                   link, wire>>

\* The cancellation is delivered.  A dispatch task that is shielded is
\* cancelled by the way; one that is awaited directly is cancelled first.
WorkerCancelled ==
    /\ cancel
    /\ IF wpc = "wait" /\ ~autoPending /\ handler[job.n] \in {"running", "cancelled"}
       THEN /\ handler[job.n] = "running"
            /\ UNCHANGED <<wpc, cancel>>
       ELSE wpc' = "ended" /\ cancel' = FALSE
    /\ IF wpc \in {"wait", "pending", "reject"}
       THEN CancelHandler(job.n) ELSE UNCHANGED handler
    /\ UNCHANGED <<pump, queue, job, pendings, evicted, autoPending, link,
                   wire>>

-----------------------------------------------------------------------------
(* Dispatch tasks: Dispatcher.dispatch with the services and the plugins.  *)

\* ctx.send() in a handler: bounded by MaxSends.
HandlerSends(n) ==
    /\ handler[n] = "running"
    /\ Cardinality(Received(n, {"extra"})) < MaxSends
    /\ Write("extra", n, asked[n])
    /\ UNCHANGED <<pump, queue, work, evicted, autoPending, handler, link>>

HandlerEnds(n) ==
    /\ handler[n] = "running"
    /\ \E r \in Outcomes : handler' = [handler EXCEPT ![n] = r]
    /\ UNCHANGED <<pump, queue, work, evicted, autoPending, link, wire>>

\* A cancelled handler has run its finally clauses.
HandlerStops(n) ==
    /\ handler[n] = "cancelled"
    /\ handler' = [handler EXCEPT ![n] = "ended"]
    /\ UNCHANGED <<pump, queue, work, evicted, autoPending, link, wire>>

-----------------------------------------------------------------------------
PumpStep == HookDone \/ AckSent \/ SendDone
StopStep == StopWorker \/ Joined
WorkerStep ==
    Get \/ Returns \/ P2Timeout \/ WorkerSent \/ WorkerSendFails
        \/ WorkerCancelled

Terminated == pc = "closed" /\ UNCHANGED vars

Next ==
    \/ \E v \in Versions : ReadDiagnostic(v) \/ ReadOther(v)
    \/ ReadEof \/ PumpStep \/ StopStep
    \/ Evict \/ LinkEnds
    \/ WorkerStep
    \/ \E n \in Ids : HandlerSends(n) \/ HandlerEnds(n) \/ HandlerStops(n)
    \/ Terminated

Spec == Init /\ [][Next]_vars

-----------------------------------------------------------------------------
(* Fairness.  The code promises nothing of it by itself: a drain ends only  *)
(* if the tester reads or the connection breaks, and a hook or a handler   *)
(* of a plugin only if its author lets it.  What a liveness property needs *)
(* is therefore a hypothesis of it.                                        *)

\* The tester reads what the pump sends, and the hooks of the pump return.
PumpFairness == WF_vars(PumpStep)

\* The tester reads what the worker sends, P2 windows end, a broken connection
\* has finitely many frames left to read, and a handler heeds its
\* cancellation; it need not return otherwise.
WorkerFairness ==
    /\ SF_vars(Broken /\ ReadEof)
    /\ WF_vars(StopStep)
    /\ WF_vars(WorkerStep)
    /\ \A n \in Ids : WF_vars(HandlerStops(n))

\* Both, for the statements of the code that are refuted: not even then.
FairSpec == Spec /\ PumpFairness /\ WorkerFairness

-----------------------------------------------------------------------------
(* Safety.                                                                 *)

\* What the tester receives is a conversation: the ACK of a request comes
\* first, and nothing follows its answer or its refusal, although the pump, the
\* worker and the handlers write to one connection: a handler that was given
\* up sends nothing more, and no answer overtakes its ACK.
WireOrder ==
    \A n \in Ids : \A i \in DOMAIN wire[n] :
        /\ wire[n][i].kind \in Refusals \cup Answers => i = Len(wire[n])
        /\ wire[n][i].kind = "ack" => i = 1
        /\ wire[n][i].kind \notin {"ack", "nack"} => wire[n][1].kind = "ack"

\* Answers come in the order of the requests ("preserves in-order processing
\* within one tester's session", session.py:40).
AnswersInOrder ==
    [][\A m, n \in Ids :
          m > n /\ Received(m, Answers) # {} => Received(n, Answers)' = Received(n, Answers)]_vars

\* Every frame has the protocol version of the request it belongs to, although
\* the pump has read frames of another version meanwhile.
VersionEcho ==
    \A n \in Ids : \A i \in DOMAIN wire[n] : wire[n][i].ver = asked[n]

\* The tasks of a connection keep their types, and its wire its order and the
\* versions the tester used (_send_response, _dispatch_with_p2).
WireInv == TypeOK /\ WireOrder /\ VersionEcho

\* max_response_pending and the size of the queue are limits.
Bounded ==
    /\ Len(queue) <= QueueSize
    /\ MaxPending # 0 =>
          \A n \in Ids : Cardinality(Received(n, {"pend"})) <= MaxPending

\* While the connection is up, the only handler that runs is the one the worker
\* waits for: requests of a tester are processed one at a time, and no handler
\* runs on without its worker.
HandlerOwned ==
    link = "up" =>
        \A n \in Ids : handler[n] = "running" =>
            n = job.n /\ wpc \in {"wait", "pending"}

\* Why they hold.  Requests wait in the order of their arrival, between the one
\* the worker holds and the one in the pump's hands, each with its version,
\* and no dispatch task exists before its request is taken.
QueueInv ==
    /\ job.n <= count
    /\ job.n # 0 => job.ver = asked[job.n]
    /\ wpc \in {"wait", "pending", "reject", "final", "abort"} => job.n # 0
    /\ \A i \in DOMAIN queue :
          /\ job.n < queue[i].n /\ queue[i].n <= count
          /\ queue[i].ver = asked[queue[i].n]
    /\ \A i, j \in DOMAIN queue : i < j => queue[i].n < queue[j].n
    /\ pc \in {"hook", "acking"} =>
          /\ job.n < count
          /\ version = asked[count]
          /\ \A i \in DOMAIN queue : queue[i].n < count
    /\ \A n \in Ids : job.n < n => handler[n] = "none"

\* So far the tester has the ACK of n and nothing else, unless the link broke.
Acked(n) ==
    /\ Received(n, Kinds \ {"ack"}) = {}
    /\ Len(wire[n]) <= 1
    /\ link = "up" => Len(wire[n]) = 1

\* It has the ACK, and neither a refusal nor an answer.
Unanswered(n) ==
    /\ Received(n, Refusals \cup Answers) = {}
    /\ link = "up" => Len(wire[n]) >= 1 /\ wire[n][1].kind = "ack"

\* How far the conversation about each request has come.
ConversationInv ==
    /\ \A n \in Ids : count < n => Len(wire[n]) = 0
    /\ pc = "hook" => Len(wire[count]) = 0
    /\ pc = "acking" => Acked(count)
    /\ \A i \in DOMAIN queue : Acked(queue[i].n)
    /\ wpc \in {"wait", "pending"} => Unanswered(job.n)
    /\ \A n \in Ids : job.n < n => Received(n, Answers \cup {"pend"}) = {}

\* pending_sent counts the ResponsePendings of the request in hand.
PendingCounted ==
    wpc \in {"wait", "pending"} =>
        Cardinality(Received(job.n, {"pend"})) <= pendings

\* Together with the properties they are inductive.
WorkerInv ==
    /\ WireInv /\ HandlerOwned /\ Bounded
    /\ QueueInv /\ ConversationInv /\ PendingCounted

-----------------------------------------------------------------------------
(* Liveness.                                                               *)

Queued(n) == \E i \in DOMAIN queue : queue[i].n = n

\* With ResponsePending on, a queued request is dealt with by a worker that
\* runs, even when its handler or that of an earlier one never returns, or the
\* connection ends (the cap of _dispatch_with_p2).
RequestServed ==
    PumpFairness /\ WorkerFairness =>
        \A n \in Ids :
            autoPending /\ Queued(n) ~> \/ pc = "closed"
                                        \/ job.n >= n /\ wpc \notin {"wait", "pending"}

\* If the tester reads and the hooks return, the pump returns to its read
\* whatever the worker and the handlers do, although both use a queue of
\* limited size: an Alive Check is answered while a handler runs
\* (_handle_diagnostic).
PumpResponsive ==
    PumpFairness =>
        (pc \in {"hook", "acking", "sending"} ~> pc \in {"idle", "stopping"})

\* session.py:322: "one .cancel() here is enough to stop a slow handler from
\* outliving the connection": the worker ends of it, and run() with the worker.
StopCompletes == pc = "stopping" ~> pc = "closed"

\* The same sentence of session.py:322, of the handler itself.
HandlerContained ==
    \A n \in Ids : pc = "closed" ~> handler[n] # "running"

=============================================================================
