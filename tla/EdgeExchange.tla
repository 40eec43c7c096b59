---------------------------- MODULE EdgeExchange ----------------------------
(***************************************************************************)
(* The diagnostic path of one activated DoIPSession of the EdgeNode        *)
(* (doip_edgenode/session.py: _handle_diagnostic to _connect_to_ecu,       *)
(* send_to_ecu, _cleanup_impl) and of the ECUConnections it owns           *)
(* (ecu_client.py).  Activation is the subject of EdgeActivation; here the *)
(* session is activated and may begin to close at any time.                *)
(*                                                                         *)
(* A step is the code between two awaits.  Four kinds of tasks take steps: *)
(* the pump (pc), the setup of an ECU leg (connect), the retirement of a   *)
(* leg (retire) and the teardown of the session (cleanup); a leg's reader  *)
(* and its recv() are the queue and the read task.                         *)
(*                                                                         *)
(*   idle        waits for the next frame of the tester                    *)
(*   middleware  awaits the tester_to_ecu chain                            *)
(*   retireOld   retires a cached leg that is no longer connected          *)
(*   connecting  awaits the setup of a leg                                 *)
(*   unconnect   was cancelled meanwhile and waits for that setup to end   *)
(*   injecting   ReplayMiddleware sends a recorded request                 *)
(*   sending     _exchange_with_ecu sends the request                      *)
(*   receiving   _recv_ecu_frame waits for the read task                   *)
(*   relaying    a frame passes the ecu_to_tester chain and is sent        *)
(*   nacking     a Diagnostic Negative ACK of the EdgeNode is sent         *)
(*   retiring    the finally clause of the exchange retires the leg        *)
(*   stopping    run() joins the cleanup task                              *)
(*   finished    the connection task has ended                             *)
(***************************************************************************)
EXTENDS Integers, Sequences, FiniteSets

CONSTANTS
    Targets,      \* target addresses the tester uses
    Routed,       \* those the routing table knows
    Legs,         \* identities of ECUConnection objects
    NoLeg,        \* no ECUConnection
    MaxRequests,  \* bound: requests the tester sends
    Strict,       \* timers.strict_response_matching
    Setups        \* what a behaviour may start with:
                  \*   replay    ReplayMiddleware records and replays
                  \*             (replay_count = 1)
                  \*   strays    the ECU may send what answers no request
                  \*   extras    bound: frames it sends beyond its answers; 0 if
                  \*             it answers each request once
                  \*   requests  bound: requests the tester sends

ASSUME ConstantsAssumption ==
    /\ NoLeg \notin Legs
    /\ Routed \subseteq Targets
    /\ MaxRequests \in Nat
    /\ Strict \in BOOLEAN
    /\ Setups \subseteq [replay : BOOLEAN, strays : BOOLEAN, extras : Nat,
                         requests : 0..MaxRequests]

VARIABLES
    pc,        \* the await at which the pump is suspended
    req,       \* number of the request being handled
    tgt,       \* its target address
    cur,       \* the leg the handler uses, or NoLeg
    accepted,  \* an ACK or a diagnostic answer has been received
    pending,   \* pending_seen
    late,      \* ecu_pending_max_wait_s is over
    settled,   \* history: the requests whose exchange completed, and those
               \* that ReplayMiddleware sent without waiting for the answer
    inject,    \* ReplayMiddleware: "no", "now" (inside send_to_ecu) or "done"
    raising,   \* the pump leaves run() after the retirement it waits for
    frame,     \* the ECU frame being relayed
    out,       \* what the tester was sent for this request
    cache,     \* _ecu_conns
    reader,    \* _ecu_read_owners: the leg whose recv() is outstanding
    read,      \* the outcome of that recv()
    leg,       \* state of every ECUConnection
    closer,    \* _ecu_close_tasks
    queue,     \* _recv_queue of every leg
    inbox,     \* external: requests the ECU has received on the leg
    answered,  \* external: progress of the ECU with the first of them
    heard,     \* external: every request it received over the connection
    added,     \* external: frames sent beyond the answers
    setup,     \* the configuration and the ECU of the behaviour
    connect,   \* the connect task
    retire,    \* the retirement task
    cleanup    \* the cleanup task; "no" means not _closing

exchange == <<req, tgt, cur, accepted, pending, late, settled, inject, raising,
              frame>>
legs == <<cache, reader, read, leg, closer, queue>>
ecu == <<inbox, answered, heard, added, setup>>
tasks == <<connect, retire, cleanup>>
vars == <<pc, exchange, out, legs, ecu, tasks>>

-----------------------------------------------------------------------------
Pcs == {"idle", "middleware", "retireOld", "connecting", "unconnect",
        "injecting", "sending", "receiving", "relaying", "nacking",
        "retiring", "stopping", "finished"}

\* What a frame is to the exchange: acknowledgement, negative acknowledgement,
\* ResponsePending, other diagnostic answer, other payload type.  "local" is a
\* Negative ACK made here.  n is the request it answers, 0 for none: every
\* request carries the same SID, so only 0 fails to match the request's SID.
Kinds == {"ack", "nack", "pend", "final", "other"}
Frames == [kind : Kinds \cup {"local"}, n : 0..MaxRequests]
NoFrame == [kind |-> "other", n |-> 0]

\* Outcomes of a read task.
Waiting == "waiting"
Failed == "failed"
Cancelled == "cancelled"
NewRead == [state |-> Waiting, frame |-> NoFrame]

TypeOK ==
    /\ pc \in Pcs
    /\ req \in 0..MaxRequests
    /\ tgt \in Targets
    /\ cur \in Legs \cup {NoLeg}
    /\ {accepted, pending, late, raising} \subseteq BOOLEAN
    /\ settled \subseteq 1..MaxRequests
    /\ inject \in {"no", "now", "done"}
    /\ frame \in Frames
    /\ out \in Seq(Frames)
    /\ cache \in [Targets -> Legs \cup {NoLeg}]
    /\ reader \in [Targets -> Legs \cup {NoLeg}]
    /\ read \in [state : {Waiting, Failed, Cancelled, "frame"}, frame : Frames]
    /\ leg \in [Legs -> {"fresh", "setup", "up", "eof", "closed"}]
    /\ closer \in [Legs -> {"no", "running", "done"}]
    /\ queue \in [Legs -> Seq(Frames)]
    /\ inbox \in [Legs -> Seq(1..MaxRequests)]
    /\ answered \in [Legs -> {"no", "acked", "pended"}]
    /\ heard \in [Legs -> SUBSET (1..MaxRequests)]
    /\ added \in Nat
    /\ setup \in Setups
    /\ connect \in {"no", "running", "cancelled", "closing", "ok", "failed",
                    "late", "aborted"}
    /\ retire \in {"no", "begin", "closing"}
    /\ cleanup \in {"no", "start", "connects", "reads", "closes", "retires",
                    "last", "done"}

Init ==
    /\ pc = "idle"
    /\ req = 0
    /\ tgt \in Targets
    /\ cur = NoLeg
    /\ accepted = FALSE /\ pending = FALSE /\ late = FALSE /\ raising = FALSE
    /\ settled = {}
    /\ inject = "no"
    /\ frame = NoFrame
    /\ out = <<>>
    /\ cache = [t \in Targets |-> NoLeg]
    /\ reader = [t \in Targets |-> NoLeg]
    /\ read = NewRead
    /\ leg = [l \in Legs |-> "fresh"]
    /\ closer = [l \in Legs |-> "no"]
    /\ queue = [l \in Legs |-> <<>>]
    /\ inbox = [l \in Legs |-> <<>>]
    /\ answered = [l \in Legs |-> "no"]
    /\ heard = [l \in Legs |-> {}]
    /\ added = 0
    /\ setup \in Setups
    /\ connect = "no" /\ retire = "no" /\ cleanup = "no"

Closing == cleanup # "no"

\* _response_matches: the SID of a diagnostic answer against the request's.
Matches(f) == f.n # 0 \/ ~Strict

-----------------------------------------------------------------------------
(* Where the pump goes when the code it runs reaches an await or returns.  *)
(* Every one of these sets pc, cur, raising, inject, leg, closer, connect, *)
(* retire and cleanup; the pump forgets the task whose result it takes.    *)

Consume ==
    /\ connect' = IF pc \in {"connecting", "unconnect"} THEN "no" ELSE connect
    /\ retire' = IF pc \in {"retiring", "retireOld"} THEN "no" ELSE retire

\* The handler, or send_to_ecu, returns.
Return ==
    /\ pc' = IF inject = "now" THEN "middleware" ELSE "idle"
    /\ inject' = IF inject = "now" THEN "done" ELSE inject
    /\ cur' = NoLeg
    /\ Consume
    /\ UNCHANGED <<raising, leg, closer, cleanup>>

\* An exception leaves run(), whose finally clause starts the cleanup.
Exit ==
    /\ pc' = "stopping"
    /\ cleanup' = IF cleanup = "no" THEN "start" ELSE cleanup
    /\ cur' = NoLeg
    /\ inject' = IF inject = "now" THEN "done" ELSE inject
    /\ Consume
    /\ UNCHANGED <<raising, leg, closer>>

\* _send_diag_nack; cur tells a refused request from a failed exchange.
Nack ==
    /\ pc' = "nacking"
    /\ cur' = IF pc \in {"sending", "receiving", "relaying"} THEN cur ELSE NoLeg
    /\ Consume
    /\ UNCHANGED <<raising, inject, leg, closer, cleanup>>

\* The finally clause of an exchange that did not complete.
Retire(raises) ==
    /\ pc' = "retiring"
    /\ retire' = "begin"
    /\ raising' = (raising \/ raises)
    /\ UNCHANGED <<cur, inject, leg, closer, connect, cleanup>>

\* Mutant: silence after an ACK keeps the leg for the next request.
FailKeepsLeg(acc) == IF acc THEN Return ELSE Nack

\* The except clause of the exchange.
Fail(acc) == IF acc THEN Retire(FALSE) ELSE Nack

UseLeg(l) ==
    /\ pc' = IF inject = "now" THEN "injecting" ELSE "sending"
    /\ cur' = l
    /\ Consume
    /\ UNCHANGED <<raising, inject, leg, closer, cleanup>>

\* _connect_to_ecu up to the shielded connect task.
Connect ==
    IF Closing THEN Return
    ELSE IF tgt \notin Routed THEN Nack
    ELSE \E l \in {x \in Legs : leg[x] \in {"fresh", "closed"}} :
            /\ pc' = "connecting"
            /\ cur' = l
            /\ connect' = "running"
            /\ retire' = "no"
            /\ leg' = [leg EXCEPT ![l] = "setup"]
            /\ closer' = [closer EXCEPT ![l] = "no"]
            /\ UNCHANGED <<raising, inject, cleanup>>

\* The cached leg of the target is used, replaced or created.
Route ==
    LET l == cache[tgt]
    IN IF l = NoLeg THEN Connect
       ELSE IF leg[l] = "up" THEN UseLeg(l)
       ELSE /\ pc' = "retireOld"
            /\ cur' = l
            /\ retire' = "begin"
            /\ UNCHANGED <<raising, inject, leg, closer, connect, cleanup>>

\* Mutant: ResponsePending is honoured without a budget.
LoopHeadUnbounded(acc, owner) ==
    IF Closing \/ owner \notin {NoLeg, cur}
    THEN /\ IF Closing THEN Retire(FALSE) ELSE Fail(acc)
         /\ reader' = [reader EXCEPT ![tgt] = owner]
         /\ read' = NewRead
    ELSE /\ pc' = "receiving"
         /\ reader' = [reader EXCEPT ![tgt] = cur]
         /\ read' = IF owner = NoLeg THEN NewRead ELSE read
         /\ UNCHANGED <<cur, raising, inject, leg, closer, connect, retire,
                        cleanup>>

\* The head of the receive loop and the first half of _recv_ecu_frame, where
\* owner is the leg of the read task that is outstanding.
LoopHead(acc, owner) ==
    IF Closing \/ late \/ owner \notin {NoLeg, cur}
    THEN /\ IF Closing THEN Retire(FALSE) ELSE Fail(acc)
         /\ reader' = [reader EXCEPT ![tgt] = owner]
         /\ read' = NewRead
    ELSE /\ pc' = "receiving"
         /\ reader' = [reader EXCEPT ![tgt] = cur]
         /\ read' = IF owner = NoLeg THEN NewRead ELSE read
         /\ UNCHANGED <<cur, raising, inject, leg, closer, connect, retire,
                        cleanup>>

-----------------------------------------------------------------------------
(* _handle_diagnostic: from a request of the tester to a leg.              *)

Request(t) ==
    /\ pc = "idle"
    /\ ~Closing
    /\ req < setup.requests
    /\ pc' = "middleware"
    /\ req' = req + 1
    /\ tgt' = t
    /\ accepted' = FALSE /\ pending' = FALSE /\ late' = FALSE
    /\ inject' = "no"
    /\ out' = <<>>
    /\ UNCHANGED <<cur, settled, raising, frame, legs, ecu, tasks>>

\* The tester has left, or the transport was closed by this side.
ReadEof ==
    /\ pc = "idle"
    /\ Exit
    /\ UNCHANGED <<req, tgt, accepted, pending, late, settled, frame, out,
                   cache, reader, read, queue, ecu>>

\* ReplayMiddleware calls send_to_ecu with a copy of the request.
ReplayStarts ==
    /\ pc = "middleware"
    /\ setup.replay
    /\ inject = "no"
    /\ inject' = "now"
    /\ UNCHANGED <<pc, req, tgt, cur, accepted, pending, late, settled,
                   raising, frame, out, legs, ecu, tasks>>

\* The tester_to_ecu chain returns a packet, drops it, injects a fault or
\* fails; a session that began to close handles nothing more.
MiddlewareDone ==
    /\ pc = "middleware"
    /\ \/ ~Closing /\ Route
       \/ (Closing \/ inject # "now") /\ Return
       \/ inject # "now" /\ Nack
       \/ inject # "now" /\ Exit
    /\ UNCHANGED <<req, tgt, accepted, pending, late, settled, frame, out,
                   cache, reader, read, queue, ecu>>

\* The pump takes the result of the connect task.
Connected ==
    /\ pc = "connecting"
    /\ \/ connect = "ok" /\ IF Closing THEN Return ELSE UseLeg(cur)
       \/ connect = "failed" /\ IF Closing THEN Return ELSE Nack
       \/ connect = "late" /\ Return
       \/ connect = "aborted" /\ Exit
    /\ UNCHANGED <<req, tgt, accepted, pending, late, settled, frame, out,
                   cache, reader, read, queue, ecu>>

\* The pump was cancelled and has waited for the connect task.
Unconnected ==
    /\ pc = "unconnect"
    /\ connect \in {"ok", "failed", "late", "aborted"}
    /\ Exit
    /\ UNCHANGED <<req, tgt, accepted, pending, late, settled, frame, out,
                   cache, reader, read, queue, ecu>>

-----------------------------------------------------------------------------
(* _exchange_with_ecu.                                                     *)

\* A send on the leg: the ECU may have the request even when it fails.
Delivered(l, sent) ==
    /\ inbox' = IF sent THEN [inbox EXCEPT ![l] = Append(@, req)] ELSE inbox
    /\ heard' = IF sent THEN [heard EXCEPT ![l] = @ \cup {req}] ELSE heard

InjectDone ==
    /\ pc = "injecting"
    /\ \E sent \in {FALSE, leg[cur] = "up"} : Delivered(cur, sent)
    /\ settled' = settled \cup {req}
    /\ Return
    /\ UNCHANGED <<req, tgt, accepted, pending, late, frame, out,
                   cache, reader, read, queue, answered, added, setup>>

SendDone ==
    /\ pc = "sending"
    /\ leg[cur] = "up"
    /\ Delivered(cur, TRUE)
    /\ LoopHead(accepted, reader[tgt])
    /\ UNCHANGED <<req, tgt, accepted, pending, late, settled, frame, out,
                   cache, queue, answered, added, setup>>

SendFails ==
    /\ pc = "sending"
    /\ \E sent \in {FALSE, leg[cur] = "up"} : Delivered(cur, sent)
    /\ Fail(accepted)
    /\ UNCHANGED <<req, tgt, accepted, pending, late, settled, frame, out,
                   cache, reader, read, queue, answered, added, setup>>

\* Mutant: an ACK is not recorded as acceptance.
RecvFrameAckUnrecorded ==
    LET f == read.frame
    IN /\ pc = "receiving"
       /\ read.state = "frame"
       /\ reader' = [reader EXCEPT ![tgt] = NoLeg]
       /\ read' = NewRead
       /\ IF \/ f.kind = "ack" /\ accepted
             \/ f.kind \in {"pend", "final"} /\ ~Matches(f)
          THEN Retire(FALSE) /\ UNCHANGED <<accepted, frame>>
          ELSE /\ pc' = "relaying"
               /\ frame' = f
               /\ accepted' = (accepted \/ f.kind \in {"pend", "final"})
               /\ UNCHANGED <<cur, raising, inject, leg, closer, tasks>>
       /\ UNCHANGED <<req, tgt, pending, late, settled, out, cache, queue,
                      ecu>>

\* The read task has a frame: it ends the exchange or is relayed.
RecvFrame ==
    LET f == read.frame
    IN /\ pc = "receiving"
       /\ read.state = "frame"
       /\ reader' = [reader EXCEPT ![tgt] = NoLeg]
       /\ read' = NewRead
       /\ IF \/ f.kind = "ack" /\ accepted
             \/ f.kind \in {"pend", "final"} /\ ~Matches(f)
          THEN Retire(FALSE) /\ UNCHANGED <<accepted, frame>>
          ELSE /\ pc' = "relaying"
               /\ frame' = f
               /\ accepted' = (accepted \/ f.kind \in {"ack", "pend", "final"})
               /\ UNCHANGED <<cur, raising, inject, leg, closer, tasks>>
       /\ UNCHANGED <<req, tgt, pending, late, settled, out, cache, queue,
                      ecu>>

\* recv() raised because the leg is terminal, or the cleanup cancelled it,
\* which reaches the pump as a CancelledError.
RecvFails ==
    /\ pc = "receiving"
    /\ \/ read.state = Failed /\ Fail(accepted)
       \/ read.state = Cancelled /\ Retire(TRUE)
    /\ reader' = [reader EXCEPT ![tgt] = NoLeg]
    /\ read' = NewRead
    /\ UNCHANGED <<req, tgt, accepted, pending, late, settled, frame, out,
                   cache, queue, ecu>>

\* ecu_response_timeout_s passes.  The read task is kept unless it is done,
\* which it may be by now: its outcome is then dropped with it.
RecvTimeout ==
    LET owner == IF read.state = Waiting THEN reader[tgt] ELSE NoLeg
    IN /\ pc = "receiving"
       /\ IF pending THEN LoopHead(accepted, owner)
          ELSE /\ Fail(accepted)
               /\ reader' = [reader EXCEPT ![tgt] = owner]
               /\ read' = NewRead
       /\ UNCHANGED <<req, tgt, accepted, pending, late, settled, frame, out,
                      cache, queue, ecu>>

\* _relay_ecu_frame returns: the frame was sent, or dropped by the chain or
\* because the session is closing.  The exchange goes on or has completed.
RelayDone ==
    /\ pc = "relaying"
    /\ out' \in IF Closing THEN {out} ELSE {out, Append(out, frame)}
    /\ pending' = (pending \/ (frame.kind = "pend" /\ frame.n # 0))
    /\ \/ /\ frame.kind = "ack" \/ (frame.kind = "pend" /\ frame.n # 0)
          /\ LoopHead(accepted, reader[tgt])
          /\ UNCHANGED settled
       \/ /\ frame.kind \in {"final", "nack"}
          /\ settled' = settled \cup {req}
          /\ Return
          /\ UNCHANGED <<reader, read>>
       \/ /\ frame.kind = "other" \/ (frame.kind = "pend" /\ frame.n = 0)
          /\ Retire(FALSE)
          /\ UNCHANGED <<settled, reader, read>>
    /\ frame' = NoFrame
    /\ UNCHANGED <<req, tgt, accepted, late, cache, queue, ecu>>

RelayFails ==
    /\ pc = "relaying"
    /\ Fail(accepted)
    /\ frame' = NoFrame
    /\ UNCHANGED <<req, tgt, accepted, pending, late, settled, out, cache,
                   reader, read, queue, ecu>>

\* Mutant: a leg that did not answer is kept.
NackDoneKeepsLeg ==
    /\ pc = "nacking"
    /\ out' = IF Closing THEN out
              ELSE Append(out, [kind |-> "local", n |-> req])
    /\ Return
    /\ UNCHANGED <<req, tgt, accepted, pending, late, settled, frame, cache,
                   reader, read, queue, ecu>>

NackDone ==
    /\ pc = "nacking"
    /\ out' = IF Closing THEN out
              ELSE Append(out, [kind |-> "local", n |-> req])
    /\ IF cur = NoLeg THEN Return ELSE Retire(FALSE)
    /\ UNCHANGED <<req, tgt, accepted, pending, late, settled, frame, cache,
                   reader, read, queue, ecu>>

\* The tester's connection is broken; ReplayMiddleware swallows the error.
NackFails ==
    /\ pc = "nacking"
    /\ IF cur # NoLeg THEN Retire(TRUE)
       ELSE IF inject = "now" THEN Return ELSE Exit
    /\ UNCHANGED <<req, tgt, accepted, pending, late, settled, frame, out,
                   cache, reader, read, queue, ecu>>

DeadlinePasses ==
    /\ pc \in {"sending", "receiving", "relaying"}
    /\ ~late
    /\ late' = TRUE
    /\ UNCHANGED <<pc, req, tgt, cur, accepted, pending, settled, inject, raising,
                   frame, out, legs, ecu, tasks>>

\* The server cancels the connection task.  A retirement and the setup of a
\* leg are waited for; the read task that was awaited is left to its owner.
PumpCancelled ==
    /\ ~raising
    /\ \/ /\ \/ pc \in {"idle", "middleware", "injecting"}
             \/ pc = "nacking" /\ cur = NoLeg
          /\ Exit
          /\ UNCHANGED <<reader, read>>
       \/ /\ \/ pc \in {"sending", "receiving", "relaying"}
             \/ pc = "nacking" /\ cur # NoLeg
          /\ Retire(TRUE)
          /\ reader' = [reader EXCEPT ![tgt] =
                IF pc = "receiving" /\ read.state # Waiting THEN NoLeg ELSE @]
          /\ read' = IF pc = "receiving" THEN NewRead ELSE read
       \/ /\ pc \in {"retiring", "retireOld"}
          /\ raising' = TRUE
          /\ UNCHANGED <<pc, cur, inject, leg, closer, tasks, reader, read>>
       \/ /\ pc = "connecting"
          /\ pc' = "unconnect"
          /\ connect' = IF connect = "running" THEN "cancelled" ELSE connect
          /\ UNCHANGED <<cur, raising, inject, leg, closer, retire, cleanup,
                         reader, read>>
    /\ frame' = NoFrame
    /\ UNCHANGED <<req, tgt, accepted, pending, late, settled, out, cache,
                   queue, ecu>>

-----------------------------------------------------------------------------
(* ECU legs: setup, closing and retirement.                                *)

\* _close_ecu_once starts the close of the legs in L; close() marks them
\* terminal and discards what they have queued.
StartClose(L) ==
    /\ closer' = [l \in Legs |-> IF l \in L /\ closer[l] = "no"
                                 THEN "running" ELSE closer[l]]
    /\ leg' = [l \in Legs |-> IF l \in L /\ leg[l] # "closed"
                              THEN "eof" ELSE leg[l]]
    /\ queue' = [l \in Legs |-> IF l \in L THEN <<>> ELSE queue[l]]

\* The close has ended, or ecu_response_timeout_s cut it short.
CloseDone(l) ==
    /\ closer[l] = "running"
    /\ closer' = [closer EXCEPT ![l] = "done"]
    /\ leg' = [leg EXCEPT ![l] = "closed"]
    /\ inbox' = [inbox EXCEPT ![l] = <<>>]
    /\ answered' = [answered EXCEPT ![l] = "no"]
    /\ heard' = [heard EXCEPT ![l] = {}]
    /\ UNCHANGED <<pc, exchange, out, cache, reader, read, queue, added, setup, tasks>>

\* ECUConnection.connect returns to connect_owned.
ConnectOk ==
    /\ connect = "running"
    /\ IF Closing
       THEN /\ connect' = "closing"
            /\ StartClose({cur})
            /\ UNCHANGED cache
       ELSE /\ connect' = "ok"
            /\ leg' = [leg EXCEPT ![cur] = "up"]
            /\ cache' = [cache EXCEPT ![tgt] = cur]
            /\ UNCHANGED <<closer, queue>>
    /\ UNCHANGED <<pc, exchange, out, reader, read, ecu, retire, cleanup>>

\* connect() failed or was cancelled, and has closed what it had opened.
ConnectFails ==
    /\ \/ connect = "running" /\ connect' = "failed"
       \/ connect = "cancelled" /\ connect' = "aborted"
    /\ leg' = [leg EXCEPT ![cur] = "closed"]
    /\ UNCHANGED <<pc, exchange, out, cache, reader, read, closer, queue, ecu,
                   retire, cleanup>>

\* connect_owned has closed the leg it may no longer hand over; the cleanup
\* may have cancelled it meanwhile.
ConnectClosed ==
    /\ connect = "closing"
    /\ closer[cur] = "done"
    /\ connect' \in {"late", "aborted"}
    /\ UNCHANGED <<pc, exchange, out, legs, ecu, retire, cleanup>>

\* _retire_ecu_leg: detach the leg, cancel its read, start its close.
RetireBegins ==
    /\ retire = "begin"
    /\ retire' = "closing"
    /\ cache' = [cache EXCEPT ![tgt] = IF @ = cur THEN NoLeg ELSE @]
    /\ reader' = [reader EXCEPT ![tgt] = IF @ = cur THEN NoLeg ELSE @]
    /\ StartClose({cur})
    /\ UNCHANGED <<pc, exchange, out, read, ecu, connect, cleanup>>

\* The leg is closed and the pump goes on.
RetireEnds ==
    /\ retire = "closing"
    /\ closer[cur] = "done"
    /\ IF raising THEN Exit
       ELSE IF pc = "retireOld" THEN Connect ELSE Return
    /\ UNCHANGED <<req, tgt, accepted, pending, late, settled, frame, out,
                   cache, reader, read, queue, ecu>>

\* recv() of the leg takes a frame from the queue or meets the terminal mark.
ReadReady(t) ==
    LET l == reader[t]
    IN /\ l # NoLeg
       /\ read.state = Waiting
       /\ \/ /\ queue[l] # <<>>
             /\ read' = [state |-> "frame", frame |-> Head(queue[l])]
             /\ queue' = [queue EXCEPT ![l] = Tail(@)]
          \/ /\ queue[l] = <<>>
             /\ leg[l] \in {"eof", "closed"}
             /\ read' = [state |-> Failed, frame |-> NoFrame]
             /\ UNCHANGED queue
       /\ UNCHANGED <<pc, exchange, out, cache, reader, leg, closer, ecu, tasks>>

-----------------------------------------------------------------------------
(* External: the ECU, behind the leg's background reader.                  *)

\* It acknowledges or refuses a request, or skips the ACK; it may announce
\* that the answer is pending, and answers.
EcuAnswers(l) ==
    /\ leg[l] = "up"
    /\ inbox[l] # <<>>
    /\ \E k \in CASE answered[l] = "no" -> {"ack", "nack", "pend", "final"}
                  [] answered[l] = "acked" -> {"pend", "final"}
                  [] answered[l] = "pended" -> {"final"} :
          /\ queue' = [queue EXCEPT ![l] =
                          Append(@, [kind |-> k, n |-> Head(inbox[l])])]
          /\ answered' = [answered EXCEPT ![l] =
                CASE k = "ack" -> "acked" [] k = "pend" -> "pended"
                  [] OTHER -> "no"]
          /\ inbox' = IF k \in {"ack", "pend"} THEN inbox
                      ELSE [inbox EXCEPT ![l] = Tail(@)]
    /\ UNCHANGED <<pc, exchange, out, cache, reader, read, leg, closer, heard,
                   added, setup, tasks>>

\* It suppresses the positive response to a request it acknowledged.
EcuSuppresses(l) ==
    /\ leg[l] = "up"
    /\ answered[l] = "acked"
    /\ answered' = [answered EXCEPT ![l] = "no"]
    /\ inbox' = [inbox EXCEPT ![l] = Tail(@)]
    /\ UNCHANGED <<pc, exchange, out, legs, heard, added, setup, tasks>>

\* Such an ECU drops a request and sends, in place of an answer, a
\* frame of any kind that answers none of this session's requests.
EcuStray(l) ==
    /\ setup.strays
    /\ leg[l] = "up"
    /\ inbox[l] # <<>>
    /\ \E k \in Kinds :
          queue' = [queue EXCEPT ![l] = Append(@, [kind |-> k, n |-> 0])]
    /\ answered' = [answered EXCEPT ![l] = "no"]
    /\ inbox' = [inbox EXCEPT ![l] = Tail(@)]
    /\ UNCHANGED <<pc, exchange, out, cache, reader, read, leg, closer, heard,
                   added, setup, tasks>>

\* It sends a frame beyond the answers it owes, whenever it likes: a further
\* diagnostic message for a request it received, answered or not (ctx.send of
\* a plugin of the virtual ECU).
EcuExtra(l) ==
    /\ leg[l] = "up"
    /\ added < setup.extras
    /\ added' = added + 1
    /\ \E f \in [kind : {"pend", "final"}, n : heard[l]] :
          queue' = [queue EXCEPT ![l] = Append(@, f)]
    /\ UNCHANGED <<pc, exchange, out, cache, reader, read, leg, closer,
                   inbox, answered, heard, setup, tasks>>

\* Its connection ends: _background_reader marks the leg terminal.
EcuEof(l) ==
    /\ leg[l] = "up"
    /\ leg' = [leg EXCEPT ![l] = "eof"]
    /\ UNCHANGED <<pc, exchange, out, cache, reader, read, closer, queue, ecu,
                   tasks>>

-----------------------------------------------------------------------------
(* _schedule_cleanup and _cleanup_impl.                                    *)

\* A timer or an eviction closes the session.
CloseSession ==
    /\ cleanup = "no"
    /\ cleanup' = "start"
    /\ UNCHANGED <<pc, exchange, out, legs, ecu, connect, retire>>

\* Timers are down; the connect task is cancelled.
CleanupConnects ==
    /\ cleanup = "start"
    /\ cleanup' = "connects"
    /\ connect' = IF connect = "running" THEN "cancelled" ELSE connect
    /\ UNCHANGED <<pc, exchange, out, legs, ecu, retire>>

\* Mutant: the cancelled connect task is not awaited.
CleanupReadsAtOnce ==
    /\ cleanup = "connects"
    /\ cleanup' = "reads"
    /\ read' = IF read.state = Waiting /\ \E t \in Targets : reader[t] # NoLeg
               THEN [read EXCEPT !.state = Cancelled] ELSE read
    /\ UNCHANGED <<pc, exchange, out, cache, reader, leg, closer, queue, ecu,
                   connect, retire>>

\* Mutant: the cleanup waits for the run task.
CleanupReadsAfterRun ==
    /\ cleanup = "connects"
    /\ pc = "stopping"
    /\ connect \notin {"running", "cancelled", "closing"}
    /\ cleanup' = "reads"
    /\ read' = IF read.state = Waiting /\ \E t \in Targets : reader[t] # NoLeg
               THEN [read EXCEPT !.state = Cancelled] ELSE read
    /\ UNCHANGED <<pc, exchange, out, cache, reader, leg, closer, queue, ecu,
                   connect, retire>>

\* It has ended; the read tasks are cancelled.
CleanupReads ==
    /\ cleanup = "connects"
    /\ connect \notin {"running", "cancelled", "closing"}
    /\ cleanup' = "reads"
    /\ read' = IF read.state = Waiting /\ \E t \in Targets : reader[t] # NoLeg
               THEN [read EXCEPT !.state = Cancelled] ELSE read
    /\ UNCHANGED <<pc, exchange, out, cache, reader, leg, closer, queue, ecu,
                   connect, retire>>

\* They have ended; every cached leg is closed.
CleanupCloses ==
    /\ cleanup = "reads"
    /\ cleanup' = "closes"
    /\ reader' = [t \in Targets |-> NoLeg]
    /\ cache' = [t \in Targets |-> NoLeg]
    /\ StartClose({cache[t] : t \in Targets} \ {NoLeg})
    /\ UNCHANGED <<pc, exchange, out, read, ecu, connect, retire>>

\* The legs are closed; a retirement that is under way is waited for.
CleanupRetires ==
    /\ \/ /\ cleanup = "closes"
          /\ \A l \in Legs : closer[l] # "running"
          /\ cleanup' = IF retire = "no" THEN "last" ELSE "retires"
       \/ /\ cleanup = "retires"
          /\ retire = "no"
          /\ cleanup' = "last"
    /\ UNCHANGED <<pc, exchange, out, legs, ecu, connect, retire>>

\* All closes have ended and the tester's writer is closed.
CleanupDone ==
    /\ cleanup = "last"
    /\ \A l \in Legs : closer[l] # "running"
    /\ cleanup' = "done"
    /\ UNCHANGED <<pc, exchange, out, legs, ecu, connect, retire>>

\* run() has joined the cleanup task.
Finish ==
    /\ pc = "stopping"
    /\ cleanup = "done"
    /\ pc' = "finished"
    /\ UNCHANGED <<exchange, out, legs, ecu, tasks>>

Terminated == pc = "finished" /\ UNCHANGED vars

-----------------------------------------------------------------------------
PumpStep ==
    \/ ReplayStarts \/ MiddlewareDone \/ Connected \/ Unconnected
    \/ InjectDone \/ SendDone \/ SendFails
    \/ RecvFrame \/ RecvFails \/ RecvTimeout
    \/ RelayDone \/ RelayFails \/ NackDone \/ NackFails

LegStep ==
    \/ ConnectOk \/ ConnectFails \/ ConnectClosed
    \/ RetireBegins \/ RetireEnds
    \/ \E l \in Legs : CloseDone(l)
    \/ \E t \in Targets : ReadReady(t)

CleanupStep ==
    \/ CleanupConnects \/ CleanupReads \/ CleanupCloses \/ CleanupRetires
    \/ CleanupDone \/ Finish

EcuStep(l) ==
    EcuAnswers(l) \/ EcuSuppresses(l) \/ EcuStray(l) \/ EcuExtra(l) \/ EcuEof(l)

Next ==
    \/ \E t \in Targets : Request(t)
    \/ ReadEof \/ PumpCancelled \/ CloseSession \/ DeadlinePasses
    \/ PumpStep \/ LegStep \/ CleanupStep
    \/ \E l \in Legs : EcuStep(l)
    \/ Terminated

Spec == Init /\ [][Next]_vars

-----------------------------------------------------------------------------
(* Fairness: every ready task runs and every timeout fires.  Closing a leg *)
(* and setting one up are bounded by timeouts.  The awaits of the pump end *)
(* only when the tester reads, or its connection breaks.                   *)

LoopFairness ==
    /\ WF_vars(ConnectOk \/ ConnectFails)
    /\ WF_vars(ConnectClosed)
    /\ WF_vars(RetireBegins)
    /\ WF_vars(RetireEnds)
    /\ \A l \in Legs : WF_vars(CloseDone(l))
    /\ WF_vars(CleanupStep)

PumpFairness ==
    /\ WF_vars(PumpStep)
    /\ WF_vars(DeadlinePasses)
    /\ WF_vars(Closing /\ ReadEof)

LoopSpec == Spec /\ LoopFairness

-----------------------------------------------------------------------------
(* Safety.                                                                 *)

IsUds(f) == f.kind \in {"pend", "final"}
IsVerdict(f) == f.kind \in {"ack", "nack", "local"}

\* The tester is never given the answer to a request whose exchange did not
\* complete (it timed out, failed, was cut off or refused) in place of the
\* answer to its own, although every request has the same SID and late answers
\* look right: "even a late response with the same SID is unsafe"
\* (session.py:823).  What an ECU adds to a request that completed may come,
\* and without response matching a frame of another service (n = 0).
NoLateAnswer ==
    \A i \in DOMAIN out :
        IsUds(out[i]) => \/ out[i].n \in settled \cup {req}
                         \/ ~Strict /\ out[i].n = 0

\* The stronger statement that the answer is one to the tester's own request;
\* it needs an ECU that answers each request once (no extras).
NoStaleResponse ==
    \A i \in DOMAIN out :
        IsUds(out[i]) => out[i].n = req \/ (~Strict /\ out[i].n = 0)

\* The argument for NoLateAnswer: while no exchange is under way, a leg that
\* can be used again has nothing to say about a request that is not settled,
\* because an exchange of uncertain outcome retires its leg.
IdleLegsSettled ==
    \A l \in Legs :
        leg[l] = "up" /\ pc \in {"idle", "middleware", "connecting", "sending"} =>
            /\ heard[l] \subseteq settled
            /\ \A i \in DOMAIN queue[l] : queue[l][i].n \in settled \cup {0}

\* Once the tester has seen the ECU take the request, no Negative ACK follows
\* from here, whatever fails later.
NoErrorAfterAccept ==
    \A i, j \in DOMAIN out :
        i < j /\ out[j].kind = "local" => out[i].kind \notin {"ack", "pend", "final"}

\* A request gets one verdict at most: the ECU's ACK or NACK, or the
\* EdgeNode's own Negative ACK, which never contradicts an ECU that took the
\* request.  Verdicts on other requests are not counted.
SingleVerdict ==
    /\ inject = "no" =>
          Cardinality({i \in DOMAIN out : IsVerdict(out[i]) /\ out[i].n = req}) <= 1
    /\ NoErrorAfterAccept

\* A read task belongs to the exchange in progress and to its leg, so
\* _recv_ecu_frame never meets one of "a different connection".
ReadTaskOwned ==
    \A t \in Targets :
        reader[t] # NoLeg =>
            /\ t = tgt /\ reader[t] = cur
            /\ pc \in {"receiving", "nacking", "retiring"}

\* When the teardown is over nothing it owned is left, although the pump may
\* still be suspended: every leg is closed, also one whose setup was under
\* way, and none is cached.
CleanupReleasesLegs ==
    cleanup = "done" =>
        /\ \A l \in Legs : leg[l] \in {"fresh", "closed"}
        /\ \A t \in Targets : cache[t] = NoLeg /\ reader[t] = NoLeg
        /\ connect \notin {"running", "cancelled", "closing"}

\* A leg is used only while it is cached for the request's target, so the
\* teardown finds it.
UsedLegCached ==
    pc \in {"sending", "receiving", "relaying", "injecting"}
        /\ cleanup \in {"no", "start", "connects", "reads"} => cache[tgt] = cur

\* The bookkeeping of the legs: every leg in use and every outstanding read can
\* be found through the session (_ecu_conns, _ecu_read_owners), and a leg that
\* is kept owes no answer to a request given up (_retire_ecu_connection).
LegsInv == TypeOK /\ ReadTaskOwned /\ UsedLegCached /\ IdleLegsSettled

-----------------------------------------------------------------------------
(* Why they hold: the parts of three inductive invariants.                 *)

\* The handler holds a leg that was handed to it.
Holding ==
    \/ pc \in {"injecting", "sending", "receiving", "relaying", "retiring",
               "retireOld"}
    \/ pc = "nacking" /\ cur # NoLeg

\* The pump awaits the setup or the retirement of its leg exactly while that
\* task exists.
PumpInv ==
    /\ pc \in {"idle", "middleware", "stopping", "finished"} => cur = NoLeg
    /\ Holding \/ pc \in {"connecting", "unconnect"} => cur \in Legs
    /\ connect # "no" <=> pc \in {"connecting", "unconnect"}
    /\ retire # "no" <=> pc \in {"retiring", "retireOld"}
    /\ pc \in {"idle", "stopping", "finished"} \/ req # 0

\* The teardown has not taken the legs from the cache yet.
Early == {"no", "start", "connects", "reads"}

\* An open leg is being set up, cached, or being closed.
LegOwned(l) ==
    /\ leg[l] = "setup" => l = cur /\ connect \in {"running", "cancelled"}
    /\ leg[l] \in {"up", "eof"} =>
          closer[l] = "running" \/ \E t \in Targets : cache[t] = l
    /\ closer[l] = "running" => leg[l] = "eof" /\ queue[l] = <<>>
    /\ closer[l] = "done" => leg[l] = "closed"

\* A cached leg is open, is not being closed and is cached once.
CacheInv ==
    \A t \in Targets : cache[t] # NoLeg =>
        /\ leg[cache[t]] \in {"up", "eof"} /\ closer[cache[t]] = "no"
        /\ \A u \in Targets : cache[u] = cache[t] => u = t

\* The leg the pump has in hand.
HandInv ==
    /\ connect \in {"running", "cancelled"} =>
          leg[cur] = "setup" /\ closer[cur] = "no" /\ cache[tgt] = NoLeg
    /\ connect = "closing" => Closing /\ closer[cur] # "no"
    /\ connect = "ok" /\ cleanup \in Early => cache[tgt] = cur
    /\ Holding => leg[cur] \in {"up", "eof"} \/ closer[cur] = "done"
    /\ Holding /\ retire # "closing" /\ cleanup \in Early => cache[tgt] = cur
    /\ retire = "closing" =>
          /\ closer[cur] # "no" /\ cache[tgt] = NoLeg
          /\ \A t \in Targets : reader[t] = NoLeg

\* What the teardown has dealt with does not come back.
TeardownInv ==
    /\ cleanup \notin {"no", "start", "connects"} =>
          connect \notin {"running", "cancelled", "closing"}
    /\ cleanup \notin Early =>
          \A t \in Targets : cache[t] = NoLeg /\ reader[t] = NoLeg
    /\ cleanup \in {"retires", "last", "done"} =>
          \A l \in Legs : leg[l] \in {"fresh", "closed"}

\* An ECU that has begun to answer has the request.
EcuInv == \A l \in Legs : inbox[l] = <<>> => answered[l] = "no"

\* The life of the legs, with ReplayMiddleware and without it.
LifeInv ==
    /\ TypeOK /\ ReadTaskOwned
    /\ PumpInv /\ (\A l \in Legs : LegOwned(l)) /\ CacheInv /\ HandInv
    /\ TeardownInv /\ EcuInv

\* The leg of the exchange in progress.
Engaged(l) == l = cur /\ pc \in {"receiving", "relaying", "nacking", "retiring"}

\* What a leg can still say concerns requests that are settled, or the one
\* whose exchange is in progress.
LegSettled(l) ==
    /\ leg[l] \in {"fresh", "setup", "closed"} => heard[l] = {} /\ queue[l] = <<>>
    /\ heard[l] \subseteq settled \cup (IF Engaged(l) THEN {req} ELSE {})
    /\ \A i \in DOMAIN inbox[l] : inbox[l][i] \in heard[l]
    /\ \A i \in DOMAIN queue[l] : queue[l][i].n \in heard[l] \cup {0}

Expected(f) == f.n \in settled \cup {0, req}

\* What the pump was handed and what the tester was sent.
FlowInv ==
    /\ pc = "receiving" /\ read.state = "frame" => Expected(read.frame)
    /\ pc = "relaying" => Expected(frame) /\ (IsUds(frame) => Matches(frame))
    /\ req = 0 => out = <<>>
    /\ NoLateAnswer

\* With ReplayMiddleware and without it, whatever the ECU adds.
SettledInv == LifeInv /\ (\A l \in Legs : LegSettled(l)) /\ FlowInv

\* Only the leg of the exchange in progress has something to say: for an ECU
\* that adds nothing to its answers.
Silent(l) == queue[l] = <<>> /\ inbox[l] = <<>> /\ answered[l] = "no"
QuietInv ==
    \A l \in Legs :
        /\ leg[l] \in {"fresh", "setup", "closed"} => Silent(l)
        /\ leg[l] = "up" /\ ~Engaged(l) => Silent(l)
        /\ Len(inbox[l]) <= 1

\* The verdict on one of this session's requests, and a frame after which the
\* ECU sends nothing more on the request.
Verdict(f) == IsVerdict(f) /\ f.n # 0
IsLast(f) == f.n = 0 \/ f.kind \in {"final", "nack", "other"}

\* The verdict of the ECU is neither due nor under way.
Decided ==
    /\ inbox[cur] = <<>> \/ answered[cur] # "no"
    /\ \A i \in DOMAIN queue[cur] : ~Verdict(queue[cur][i])

\* f came from the ECU of the leg, before what the leg has queued.
Arrived(f) ==
    /\ f.kind # "local" /\ f.n \in {0, req}
    /\ IsLast(f) => queue[cur] = <<>> /\ inbox[cur] = <<>>
    /\ Verdict(f) => Decided

\* The answers to the request in progress.
StreamInv ==
    pc \in {"receiving", "relaying"} =>
        /\ \A i \in DOMAIN inbox[cur] : inbox[cur][i] = req
        /\ \A i \in DOMAIN queue[cur] :
              LET f == queue[cur][i]
              IN /\ f.kind # "local" /\ f.n \in {0, req}
                 /\ IsLast(f) => i = Len(queue[cur]) /\ inbox[cur] = <<>>
                 /\ Verdict(f) => inbox[cur] = <<>> \/ answered[cur] # "no"
        /\ \A i, j \in DOMAIN queue[cur] :
              Verdict(queue[cur][i]) /\ Verdict(queue[cur][j]) => i = j
        /\ pc = "receiving" /\ read.state = "frame" => Arrived(read.frame)
        /\ pc = "relaying" =>
              /\ Arrived(frame)
              /\ IsUds(frame) => Matches(frame)
              /\ frame.kind \in {"ack", "pend", "final"} => accepted

\* What the tester was sent so far.
OutInv ==
    /\ pc \in {"middleware", "retireOld", "connecting", "unconnect", "sending",
               "nacking"} => Len(out) = 0 /\ ~accepted
    /\ pc \in {"receiving", "relaying"} =>
          \A i \in DOMAIN out :
             /\ out[i].kind \in {"ack", "pend"} /\ accepted
             /\ pc = "relaying" => frame.kind # "ack"
             /\ Verdict(out[i]) =>
                   /\ Decided
                   /\ pc = "receiving" /\ read.state = "frame" => ~Verdict(read.frame)
                   /\ pc = "relaying" => ~Verdict(frame)
    /\ \A i, j \in DOMAIN out : Verdict(out[i]) /\ Verdict(out[j]) => i = j

\* The exchange, without ReplayMiddleware (the answers to the requests that one
\* injects are read by nobody) and for an ECU that answers each request once.
ExchangeInv ==
    /\ inject = "no" /\ pc # "injecting"
    /\ LifeInv /\ QuietInv /\ StreamInv /\ OutInv
    /\ NoStaleResponse /\ NoErrorAfterAccept

-----------------------------------------------------------------------------
(* Liveness.                                                               *)

\* A request does not occupy the session for ever: the budget bounds it even
\* when the ECU keeps announcing a pending answer or says nothing, if the
\* tester reads.
ExchangeEnds ==
    PumpFairness =>
        (pc = "middleware" ~> pc \in {"idle", "stopping", "finished"})

\* The teardown ends although the tester does not read and the ECU is silent.
CleanupEnds == cleanup = "start" ~> cleanup = "done"

=============================================================================
