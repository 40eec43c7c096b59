--------------------------- MODULE EdgeActivation ---------------------------
(***************************************************************************)
(* Admission, Routing Activation and teardown of the EdgeNode's tester     *)
(* connections: DoIPSession (doip_edgenode/session.py), SessionRegistry    *)
(* (session_registry.py) and the connection half of DoIPServer             *)
(* (server.py).                                                            *)
(*                                                                         *)
(* Everything runs on one asyncio event loop, so a step of this model is   *)
(* the code between two awaits.  A session is the task that runs           *)
(* _handle_connection: pc[s] is the await at which it is suspended.        *)
(*                                                                         *)
(*   absent     no connection uses this identity                           *)
(*   accepted   the task exists, _handle_connection has not started        *)
(*   idle       _session_loop waits for a frame                            *)
(*   serving    a frame other than a Routing Activation Request is being   *)
(*              handled (status, power mode, alive reply, rejected body,   *)
(*              or a whole ECU exchange, which runs inline)                *)
(*   lockWait   waits for the activation lock of req[s]                    *)
(*   probing    holds it and awaits probe_alive of the present owner       *)
(*   capWait    holds it and waits for the capacity lock                   *)
(*   reclaim    holds both and awaits the probes of _reclaim_capacity      *)
(*   drain      holds both, collects the cancelled probe tasks             *)
(*   unwind     as drain, but an exception is on its way out               *)
(*   respond    registered, sends response 0x10 with the lock held         *)
(*   denying    sends a denial or a NACK and then raises                   *)
(*   stopping   run() joins the cleanup task                               *)
(*   finished   the connection task has ended                              *)
(***************************************************************************)
EXTENDS Integers, FiniteSets

CONSTANTS
    Sessions,        \* identities of tester connections
    Addr,            \* tester logical addresses the configuration accepts
    NoSession,       \* "no DoIPSession" in the registry and in the locks
    NoAddr,          \* tester_logical_addr is None
    MaxConnections   \* SessionRegistry.max_connections

ASSUME ConstantsAssumption ==
    /\ IsFiniteSet(Sessions)
    /\ IsFiniteSet(Addr)
    /\ NoSession \notin Sessions
    /\ NoAddr \notin Addr
    /\ MaxConnections \in Nat \ {0}

VARIABLES
    pc,           \* the await at which each connection task is suspended
    sa,           \* tester_logical_addr; the session is activated iff it is set
    req,          \* source address of the Routing Activation being handled
    cleanup,      \* _cleanup_task: "no" (not _closing), "running" or "done"
    timer,        \* the live inactivity timer of each session
    registry,     \* SessionRegistry._sessions
    openSockets,  \* SessionRegistry._open_sockets
    lock,         \* holder of each activation lock
    capLock,      \* holder of the capacity lock
    probe,        \* probe_alive calls: <<prober, owner>> -> progress
    replied,      \* sessions whose tester's 0x0008 waits to be read
    server        \* DoIPServer: "up", "closing" (stop() ran) or "cancelling"

vars == <<pc, sa, req, cleanup, timer, registry, openSockets, lock, capLock,
          probe, replied, server>>

-----------------------------------------------------------------------------
Pcs == {"absent", "accepted", "idle", "serving", "lockWait", "probing",
        "capWait", "reclaim", "drain", "unwind", "respond", "denying",
        "stopping", "finished"}

\* A probe is queued behind the owner's _alive_probe_lock, then sends its
\* Alive Check Request, then waits; "Set" marks that the event has been set.
\* "alive" and "dead" are results kept by a finished task of _reclaim_capacity.
ProbeStates == {"none", "queued", "sending", "sendingSet", "waiting",
                "waitingSet", "alive", "dead"}
ProbeActive == {"sending", "sendingSet", "waiting", "waitingSet"}

Pairs == Sessions \X Sessions

TypeOK ==
    /\ pc \in [Sessions -> Pcs]
    /\ sa \in [Sessions -> Addr \cup {NoAddr}]
    /\ req \in [Sessions -> Addr \cup {NoAddr}]
    /\ cleanup \in [Sessions -> {"no", "running", "done"}]
    /\ timer \in [Sessions -> {"none", "initial", "general"}]
    /\ registry \in [Addr -> Sessions \cup {NoSession}]
    /\ openSockets \subseteq Sessions
    /\ lock \in [Addr -> Sessions \cup {NoSession}]
    /\ capLock \in Sessions \cup {NoSession}
    /\ probe \in [Pairs -> ProbeStates]
    /\ replied \subseteq Sessions
    /\ server \in {"up", "closing", "cancelling"}

Init ==
    /\ pc = [s \in Sessions |-> "absent"]
    /\ sa = [s \in Sessions |-> NoAddr]
    /\ req = [s \in Sessions |-> NoAddr]
    /\ cleanup = [s \in Sessions |-> "no"]
    /\ timer = [s \in Sessions |-> "none"]
    /\ registry = [a \in Addr |-> NoSession]
    /\ openSockets = {}
    /\ lock = [a \in Addr |-> NoSession]
    /\ capLock = NoSession
    /\ probe = [p \in Pairs |-> "none"]
    /\ replied = {}
    /\ server = "up"

-----------------------------------------------------------------------------
(* The parts of a session's state the handlers consult.                    *)

Activated(s) == sa[s] # NoAddr
Closing(s) == cleanup[s] # "no"
Count(reg) == Cardinality({a \in Addr : reg[a] # NoSession})
Probed(e) == \E c \in Sessions : probe[<<c, e>>] \in ProbeActive

SetEvent(state) ==
    CASE state = "sending" -> "sendingSet"
      [] state = "waiting" -> "waitingSet"
      [] OTHER -> state

-----------------------------------------------------------------------------
(* _schedule_cleanup: the synchronous half of closing a session.           *)

\* Mutant: unregister drops whatever the address maps to.
UnregisterAnyOwner(E) ==
    [a \in Addr |-> IF \E e \in E : sa[e] = a THEN NoSession ELSE registry[a]]

\* SessionRegistry.unregister for the sessions in E: by identity.
Unregister(E) ==
    [a \in Addr |-> IF registry[a] \in E /\ sa[registry[a]] = a
                    THEN NoSession ELSE registry[a]]

\* Mutant: the closed socket keeps its slot in the registry.
CloseTransportKeepsSlot(E, Q) ==
    /\ cleanup' = [s \in Sessions |-> IF s \in E /\ cleanup[s] = "no"
                                      THEN "running" ELSE cleanup[s]]
    /\ timer' = [s \in Sessions |-> IF s \in E THEN "none" ELSE timer[s]]
    /\ openSockets' = openSockets
    /\ probe' = [p \in Pairs |-> IF p[1] \in Q THEN "none"
                                 ELSE IF p[2] \in E THEN SetEvent(probe[p])
                                 ELSE probe[p]]
    /\ replied' = replied \ E

\* _schedule_cleanup and _close_transport_and_registry of the sessions in E,
\* all but the registry; the probe_alive calls of the sessions in Q end.
CloseTransport(E, Q) ==
    /\ cleanup' = [s \in Sessions |-> IF s \in E /\ cleanup[s] = "no"
                                      THEN "running" ELSE cleanup[s]]
    /\ timer' = [s \in Sessions |-> IF s \in E THEN "none" ELSE timer[s]]
    /\ openSockets' = openSockets \ E
    /\ probe' = [p \in Pairs |-> IF p[1] \in Q THEN "none"
                                 ELSE IF p[2] \in E THEN SetEvent(probe[p])
                                 ELSE probe[p]]
    /\ replied' = replied \ E

Close(E, Q) == CloseTransport(E, Q) /\ registry' = Unregister(E)

\* Mutant: the activation lock is not released when the handler raises.
ExitRunKeepsLock(s) ==
    /\ Close({s}, {s})
    /\ pc' = [pc EXCEPT ![s] = "stopping"]
    /\ req' = [req EXCEPT ![s] = NoAddr]
    /\ capLock' = IF capLock = s THEN NoSession ELSE capLock
    /\ UNCHANGED <<sa, server, lock>>

\* An exception, a cancellation or a return leaves run(): the locks are
\* released on the way out and the finally clause starts the cleanup.
ExitRun(s) ==
    /\ Close({s}, {s})
    /\ pc' = [pc EXCEPT ![s] = "stopping"]
    /\ req' = [req EXCEPT ![s] = NoAddr]
    /\ lock' = [a \in Addr |-> IF lock[a] = s THEN NoSession ELSE lock[a]]
    /\ capLock' = IF capLock = s THEN NoSession ELSE capLock
    /\ UNCHANGED <<sa, server>>

-----------------------------------------------------------------------------
(* DoIPServer: accepting, admitting and forgetting connections.            *)

Accept(s) ==
    /\ pc[s] = "absent"
    /\ server = "up"
    /\ pc' = [pc EXCEPT ![s] = "accepted"]
    /\ UNCHANGED <<sa, req, cleanup, timer, registry, openSockets, lock,
                   capLock, probe, replied, server>>

\* SessionRegistry.reserve admits one socket more than can be registered.
Reserve(s) == Cardinality(openSockets) < MaxConnections + 1

\* Mutant: run() does not start the initial inactivity timer.
HandleConnectionUntimed(s) ==
    /\ pc[s] = "accepted"
    /\ pc' = [pc EXCEPT ![s] = IF server = "up" /\ Reserve(s)
                               THEN "idle" ELSE "finished"]
    /\ openSockets' = IF server = "up" /\ Reserve(s)
                      THEN openSockets \cup {s} ELSE openSockets
    /\ UNCHANGED <<sa, req, cleanup, timer, registry, lock, capLock, probe,
                   replied, server>>

\* First step of _handle_connection, up to the first read of run().
HandleConnection(s) ==
    /\ pc[s] = "accepted"
    /\ IF server = "up" /\ Reserve(s)
       THEN /\ openSockets' = openSockets \cup {s}
            /\ timer' = [timer EXCEPT ![s] = "initial"]
            /\ pc' = [pc EXCEPT ![s] = "idle"]
       ELSE /\ pc' = [pc EXCEPT ![s] = "finished"]
            /\ UNCHANGED <<openSockets, timer>>
    /\ UNCHANGED <<sa, req, cleanup, registry, lock, capLock, probe, replied,
                   server>>

\* _cleanup_impl has ended: timers, ECU legs and the writer are closed.
CleanupDone(s) ==
    /\ cleanup[s] = "running"
    /\ cleanup' = [cleanup EXCEPT ![s] = "done"]
    /\ UNCHANGED <<pc, sa, req, timer, registry, openSockets, lock, capLock,
                   probe, replied, server>>

\* _cleanup has joined the cleanup task; _handle_connection returns.
Finish(s) ==
    /\ pc[s] = "stopping"
    /\ cleanup[s] = "done"
    /\ pc' = [pc EXCEPT ![s] = "finished"]
    /\ UNCHANGED <<sa, req, cleanup, timer, registry, openSockets, lock,
                   capLock, probe, replied, server>>

\* The identity of an ended connection may be used by a new one once no
\* probe refers to the old session object.
Forget(s) ==
    /\ pc[s] = "finished"
    /\ server = "up"
    /\ \A c \in Sessions : probe[<<c, s>>] = "none"
    /\ pc' = [pc EXCEPT ![s] = "absent"]
    /\ sa' = [sa EXCEPT ![s] = NoAddr]
    /\ cleanup' = [cleanup EXCEPT ![s] = "no"]
    /\ UNCHANGED <<req, timer, registry, openSockets, lock, capLock, probe,
                   replied, server>>

\* stop(): every accepted writer is closed and its slot released at once ...
Stop ==
    /\ server = "up"
    /\ server' = "closing"
    /\ openSockets' = {}
    /\ UNCHANGED <<pc, sa, req, cleanup, timer, registry, lock, capLock,
                   probe, replied>>

\* ... and, when the listeners are down, _cleanup cancels the tasks.
StopCancel ==
    /\ server = "closing"
    /\ server' = "cancelling"
    /\ UNCHANGED <<pc, sa, req, cleanup, timer, registry, openSockets, lock,
                   capLock, probe, replied>>

\* Mutant: a task that sends a denial is left to its drain.
CancelledNotDenying(s) ==
    /\ server = "cancelling"
    /\ \/ /\ pc[s] = "accepted"
          /\ pc' = [pc EXCEPT ![s] = "finished"]
          /\ UNCHANGED <<sa, req, cleanup, timer, registry, openSockets, lock,
                         capLock, probe, replied, server>>
       \/ /\ pc[s] \in {"reclaim", "drain"}
          /\ pc' = [pc EXCEPT ![s] = "unwind"]
          /\ Close({}, {s})
          /\ UNCHANGED <<sa, req, lock, capLock, server>>
       \/ /\ pc[s] \in {"idle", "serving", "lockWait", "probing", "capWait",
                        "respond"}
          /\ ExitRun(s)

\* The cancellation reaches a connection task at its await.  The collection
\* of the probe tasks cannot be interrupted, only made to raise afterwards.
Cancelled(s) ==
    /\ server = "cancelling"
    /\ \/ /\ pc[s] = "accepted"
          /\ pc' = [pc EXCEPT ![s] = "finished"]
          /\ UNCHANGED <<sa, req, cleanup, timer, registry, openSockets, lock,
                         capLock, probe, replied, server>>
       \/ /\ pc[s] \in {"reclaim", "drain"}
          /\ pc' = [pc EXCEPT ![s] = "unwind"]
          /\ Close({}, {s})
          /\ UNCHANGED <<sa, req, lock, capLock, server>>
       \/ /\ pc[s] \in {"idle", "serving", "lockWait", "probing", "capWait",
                        "respond", "denying"}
          /\ ExitRun(s)

-----------------------------------------------------------------------------
(* _session_loop: frames other than an accepted Routing Activation.        *)

\* Mutant: the transport of a closing session is left open.
ReadEofPeerOnly(s) == pc[s] = "idle" /\ ~Closing(s) /\ ExitRun(s)

\* The stream ends: the peer left, or this side closed the transport.
ReadEof(s) == pc[s] = "idle" /\ ExitRun(s)

\* A frame that is answered and keeps the session: entity status, power
\* mode, a diagnostic exchange, an unsupported type whose body is discarded.
ReadServed(s) ==
    /\ pc[s] = "idle"
    /\ ~Closing(s)
    /\ pc' = [pc EXCEPT ![s] = "serving"]
    /\ UNCHANGED <<sa, req, cleanup, timer, registry, openSockets, lock,
                   capLock, probe, replied, server>>

\* The handler has returned, or it raised (send failed, discard timed out).
ServeDone(s) ==
    /\ pc[s] = "serving"
    /\ \/ /\ ~Closing(s)
          /\ pc' = [pc EXCEPT ![s] = "idle"]
          /\ UNCHANGED <<sa, req, cleanup, timer, registry, openSockets, lock,
                         capLock, probe, replied, server>>
       \/ ExitRun(s)

\* A frame that is refused and ends the session: bad header or length, a
\* diagnostic message before activation or with another source address, and
\* a Routing Activation Request refused before its lock is taken.
ReadRefused(s) ==
    /\ pc[s] = "idle"
    /\ ~Closing(s)
    /\ pc' = [pc EXCEPT ![s] = "denying"]
    /\ \E t \in {timer[s], IF timer[s] = "initial" THEN "none" ELSE timer[s]} :
          timer' = [timer EXCEPT ![s] = t]
    /\ UNCHANGED <<sa, req, cleanup, registry, openSockets, lock, capLock,
                   probe, replied, server>>

\* The refusal is sent, or its send fails; then DoIPProtocolError ends run().
DenyDone(s) == pc[s] = "denying" /\ ExitRun(s)

\* The tester of e answers an Alive Check Request it has received.
TesterAlive(e) ==
    /\ Probed(e)
    /\ ~Closing(e)
    /\ replied' = replied \cup {e}
    /\ UNCHANGED <<pc, sa, req, cleanup, timer, registry, openSockets, lock,
                   capLock, probe, server>>

\* _handle_alive_check_response sets the event of a pending probe.
ReadAlive(e) ==
    /\ pc[e] = "idle"
    /\ ~Closing(e)
    /\ e \in replied
    /\ replied' = replied \ {e}
    /\ probe' = [p \in Pairs |-> IF p[2] = e /\ Activated(e)
                                 THEN SetEvent(probe[p]) ELSE probe[p]]
    /\ UNCHANGED <<pc, sa, req, cleanup, timer, registry, openSockets, lock,
                   capLock, server>>

\* _initial_inactivity_timeout or _general_inactivity_timeout expires.
TimerFire(s) ==
    /\ timer[s] # "none"
    /\ Close({s}, {})
    /\ UNCHANGED <<pc, sa, req, lock, capLock, server>>

-----------------------------------------------------------------------------
(* Routing Activation.                                                     *)

\* A request with an accepted address and type reaches activation_lock; an
\* activated session may only repeat its own address.
ReadActivation(s, a) ==
    /\ pc[s] = "idle"
    /\ ~Closing(s)
    /\ Activated(s) => sa[s] = a
    /\ pc' = [pc EXCEPT ![s] = "lockWait"]
    /\ req' = [req EXCEPT ![s] = a]
    /\ timer' = [timer EXCEPT ![s] = IF @ = "initial" THEN "none" ELSE @]
    /\ UNCHANGED <<sa, cleanup, registry, openSockets, lock, capLock, probe,
                   replied, server>>

\* The tail of _activate_with_conflict_check: c takes its address after the
\* sessions in E were evicted, and sends response 0x10.
Commit(c, E) ==
    /\ sa' = [sa EXCEPT ![c] = req[c]]
    /\ registry' = [Unregister(E) EXCEPT ![req[c]] = c]
    /\ CloseTransport(E, {c})
    /\ pc' = [pc EXCEPT ![c] = "respond"]
    /\ UNCHANGED <<req, server>>

\* Mutant: the capacity test admits one session too many.
AdmitOneMore(c, E) ==
    IF Activated(c) \/ Count(Unregister(E)) <= MaxConnections
    THEN Commit(c, E)
    ELSE /\ Close(E, {c})
         /\ pc' = [pc EXCEPT ![c] = "capWait"]
         /\ UNCHANGED <<sa, req, server>>

\* No other session owns the address: commit, or take the full-capacity
\* branch.  A session that is already registered needs no further slot.
Admit(c, E) ==
    IF Activated(c) \/ Count(Unregister(E)) < MaxConnections
    THEN Commit(c, E)
    ELSE /\ Close(E, {c})
         /\ pc' = [pc EXCEPT ![c] = "capWait"]
         /\ UNCHANGED <<sa, req, server>>

\* One pass of the conflict loop up to its await.
ConflictLookup(c) ==
    LET owner == registry[req[c]]
    IN IF owner \in {NoSession, c}
       THEN Admit(c, {})
       ELSE /\ pc' = [pc EXCEPT ![c] = "probing"]
            /\ probe' = [p \in Pairs |-> IF p[1] # c THEN probe[p]
                                         ELSE IF p[2] = owner THEN "queued"
                                         ELSE "none"]
            /\ UNCHANGED <<sa, req, cleanup, timer, registry, openSockets,
                           replied, server>>

\* Mutant: activations of one address are not serialised.
LockGrantedShared(c) ==
    /\ pc[c] = "lockWait"
    /\ IF Closing(c)
       THEN ExitRun(c)
       ELSE /\ lock' = [lock EXCEPT ![req[c]] = c]
            /\ ConflictLookup(c)
            /\ UNCHANGED capLock

\* SessionRegistry.activation_lock is acquired.
LockGranted(c) ==
    /\ pc[c] = "lockWait"
    /\ lock[req[c]] = NoSession
    /\ IF Closing(c)
       THEN ExitRun(c)
       ELSE /\ lock' = [lock EXCEPT ![req[c]] = c]
            /\ ConflictLookup(c)
            /\ UNCHANGED capLock

\* probe_alive(e) returns to c.  The conflict loop uses the result within the
\* same step; a task of _reclaim_capacity keeps it.
Decide(c, e, alive) ==
    IF Closing(c) THEN ExitRun(c)
    ELSE /\ UNCHANGED <<lock, capLock>>
         /\ IF registry[req[c]] # e THEN ConflictLookup(c)
            ELSE IF alive
            THEN /\ pc' = [pc EXCEPT ![c] = "denying"]
                 /\ Close({}, {c})
                 /\ UNCHANGED <<sa, req, server>>
            ELSE Admit(c, {e})

ProbeReturns(c, e, alive) ==
    \/ pc[c] = "probing" /\ Decide(c, e, alive)
    \/ /\ pc[c] = "reclaim"
       /\ probe' = [probe EXCEPT ![<<c, e>>] = IF alive THEN "alive" ELSE "dead"]
       /\ UNCHANGED <<pc, sa, req, cleanup, timer, registry, openSockets,
                      lock, capLock, replied, server>>

SetProbe(c, e, state) ==
    /\ probe' = [probe EXCEPT ![<<c, e>>] = state]
    /\ UNCHANGED <<pc, sa, req, cleanup, timer, registry, openSockets, lock,
                   capLock, replied, server>>

\* probe_alive acquires _alive_probe_lock and starts _probe_alive_once.
ProbeStart(c, e) ==
    /\ probe[<<c, e>>] = "queued"
    /\ ~Probed(e)
    /\ IF Closing(e) \/ ~Activated(e)
       THEN ProbeReturns(c, e, FALSE)
       ELSE SetProbe(c, e, "sending")

\* The drain of the Alive Check Request returns ...
ProbeSent(c, e) ==
    \/ probe[<<c, e>>] = "sending" /\ SetProbe(c, e, "waiting")
    \/ probe[<<c, e>>] = "sendingSet" /\ SetProbe(c, e, "waitingSet")

\* ... or raises, which _probe_alive_once turns into "not alive".
ProbeSendFails(c, e) ==
    /\ probe[<<c, e>>] \in {"sending", "sendingSet"}
    /\ ProbeReturns(c, e, FALSE)

\* Mutant: the closing of the owner is not told from its tester's reply, and
\* the other way round.
ProbeAnsweredInverted(c, e) ==
    /\ probe[<<c, e>>] = "waitingSet"
    /\ ProbeReturns(c, e, Closing(e))

\* The event is set: by the tester's reply, or by the closing of e.
ProbeAnswered(c, e) ==
    /\ probe[<<c, e>>] = "waitingSet"
    /\ ProbeReturns(c, e, ~Closing(e))

\* _ALIVE_PROBE_TIMEOUT_S passes.
ProbeTimeout(c, e) ==
    /\ probe[<<c, e>>] = "waiting"
    /\ ProbeReturns(c, e, FALSE)

\* _reclaim_capacity starts under the capacity lock: the snapshot of the
\* registered sessions is probed, one task each.
CapacityLockGranted(c) ==
    /\ pc[c] = "capWait"
    /\ capLock = NoSession
    /\ IF Closing(c) THEN ExitRun(c)
       ELSE IF Count(registry) < MaxConnections
       THEN Commit(c, {}) /\ UNCHANGED <<lock, capLock>>
       ELSE /\ capLock' = c
            /\ pc' = [pc EXCEPT ![c] = "reclaim"]
            /\ probe' = [p \in Pairs |->
                           IF p[1] # c THEN probe[p]
                           ELSE IF \E a \in Addr : registry[a] = p[2]
                           THEN "queued" ELSE "none"]
            /\ UNCHANGED <<sa, req, cleanup, timer, registry, openSockets,
                           lock, replied, server>>

\* asyncio.wait returns because all probes ended or its 2 s are over.  Only
\* owners that are known dead and still registered are evicted.
ReclaimWake(c) ==
    LET dead == {e \in Sessions : /\ probe[<<c, e>>] = "dead"
                                  /\ sa[e] # NoAddr
                                  /\ registry[sa[e]] = e}
    IN /\ pc[c] = "reclaim"
       /\ IF Closing(c)
          THEN /\ pc' = [pc EXCEPT ![c] = "unwind"]
               /\ Close({}, {c})
          ELSE /\ pc' = [pc EXCEPT ![c] = "drain"]
               /\ Close(dead, {c})
       /\ UNCHANGED <<sa, req, lock, capLock, server>>

\* The gather of the finally clause returns; the capacity lock is released,
\* the limit is tested again, and c commits or is denied with 0x01.
ReclaimDone(c) ==
    /\ pc[c] = "drain"
    /\ IF Closing(c) THEN ExitRun(c)
       ELSE /\ capLock' = NoSession
            /\ UNCHANGED lock
            /\ IF Count(registry) >= MaxConnections
               THEN /\ pc' = [pc EXCEPT ![c] = "denying"]
                    /\ Close({}, {c})
                    /\ UNCHANGED <<sa, req, server>>
               ELSE Commit(c, {})

Unwound(c) == pc[c] = "unwind" /\ ExitRun(c)

\* Mutant: activation does not start the general inactivity timer.
RespondDoneUntimed(c) ==
    /\ pc[c] = "respond"
    /\ IF Closing(c) THEN ExitRun(c)
       ELSE /\ lock' = [lock EXCEPT ![req[c]] = NoSession]
            /\ pc' = [pc EXCEPT ![c] = "idle"]
            /\ req' = [req EXCEPT ![c] = NoAddr]
            /\ UNCHANGED <<sa, cleanup, timer, registry, openSockets, capLock,
                           probe, replied, server>>

\* Response 0x10 is out: the general timer starts and the lock is released.
RespondDone(c) ==
    /\ pc[c] = "respond"
    /\ IF Closing(c) THEN ExitRun(c)
       ELSE /\ timer' = [timer EXCEPT ![c] = "general"]
            /\ lock' = [lock EXCEPT ![req[c]] = NoSession]
            /\ pc' = [pc EXCEPT ![c] = "idle"]
            /\ req' = [req EXCEPT ![c] = NoAddr]
            /\ UNCHANGED <<sa, cleanup, registry, openSockets, capLock, probe,
                           replied, server>>

RespondFails(c) == pc[c] = "respond" /\ ExitRun(c)

-----------------------------------------------------------------------------
\* The server has stopped and every connection task is gone.
Terminated ==
    /\ server = "cancelling"
    /\ \A s \in Sessions : pc[s] \in {"absent", "finished"}
    /\ UNCHANGED vars

SessionStep(s) ==
    \/ Accept(s) \/ HandleConnection(s) \/ CleanupDone(s) \/ Finish(s)
    \/ Forget(s) \/ Cancelled(s)
    \/ ReadEof(s) \/ ReadServed(s) \/ ServeDone(s) \/ ReadRefused(s)
    \/ DenyDone(s) \/ TesterAlive(s) \/ ReadAlive(s) \/ TimerFire(s)
    \/ \E a \in Addr : ReadActivation(s, a)
    \/ LockGranted(s) \/ CapacityLockGranted(s) \/ ReclaimWake(s)
    \/ ReclaimDone(s) \/ Unwound(s) \/ RespondDone(s) \/ RespondFails(s)

ProbeStep(c, e) ==
    \/ ProbeStart(c, e) \/ ProbeSent(c, e) \/ ProbeSendFails(c, e)
    \/ ProbeAnswered(c, e) \/ ProbeTimeout(c, e)

Next ==
    \/ Stop \/ StopCancel \/ Terminated
    \/ \E s \in Sessions : SessionStep(s)
    \/ \E c, e \in Sessions : ProbeStep(c, e)

Spec == Init /\ [][Next]_vars

-----------------------------------------------------------------------------
(* Fairness.  asyncio runs every ready task, asyncio.Lock is first-in      *)
(* first-out (hence strong fairness of a grant), and every timeout fires.  *)
(* What the program cannot promise is that a tester reads: the steps that  *)
(* end a drain() are fair only under TestersRead, which a property that    *)
(* needs it states as its hypothesis.  EdgeServer adds the server's tasks. *)

\* Steps of a connection task whose awaits end without the tester.
PumpStep(s) ==
    \/ HandleConnection(s) \/ Finish(s) \/ ReclaimWake(s) \/ ReclaimDone(s)
    \/ Unwound(s) \/ CapacityLockGranted(s)

\* Steps that end when the tester reads, or its connection breaks.
DrainStep(s) ==
    \/ ServeDone(s) \/ DenyDone(s) \/ RespondDone(s) \/ RespondFails(s)

LoopFairness ==
    /\ \A s \in Sessions :
          /\ WF_vars(PumpStep(s))
          /\ SF_vars(LockGranted(s))
          /\ WF_vars(CleanupDone(s))
          /\ WF_vars(Cancelled(s))
          /\ WF_vars(timer[s] = "initial" /\ TimerFire(s))
    /\ \A c, e \in Sessions :
          WF_vars(ProbeStart(c, e) \/ ProbeAnswered(c, e) \/ ProbeTimeout(c, e))

DrainFairness ==
    \A s \in Sessions : WF_vars(DrainStep(s))

\* A closed transport reports the end of its stream once it is flushed.
FlushFairness ==
    /\ \A s \in Sessions :
          WF_vars((Closing(s) \/ server # "up") /\ ReadEof(s))
    /\ \A c, e \in Sessions : WF_vars(ProbeSent(c, e))

\* Every tester reads, or its connection breaks.
TestersRead == DrainFairness /\ FlushFairness

-----------------------------------------------------------------------------
(* Safety.                                                                 *)

\* The registry and the sessions agree: an activated session that is not
\* closing is the one its address maps to, and nothing else is registered.
\* So an address has at most one live session, whatever evictions, timers and
\* teardowns overlap (register, unregister, _close_transport_and_registry).
RegistryExact ==
    /\ \A s \in Sessions :
          Activated(s) /\ ~Closing(s) => registry[sa[s]] = s
    /\ \A a \in Addr :
          registry[a] # NoSession =>
             sa[registry[a]] = a /\ ~Closing(registry[a])

\* Why RegistryExact holds: the session that holds an activation lock is the
\* only one that may register the address, so what it found free stays free
\* across the awaits for the capacity lock and for the capacity probes.
HoldsLock == {"probing", "capWait", "reclaim", "drain", "unwind", "respond"}
LockInv ==
    \A s \in Sessions :
        /\ pc[s] \in HoldsLock \cup {"lockWait"} =>
              req[s] \in Addr /\ (Activated(s) => sa[s] = req[s])
        /\ pc[s] \in HoldsLock => lock[req[s]] = s
        /\ pc[s] \in {"capWait", "reclaim", "drain"} =>
              ~Activated(s) /\ registry[req[s]] = NoSession
        /\ pc[s] = "respond" => Activated(s)

\* The phases of a connection, the progress of its cleanup and its timer; a
\* session never probes itself.
PhaseInv ==
    \A s \in Sessions :
        /\ pc[s] \in {"absent", "accepted"} => ~Activated(s) /\ ~Closing(s)
        /\ pc[s] = "stopping" => Closing(s)
        /\ pc[s] = "finished" => ~Activated(s) \/ Closing(s)
        /\ Closing(s) \/ pc[s] \in {"absent", "accepted", "finished"} =>
              timer[s] = "none"
        /\ probe[<<s, s>>] = "none"

ActivationInv == TypeOK /\ RegistryExact /\ LockInv /\ PhaseInv

\* max_connections bounds the registered testers although several contenders
\* decide at once, and one more socket at most is open (reserve).
CapacityBound ==
    /\ Count(registry) <= MaxConnections
    /\ Cardinality(openSockets) <= MaxConnections + 1

\* Until stop() releases every slot at once, the counted sockets are exactly
\* the admitted connections that have not begun to close: no slot leaks and
\* none is released early (reserve, release).
SocketAccounting ==
    server = "up" =>
        openSockets = {s \in Sessions :
            ~Closing(s) /\ pc[s] \notin {"absent", "accepted", "finished"}}

\* A session that waits for a frame, or handles one, runs under the timer of
\* its phase, so a silent tester cannot hold a socket.
TimerArmed ==
    \A s \in Sessions :
        pc[s] \in {"idle", "serving"} /\ ~Closing(s) =>
            timer[s] = IF Activated(s) THEN "general" ELSE "initial"

-----------------------------------------------------------------------------
(* Liveness.                                                               *)

\* Every accepted Routing Activation Request is decided if the testers read:
\* the contender is registered, denied or closed, so neither the activation
\* lock nor the capacity lock nor a probe holds it for ever.
ContenderDecided ==
    TestersRead =>
        \A s \in Sessions :
            pc[s] = "lockWait" ~> pc[s] \in {"respond", "denying", "stopping"}

\* A session that begins to close ends if the testers read: the task that
\* evicted it never waits for it, and it never waits for that task (_cleanup,
\* _cleanup_impl).
ClosingFinishes ==
    TestersRead =>
        \A s \in Sessions : Closing(s) ~> pc[s] \in {"finished", "absent"}

\* If the testers read, a connection that is never activated does not keep its
\* socket.
UnactivatedDropped ==
    TestersRead =>
        \A s \in Sessions :
            s \in openSockets ~> Activated(s) \/ s \notin openSockets

=============================================================================
