----------------------------- MODULE EcuSessions -----------------------------
(***************************************************************************)
(* The tester connections of the virtual ECU (virtual_ecu/virtecu):        *)
(* EcuSession and SessionRegistry (session.py), and the UDS state that     *)
(* belongs to a tester address rather than to a socket (SessionState and   *)
(* the state table of EcuCore, core.py).                                   *)
(*                                                                         *)
(* A step is the code between two awaits.  pc[s] is the await at which the *)
(* pump of connection s is suspended:                                      *)
(*                                                                         *)
(*   absent    no connection uses this identity                            *)
(*   idle      _loop waits for a frame                                     *)
(*   hook      Routing Activation awaits the on_routing_activation hooks   *)
(*   probing   it awaits probe_alive of the session registered for want    *)
(*   sending   a response is sent that keeps the connection                *)
(*   denying   a response is sent that closes it                           *)
(*   stopping  the finally clause stops the supervisor and the worker      *)
(*   closing   it awaits wait_closed; the address is not unregistered yet  *)
(*   finished  run() has ended                                             *)
(*                                                                         *)
(* The worker of a connection runs UDS requests on its state object while  *)
(* the pump goes on.  A state object is "tidy" (default session, locked),  *)
(* "held" (default session, but a seed is pending or security is unlocked) *)
(* or "ext" (non-default session).                                         *)
(***************************************************************************)
EXTENDS Integers, FiniteSets

CONSTANTS
    Sessions,     \* identities of connections
    Addr,         \* addresses of doip.tester_addr_range
    Objects,      \* identities of SessionState objects
    None,         \* Python's None, for each of them
    MaxSessions,  \* doip.max_concurrent_sessions
    Requests      \* the UDS requests that the testers make

ASSUME ConstantsAssumption ==
    /\ IsFiniteSet(Sessions) /\ IsFiniteSet(Addr) /\ IsFiniteSet(Objects)
    /\ None \notin Sessions \cup Addr \cup Objects
    /\ MaxSessions \in Nat \ {0}
    /\ Requests \subseteq {"session", "security", "reset"}

VARIABLES
    pc,         \* the await at which each pump is suspended
    addr,       \* tester_addr; the connection is activated iff it is set
    want,       \* source address of the Routing Activation being handled
    finalized,  \* the sessions with _finalized: the writer is closed
    worker,     \* the sessions whose UDS worker runs
    registry,   \* SessionRegistry._sessions
    state,      \* EcuSession.state
    table,      \* EcuCore._session_states
    mode,       \* diagnostic session and security of each state object
    s3,         \* the state objects whose S3 timer runs
    owner,      \* tester_addr of each state object
    target,     \* the session that each contender probes
    event,      \* _alive_probe_event of each session: the prober that made it
    waits,      \* the event each prober waits for, once its request is sent
    isset,      \* the events that are set
    resetting,  \* the sessions whose worker awaits the answer to an ECUReset
                \* that drops the connection
    resetDrops  \* uds.reset_drops_connection, fixed by the configuration

pumps == <<pc, addr, want, finalized, worker, resetting>>
states == <<state, table, mode, s3, owner>>
probes == <<target, event, waits, isset>>
vars == <<pumps, registry, states, probes, resetDrops>>

-----------------------------------------------------------------------------
Pcs == {"absent", "idle", "hook", "probing", "sending", "denying", "stopping",
        "closing", "finished"}

TypeOK ==
    /\ pc \in [Sessions -> Pcs]
    /\ addr \in [Sessions -> Addr \cup {None}]
    /\ want \in [Sessions -> Addr \cup {None}]
    /\ finalized \subseteq Sessions
    /\ worker \subseteq Sessions
    /\ resetting \subseteq Sessions
    /\ registry \in [Addr -> Sessions \cup {None}]
    /\ state \in [Sessions -> Objects \cup {None}]
    /\ table \in [Addr -> Objects \cup {None}]
    /\ mode \in [Objects -> {"tidy", "held", "ext"}]
    /\ s3 \subseteq Objects
    /\ owner \in [Objects -> Addr \cup {None}]
    /\ target \in [Sessions -> Sessions \cup {None}]
    /\ event \in [Sessions -> Sessions \cup {None}]
    /\ waits \in [Sessions -> Sessions \cup {None}]
    /\ isset \subseteq Sessions
    /\ resetDrops \in BOOLEAN

Init ==
    /\ pc = [s \in Sessions |-> "absent"]
    /\ addr = [s \in Sessions |-> None]
    /\ want = [s \in Sessions |-> None]
    /\ finalized = {} /\ worker = {} /\ resetting = {}
    /\ registry = [a \in Addr |-> None]
    /\ state = [s \in Sessions |-> None]
    /\ table = [a \in Addr |-> None]
    /\ mode = [o \in Objects |-> "tidy"]
    /\ s3 = {}
    /\ owner = [o \in Objects |-> None]
    /\ target = [s \in Sessions |-> None]
    /\ event = [s \in Sessions |-> None]
    /\ waits = [s \in Sessions |-> None]
    /\ isset = {}
    /\ resetDrops \in BOOLEAN

-----------------------------------------------------------------------------
Activated(s) == addr[s] # None
Count(reg) == Cardinality({a \in Addr : reg[a] # None})

\* State objects that nothing refers to (an S3 timer that runs does); a new
\* one takes such an identity.
Unused == {o \in Objects \ s3 : /\ \A a \in Addr : table[a] # o
                                /\ \A s \in Sessions : state[s] # o}

\* Mutant: a plain pop by key.
UnregisterAnyOwner(s) ==
    [a \in Addr |-> IF a = addr[s] THEN None ELSE registry[a]]

\* SessionRegistry.unregister: by identity.
Unregister(s) ==
    [a \in Addr |-> IF a = addr[s] /\ registry[a] = s THEN None ELSE registry[a]]

\* maybe_drop_session_state(a, o) in the table tab: only the caller's own
\* entry, and only when there is nothing left to remember.
MaybeDrop(a, o, tab, tidy) ==
    [b \in Addr |-> IF b = a /\ tab[b] = o /\ tidy THEN None ELSE tab[b]]

\* Mutant: the entry of the address, whosever it is.
DropTidyAnyState(s) ==
    [b \in Addr |-> IF b = addr[s] /\ table[b] # None /\ mode[table[b]] = "tidy"
                    THEN None ELSE table[b]]

\* What a closing connection s does to the table.
DropTidy(s) ==
    IF state[s] = None THEN table
    ELSE MaybeDrop(addr[s], state[s], table, mode[state[s]] = "tidy")

-----------------------------------------------------------------------------
(* The life of a connection.                                               *)

Connect(s) ==
    /\ pc[s] = "absent"
    /\ pc' = [pc EXCEPT ![s] = "idle"]
    /\ worker' = worker \cup {s}
    /\ UNCHANGED <<addr, want, finalized, resetting, registry, states, probes>>

\* _loop ends or raises: run() enters its finally clause.
Leave(s) ==
    /\ pc' = [pc EXCEPT ![s] = "stopping"]
    /\ finalized' = finalized \cup {s}
    /\ want' = [want EXCEPT ![s] = None]

\* The stream has ended: the peer left or this side closed it.
ReadEof(s) ==
    /\ pc[s] = "idle"
    /\ Leave(s)
    /\ UNCHANGED <<addr, worker, resetting, registry, states, probes>>

\* Mutant: the S3 timer is cancelled with every connection (state.close()).
StopWorkerCancelsS3(s) ==
    /\ pc[s] = "stopping"
    /\ pc' = [pc EXCEPT ![s] = "closing"]
    /\ worker' = worker \ {s}
    /\ resetting' = resetting \ {s}
    /\ table' = DropTidy(s)
    /\ s3' = s3 \ {state[s]}
    /\ UNCHANGED <<addr, want, finalized, registry, state, mode, owner, probes>>

\* The worker has stopped; tidy state is dropped and the writer closed.
StopWorker(s) ==
    /\ pc[s] = "stopping"
    /\ pc' = [pc EXCEPT ![s] = "closing"]
    /\ worker' = worker \ {s}
    /\ resetting' = resetting \ {s}
    /\ table' = DropTidy(s)
    /\ UNCHANGED <<addr, want, finalized, registry, state, mode, s3, owner,
                   probes>>

\* wait_closed has returned.
Finish(s) ==
    /\ pc[s] = "closing"
    /\ pc' = [pc EXCEPT ![s] = "finished"]
    /\ registry' = Unregister(s)
    /\ UNCHANGED <<addr, want, finalized, worker, resetting, states, probes>>

\* The object of an ended connection is gone once no contender probes it or
\* waits for an event that it made.
Forget(s) ==
    /\ pc[s] = "finished"
    /\ \A c \in Sessions : target[c] # s /\ waits[c] # s
    /\ pc' = [pc EXCEPT ![s] = "absent"]
    /\ addr' = [addr EXCEPT ![s] = None]
    /\ finalized' = finalized \ {s}
    /\ worker' = worker \ {s}
    /\ state' = [state EXCEPT ![s] = None]
    /\ event' = [event EXCEPT ![s] = None]
    /\ isset' = isset \ {s}
    /\ UNCHANGED <<want, resetting, registry, table, mode, s3, owner, target,
                   waits>>

\* _supervise: an inactivity deadline passes and _finalize closes the writer.
TimerFire(s) ==
    /\ pc[s] \in {"idle", "hook", "probing", "sending", "denying"}
    /\ s \notin finalized
    /\ finalized' = finalized \cup {s}
    /\ UNCHANGED <<pc, addr, want, worker, resetting, registry, states, probes>>

-----------------------------------------------------------------------------
(* Frames other than a Routing Activation Request.                         *)

\* A frame that is answered and keeps the connection, or one that closes it.
ReadOther(s) ==
    /\ pc[s] = "idle"
    /\ \E p \in {"sending", "denying"} : pc' = [pc EXCEPT ![s] = p]
    /\ UNCHANGED <<addr, want, finalized, worker, resetting, registry, states,
                   probes>>

\* The response is out, or its send raised.
SendDone(s) ==
    /\ \/ /\ pc[s] = "sending"
          /\ pc' = [pc EXCEPT ![s] = "idle"]
          /\ want' = [want EXCEPT ![s] = None]
          /\ UNCHANGED finalized
       \/ pc[s] \in {"sending", "denying"} /\ Leave(s)
    /\ UNCHANGED <<addr, worker, resetting, registry, states, probes>>

\* An Alive Check Response sets the event that is installed.
ReadAlive(s) ==
    /\ pc[s] = "idle"
    /\ event[s] # None
    /\ isset' = isset \cup {event[s]}
    /\ UNCHANGED <<pumps, registry, states, target, event, waits>>

-----------------------------------------------------------------------------
(* _handle_routing_activation.                                             *)

ReadActivation(s, a) ==
    /\ pc[s] = "idle"
    /\ pc' = [pc EXCEPT ![s] = "hook"]
    /\ want' = [want EXCEPT ![s] = a]
    /\ UNCHANGED <<addr, finalized, worker, resetting, registry, states, probes>>

\* The tail of the handler: c takes the address with the registry and the
\* table that are left, and the state object of the address or a new one.
Commit(c, reg, tab) ==
    /\ pc' = [pc EXCEPT ![c] = "sending"]
    /\ addr' = [addr EXCEPT ![c] = want[c]]
    /\ registry' = [reg EXCEPT ![want[c]] = c]
    /\ IF tab[want[c]] # None
       THEN /\ state' = [state EXCEPT ![c] = tab[want[c]]]
            /\ table' = tab
            /\ UNCHANGED <<mode, s3, owner>>
       ELSE \E o \in Unused :
               /\ state' = [state EXCEPT ![c] = o]
               /\ table' = [tab EXCEPT ![want[c]] = o]
               /\ mode' = [mode EXCEPT ![o] = "tidy"]
               /\ UNCHANGED s3
               /\ owner' = [owner EXCEPT ![o] = want[c]]

\* Mutant: one connection too many.
AdmitOneMore(c, reg, tab) ==
    IF Count(reg) > MaxSessions
    THEN /\ pc' = [pc EXCEPT ![c] = "denying"]
         /\ registry' = reg
         /\ table' = tab
         /\ UNCHANGED <<addr, state, mode, s3, owner>>
    ELSE Commit(c, reg, tab)

\* The capacity test, after a possible eviction.
Admit(c, reg, tab) ==
    IF Count(reg) >= MaxSessions
    THEN /\ pc' = [pc EXCEPT ![c] = "denying"]
         /\ registry' = reg
         /\ table' = tab
         /\ UNCHANGED <<addr, state, mode, s3, owner>>
    ELSE Commit(c, reg, tab)

\* The hooks have returned; up to the await of probe_alive.
HookDone(c) ==
    LET existing == registry[want[c]]
    IN /\ pc[c] = "hook"
       /\ \/ \* denied by a hook, its type, or as a re-bind
             /\ pc' = [pc EXCEPT ![c] = "denying"]
             /\ UNCHANGED <<addr, registry, states, probes>>
          \/ /\ addr[c] = want[c]
             /\ pc' = [pc EXCEPT ![c] = "sending"]
             /\ UNCHANGED <<addr, registry, states, probes>>
          \/ /\ ~Activated(c)
             /\ existing \in {None, c}
             /\ Admit(c, registry, table)
             /\ UNCHANGED probes
          \/ /\ ~Activated(c)
             /\ existing \notin {None, c}
             /\ pc' = [pc EXCEPT ![c] = "probing"]
             /\ target' = [target EXCEPT ![c] = existing]
             /\ event' = [event EXCEPT ![existing] = c]
             /\ isset' = isset \ {c}
             /\ UNCHANGED <<addr, registry, states, waits>>
       /\ UNCHANGED <<want, finalized, worker, resetting>>

\* probe_alive ends in its finally clause, which clears the event of the
\* target whoever installed it.
ProbeEnds(c) ==
    /\ target' = [target EXCEPT ![c] = None]
    /\ event' = [event EXCEPT ![target[c]] = None]
    /\ waits' = [waits EXCEPT ![c] = None]
    /\ isset' = IF \E d \in Sessions \ {c} : waits[d] = c
                THEN isset ELSE isset \ {c}

\* It returns False: the target is evicted, whatever became of it meanwhile.
Evict(c) ==
    LET e == target[c]
    IN /\ finalized' = finalized \cup {e}
       /\ worker' = worker \ {e}
       /\ resetting' = resetting \ {e}
       /\ Admit(c, Unregister(e), DropTidy(e))
       /\ ProbeEnds(c)
       /\ UNCHANGED want

\* The Alive Check Request is sent and the event that is then installed is
\* awaited; None.wait() raises, as a failed send does.
ProbeSent(c) ==
    /\ pc[c] = "probing"
    /\ waits[c] = None
    /\ \/ /\ event[target[c]] # None
          /\ waits' = [waits EXCEPT ![c] = event[target[c]]]
          /\ UNCHANGED <<pumps, registry, states, target, event, isset>>
       \/ Evict(c)

ProbeAnswered(c) ==
    /\ pc[c] = "probing"
    /\ waits[c] \in isset
    /\ pc' = [pc EXCEPT ![c] = "denying"]
    /\ ProbeEnds(c)
    /\ UNCHANGED <<addr, want, finalized, worker, resetting, registry, states>>

ProbeTimeout(c) ==
    /\ pc[c] = "probing"
    /\ waits[c] \notin isset \cup {None}
    /\ Evict(c)

-----------------------------------------------------------------------------
(* UDS requests on the state object, run by the worker.  Every request     *)
(* restarts the S3 timer, which runs in a non-default session only.        *)

Refresh(o, m) == IF m = "ext" THEN s3 \cup {o} ELSE s3 \ {o}

Serve(s, m) ==
    LET o == state[s]
    IN /\ s \in worker \ resetting
       /\ o # None
       /\ mode' = [mode EXCEPT ![o] = m]
       /\ s3' = Refresh(o, m)
       /\ UNCHANGED <<pumps, registry, state, table, owner, probes>>

\* DiagnosticSessionControl: enter_session.
EnterSession(s, m) ==
    /\ "session" \in Requests
    /\ Serve(s, m)

\* SecurityAccess: a seed is requested or a key accepted, or a key is wrong.
SecurityAccess(s) ==
    /\ "security" \in Requests
    /\ state[s] # None
    /\ \/ Serve(s, IF mode[state[s]] = "ext" THEN "ext" ELSE "held")
       \/ mode[state[s]] = "held" /\ Serve(s, "tidy")

\* ECUReset: in place, or the state of the address is forgotten.
EcuReset(s) ==
    /\ "reset" \in Requests
    /\ \/ ~resetDrops /\ Serve(s, "tidy")
       \/ /\ resetDrops
          /\ s \in worker \ resetting
          /\ state[s] # None
          /\ table' = [table EXCEPT ![addr[s]] = None]
          /\ s3' = Refresh(state[s], mode[state[s]]) \ {table[addr[s]]}
          /\ resetting' = resetting \cup {s}
          /\ UNCHANGED <<pc, addr, want, finalized, worker, registry, state,
                         mode, owner, probes>>

\* The worker has sent the positive response and aborts the connection; if the
\* send raises, the worker ends and the connection stays.
ResetAnswered(s) ==
    /\ s \in worker \cap resetting
    /\ resetting' = resetting \ {s}
    /\ \/ finalized' = finalized \cup {s} /\ UNCHANGED worker
       \/ worker' = worker \ {s} /\ UNCHANGED finalized
    /\ UNCHANGED <<pc, addr, want, registry, states, probes>>

\* _s3_expiry of a state object, with or without a connection that uses it.
S3Expire(o) ==
    /\ o \in s3
    /\ s3' = s3 \ {o}
    /\ mode' = [mode EXCEPT ![o] = "tidy"]
    /\ table' = MaybeDrop(owner[o], o, table, TRUE)
    /\ UNCHANGED <<pumps, registry, state, owner, probes>>

-----------------------------------------------------------------------------
SessionStep(s) ==
    \/ Connect(s) \/ ReadEof(s) \/ StopWorker(s) \/ Finish(s) \/ Forget(s)
    \/ TimerFire(s) \/ ReadOther(s) \/ SendDone(s) \/ ReadAlive(s)
    \/ \E a \in Addr : ReadActivation(s, a)
    \/ HookDone(s) \/ ProbeSent(s) \/ ProbeAnswered(s) \/ ProbeTimeout(s)
    \/ \E m \in {"tidy", "ext"} : EnterSession(s, m)
    \/ SecurityAccess(s) \/ EcuReset(s) \/ ResetAnswered(s)

Next ==
    /\ \/ \E s \in Sessions : SessionStep(s)
       \/ \E o \in Objects : S3Expire(o)
    /\ UNCHANGED resetDrops

Spec == Init /\ [][Next]_vars

-----------------------------------------------------------------------------
(* Properties that hold.                                                   *)

\* The registry names only connections that have not ended, under their own
\* address, and never more than max_concurrent_sessions of them, although
\* contenders decide without a lock (the test and register are one step).
RegistryBounded ==
    /\ \A a \in Addr : registry[a] # None =>
          addr[registry[a]] = a /\ pc[registry[a]] \notin {"absent", "finished"}
    /\ Count(registry) <= MaxSessions

\* The state is well typed and the registry bounded (register, evict).
RegistryInv == TypeOK /\ RegistryBounded

\* Why the registry is right: a contender keeps the address it wants and has
\* none of its own until it commits, across every await of its handler.
ContenderInv ==
    \A s \in Sessions :
        /\ pc[s] \in {"hook", "probing"} => want[s] \in Addr
        /\ pc[s] = "probing" => target[s] \in Sessions /\ ~Activated(s)

\* A state object is found under one address only, and a connection that uses
\* one has an address.
TableOwned == \A a \in Addr : table[a] # None => owner[table[a]] = a
StateAddressed == \A s \in Sessions : state[s] # None => Activated(s)

\* A registered connection loses its entry only when it is evicted, when its
\* own run() ends or when another connection takes the address: the late
\* finally clause of an evicted connection does not remove its successor.
OnlyOwnerUnregisters ==
    [][\A a \in Addr, s \in Sessions :
          registry[a] = s /\ registry'[a] = None =>
              pc'[s] = "finished" \/ s \in finalized']_vars

\* Evicted, finalized or at the end of run().
Ended(s) == s \in finalized \/ pc[s] = "closing"

\* The state of an address leaves the table only by the expiry of its own S3
\* timer, by an ECUReset of that tester that is to drop the connection, or, at
\* rest, with a connection that uses it and ends: neither the close nor the
\* eviction of a connection forgets a session or an unlocked level, and a late
\* close does not take the entry of a successor (maybe_drop_session_state).
StateKept ==
    [][\A a \in Addr :
          table[a] # None /\ table'[a] # table[a] =>
              \/ table[a] \in s3 /\ table[a] \notin s3'
              \/ resetDrops /\ \E s \in resetting' \ resetting : addr[s] = a
              \/ /\ mode[table[a]] = "tidy"
                 /\ \E s \in Sessions : /\ state[s] = table[a] /\ addr[s] = a
                                        /\ Ended(s)']_vars

\* A non-default session that a tester can find again is under its S3 timer,
\* so it ends even if the tester never returns.
S3Armed ==
    \A a \in Addr : table[a] # None /\ mode[table[a]] = "ext" => table[a] \in s3

\* Together they are inductive.
SessionInv ==
    /\ RegistryInv /\ ContenderInv
    /\ TableOwned /\ StateAddressed /\ S3Armed

-----------------------------------------------------------------------------
(* What a document says, and the code does not do.                         *)

Live(s) ==
    /\ Activated(s)
    /\ s \notin finalized
    /\ pc[s] \notin {"stopping", "closing", "finished"}

\* virtual_ecu/README.md:255: "at most one live socket per tester either way".
OneSocketPerTester ==
    \A s, t \in Sessions : Live(s) /\ Live(t) /\ addr[s] = addr[t] => s = t

=============================================================================
