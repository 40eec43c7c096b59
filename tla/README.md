# TLA+ verification of doip_playground

doip_playground is a set of Python programs around Diagnostics over IP (ISO 13400-2): a DoIP
gateway (`doip_edgenode`), a programmable ECU simulator (`virtual_ecu`), a minimal ECU
(`echo_ecu`) and an interactive tester (`pc_tester`).  This directory models the parts that keep
state and interleave, checks them with TLC, and proves the central invariants with TLAPS.

Every program runs on one asyncio event loop.  Code between two `await`s is therefore atomic, and
everything else interleaves: connection tasks, timers, probes that one session makes of another,
workers, detached cleanup tasks.  The modules take exactly that granularity: **one action is the
code from one await to the next**, and a program-counter variable names the await at which a task
is suspended.  Where a class's await changes nothing that others can see, it is not a step.

## Inventory

| Component | State | Operations | Hard behaviour |
|---|---|---|---|
| EdgeNode tester sessions (`session.py`, `session_registry.py`) | registry by source address, open sockets, activation locks by address, capacity lock, timers, probe events, cleanup task | accept, read a frame, Routing Activation, Alive Check, timer, eviction, cleanup | contenders for one address; probes of owners that close; limit tested around awaits; teardown started by another session |
| EdgeNode server (`server.py`, `main.py`) | startup, serve and cleanup tasks, listeners, UDP transport, connection tasks | start, accept, run a connection, stop on a signal | a resource that fails after others were opened; `stop()` during `start()`; cancellation at any await |
| EdgeNode diagnostic exchange (`session.py`, `ecu_client.py`) | cached ECU legs, outstanding read, connect, close and retirement tasks | relay, connect, receive with a budget, retire, tear down | late answers on a reused leg; timeouts that race reads; teardown during a connect |
| EdgeNode middleware (`middleware/`) | recorded packets (replay), log queue (logger) | process a packet | injection inside a send |
| UDP announcers (`udp_announcer.py`, `virtecu/udp.py`) | transport, pending replies | announce, answer, stop | entities that hear each other and themselves; pending replies at their limit |
| Virtual ECU sessions (`virtecu/session.py`) | registry, probe event, finalized flag, worker | as the EdgeNode, without locks | two contenders; late teardown |
| Virtual ECU worker (`virtecu/session.py`) | queue, current request, handler task, ResponsePending count | queue, dispatch, announce pending, give up, cancel | slow or hanging handlers, failing sends, cancellation |
| Virtual ECU session state (`virtecu/core.py`, `services/`, `store.py`) | session, security, seed, S3 timer; table by tester; DIDs; routines | UDS services, S3 expiry | state outlives sockets; hooks are awaited in the middle of a request |
| Echo ECU (`echo_ecu.py`) | registry by address, probe event | Routing Activation, eviction | removal by key |
| Dispatcher, plugins, hooks (`dispatcher.py`, `plugin.py`, `loader.py`, `doip_dispatcher.py`) | hook tables, fixed after loading | dispatch | hooks that contend for one request; any hook may wait, fail or never return |
| PC tester (`tester.py`) | socket, background reader, receive queue, retries left | typed commands, reconnect | reconnect while frames are queued or the ECU holds the old session; late answers; retries |
| TLS bridge (`tls_bridge.py`) | Scapy automaton threads | read, write | not reachable: every leg has `use_tls=False` |
| Configuration, start-up, wire formats | none after start | parse, validate | none |

Interaction.  A tester's connection to the EdgeNode is one `DoIPSession`; sessions meet in the
`SessionRegistry`, in the activation and capacity locks, and when one probes or evicts another.
Each session owns its ECU legs, which end at a virtual or an echo ECU (one `EcuSession` or
`ECUSession` per leg).  The virtual ECU's UDS state belongs to the tester address, so it connects
successive sockets.  Discovery is a separate UDP conversation in which EdgeNodes and ECUs hear
each other.

What makes each part correct: one live session per address and never more than the limit, with
every contender decided (sessions); no answer to a request given up and one verdict, with
nothing left after a teardown (exchange); state that survives reconnects and always times out
(session state); answers in order and in the version of their request, served although handlers
hang (worker); no entity answers an entity, and no timer outlives its listener (discovery);
protected data changes only while its gates are met (services); the first claim decides a request
(dispatcher); a start that fails or is stopped leaves nothing behind, and every stop ends (server);
tester and ECU stay in step and every command ends (PC tester).

## Modules

| Module | Models | Runs |
|---|---|---|
| `EdgeActivation` (+ `MC`, `Proofs`) | admission, Routing Activation, probes, timers, eviction, teardown, `stop()` | `edge_safety` |
| `AddressOwnership` | what the sessions promise: who may own an address, and how it changes hands | `edge_safety` |
| `EdgeOwnership` (`EdgeRefinementProofs`) | the refinement mapping from `EdgeActivation` to `AddressOwnership` | `edge_safety` |
| `EdgeServer` (`EdgeRefinementProofs`) | start, listeners, UDP transport, signal and cleanup around `EdgeActivation` | `server_life` |
| `EdgeExchange` (+ `MC`, `Proofs`) | the diagnostic path of one session with its legs | `exchange_relay` |
| `EcuSessions` (+ `MC`, `Proofs`) | connections of the virtual ECU and the UDS state table | `ecu_*` |
| `EcuWorker` (+ `MC`, `Proofs`) | pump, queue, worker and handler of one connection of the virtual ECU | `worker_*` |
| `UdsServices` (+ `Proofs`) | the core UDS services on session state, DIDs and routines | `uds_services` |
| `UdsDispatch` (+ `MC`; `UdsServicesProofs`) | the dispatcher's ladder of plugin hooks in front of `UdsServices` | `uds_services`, `dispatch_observer` |
| `UdpDiscovery` (+ `Proofs`) | EdgeNode and virtual ECU announcers on one segment | `udp_*` |
| `EchoEcu` (`TesterEchoProofs`) | connections and registry of the echo ECU | `echo_registry` |
| `PcTester` | commands, reconnect, background reader and receive queue of the tester | `echo_registry` |
| `TesterEcho` (+ `MC`, `Proofs`) | the tester and other peers composed with the echo ECU, or the tester with an EdgeNode | `echo_registry` |

`PROJECT.json` maps every definition to the lines it stands for.  The modules are separate because
the interfaces between them are narrow: `EdgeExchange` sees activation only as "the session may
begin to close now", `EdgeActivation` sees a whole exchange as the await "serving", and
`EcuSessions` sees the worker as the requests it completes.

### EdgeActivation

`pc[s]` is the await of the connection task `s`; `sa[s]` is `tester_logical_addr` and is set exactly
when the session is activated; `cleanup[s]` is the cleanup task, which exists exactly when the
session is closing.  A probe is a pair of prober and owner with its progress (queued behind the
owner's probe lock, sending, waiting, event set).  `Close` is the synchronous
`_schedule_cleanup`/`_close_transport_and_registry`, part of every action that closes a session.
The order in which `asyncio.Lock` serves its waiters is left open (any waiter may be next), which
includes the real order.  A failing middleware construction in `_run_connection` and the TLS handshake placeholder are left out.

### AddressOwnership and EdgeOwnership

The abstract specification knows, for each address, its owner, and for each owner the Alive Checks
that others make of it.  An address is taken when it is free, given up when its owner leaves, and taken
from an owner that stays only by a contender whose own check of it, begun while it was the owner,
ended unanswered.  `EdgeOwnership` maps the registry to the owners and the probes of `EdgeActivation` to
the checks; the property `ImplementsOwnership` is the abstract specification under that mapping.

### EdgeServer

Extends `EdgeActivation` with `start()` (the variable `main`), its startup task (`startup`), the listeners
and the UDP transport it has recorded, and the phases of `_cleanup` (`shutdown`).  `Bind` is
`asyncio.start_server`, which is external and may fail; a connection may arrive as soon as a
listener is bound, before `start()` serves.  `CancelStart` is the signal handler of `main.py`; `stop()` is
called by `start()` itself or by someone else, at any await.  The announcements of the UDP
announcer are the part of the startup task that it can be cancelled in.

### EdgeExchange

One activated session.  The legs are a pool of identities; `leg`, `queue` and `closer` are an
`ECUConnection`, its receive queue and its close task; `reader`/`read` the one outstanding `recv`.
The ECU is external (`inbox`, `answered`, `heard`, `added`).  It acknowledges, refuses or skips the ACK,
announces pending, answers, suppresses or stays silent (`EcuAnswers`, `EcuSuppresses`), breaks the
connection (`EcuEof`), drops a request and sends something that answers none (`EcuStray`), or adds pending
and final frames for any request it has heard on the leg, answered or not and whenever it likes
(`EcuExtra`, the virtual ECU's `ctx.send`).  A behaviour's `setup` says which of these it has, and whether
ReplayMiddleware records and replays.  A frame carries
the number of the request it answers, which the code does not see; the code's match by addresses and
SID is true for answers to any request of the session to that ECU, so a late answer looks right.
`settled` is a history: the requests whose exchange completed (or was injected and waits for nothing).
`NoLateAnswer` says that only these and the present request are ever answered to the tester;
`NoStaleResponse`, only the present one, is what holds for an ECU that answers once (see Proofs).

### EcuSessions and EcuWorker

`EcuSessions` has identities for `SessionState` objects, because the code keeps references to
objects that have left the table.  A state is *tidy*, *held* (default session, security not at
rest) or *ext* (non-default).  An ECUReset that drops the connection is two steps, as in the code: the
state leaves the table, the response is sent, and only then the worker finalizes the session, or ends if
the send raises (`resetting`, `ResetAnswered`).  `resetDrops` is the configured behaviour of ECUReset, either of which
a behaviour may start with, as `autoPending` (ResponsePending) in `EcuWorker` and `small` (a payload
limit below an announcement) in `UdpDiscovery`.  `evict()` ends the worker at once; in the code the cancellation is
delivered in the next loop iteration, before anything else the worker does.  The S3 timer is taken
to be enabled (`s3_server_ms` 0 disables it, and then nothing times out by design).  In `EcuWorker`
the pump, the worker and each handler are separate tasks; `cancel` is a cancellation requested and
not yet delivered; `OldWait` is the `wait_for` of Python 3.10 and 3.11, which the README of the
virtual ECU supports: the future that is done wins over the cancellation of the task that waits.
`asked` is the version the tester uses for each request, fixed by the plan a behaviour starts with (`Plans`).

### UdsServices

A request is two steps: its arrival (S3 restart) and its service; the hooks of plugins are awaited
between them, and other testers and S3 timers run meanwhile.  Each service is atomic, as in the code.
A key is right or wrong; a DID has its default value or another.  A hook that is awaited may write and
reset DIDs through `ctx.store` (`HookWrites`), which the code trusts it to do by its own rules.  A request that its worker has given up
or lost (see `worker_orphan`) is not running beside the tester's next one.

### UdsDispatch

`job[t]` is the dispatch of tester `t`'s request: the hooks that remain, the calls made, the identifier
that is served and the result.  A hook may return nothing, bytes, something else or `NO_RESPONSE`, or
raise `NegativeResponse`, `SuppressResponse` or an error of its own, and other testers and S3 timers run while
it is awaited.  `Bucket` and `Ladder` compute the order as the code does, table by table, where `bucket.sort`
puts each hook behind as many as have a lower key; `FirstClaimWins` ranks all hooks that might see a request
at once, as the head of `dispatcher.py` describes it, and compares.  `HookAssumption` says what makes the order
total: classes of one file share their `load_index` and are told apart by their names, or, where these are
equal too, by the order in which they were loaded, since the sort is stable.
The core refuses a request for its length or sub-function before it asks a hook (`LadderEnds`), and a read for
the length of its answer after the last one (`GoTo`); a disabled SecurityAccess leaves the request to the
fallback (`Served`).  What a hook does to `ctx.session` is not modelled.  The request
`unseen` is one that no hook of the setup sees: with it alone the module behaves as `UdsServices`.
A write or a routine names a member of `Dids` or `Routines`; one that the configuration does not
declare is a member whose `Allowed` sessions are empty (`DispatchAssumption`).

### UdpDiscovery

Datagrams are a bag, so they are delayed, reordered and lost; a verdict function per kind of entity
says what `datagram_received` does with each type and flaw.  Announcements reach every listener, the
sender's included.  Testers use ports of their own, so what is sent to them is not heard by entities.
Frames of other types that an `on_identification_request` hook sends are left out.

### EchoEcu

As `EcuSessions`, with `run()`'s removal by key.  A peer may activate a second address on its
connection; the registry then keeps its first entry, about which no document speaks.  `moved` is a
history of such connections, and `RegistryInv` makes no claim about their entries.  `Reuse` lets the name of a
connection that has ended, and that nothing refers to, stand for a further one.

### PcTester and TesterEcho

`tpc` is the await of the read-eval loop: input, a command about to run, one of its waits for an answer, or
a connect.  `queue` is `_recv_queue`, and frames carry the connection and the number of the command they
answer, which the code does not see.  `arg` is the address of an `activate <addr>` line, which becomes
`tester_addr` when it is granted.  The background reader is an action of its own, which answers Alive
Check Requests and may end on a broken connection while the loop waits; a drain on a broken connection may
raise before the reader has noticed.  In `TesterEcho` a node
serves the tester's connections; its frames travel through `up` and `down`,
the network may break a connection at any time, and the node may notice late, so that the tester meets
its own old session when it returns.  `cast` says who takes part, which addresses peers and lines may name,
and whether the node is an Echo ECU or, with `relay`, an EdgeNode as its tester sees it: it refuses a
second address, rejects diagnostics of an address it did not grant, relays any number of
ResponsePendings before the answer (`Onward`), or no answer (`GiveUp`), and may close after any frame.  `Reopen`
lets the tester open more connections than there are names.

## Runs

The table in `PROJECT.json` gives each run's properties.  An invariant whose name ends in `Inv` conjoins
the module's type invariant with the structural facts that belong to it (`LegsInv` is `TypeOK`,
`ReadTaskOwned`, `UsedLegCached` and `IdleLegsSettled`; `WireInv` holds the versions of the answers too; `SingleVerdict`
says as well that no error follows an acceptance).

* `edge_safety` (126,000 states): three connections, three addresses, room for two.  Three is the
  least number with an owner, a contender that probes it and a second contender behind the lock, or
  with two registered testers and one that reclaims; conflicts among more are pairwise in the code
  (one lock per address, one capacity lock).  `ActivationInv` is the inductive invariant of the
  proofs; `ImplementsOwnership` is the refinement.
* `server_life` (56,000): two connections with room for one exercise every wait of the sessions, and every
  await of `start()` meets a failure, a signal and a `stop()`.  `StoppedClean` and `StopEnds` need nothing
  from the testers; `ContenderDecided`, `ClosingFinishes` and `UnactivatedDropped` assume that they read.
* `exchange_relay` (669,000): one leg, which is replaced after its close; a routed and an unknown target; and four
  setups: three requests, so that a late answer may meet the next request and the one after; two requests
  with a frame the ECU adds, before or after the answer, for the present or an earlier request; two
  requests before an ECU that also sends frames that answer nothing; and a request with its replay, where
  every wait of the exchange and of the teardown occurs.  Response matching is on, the default.
* `ecu_sessions` (1.35 million): two connections, reused after they finish, two addresses, room for one, three
  state objects, both settings of `reset_drops_connection`.
* `worker_wire` (379,000): two requests in two versions before a queue of one, so that it is full while a
  request is served, a cap of one ResponsePending, one frame per handler, with and without ResponsePending,
  handlers that may hang, `OldWait` on (which only adds behaviours).
* `udp_segment` (759,000): one EdgeNode, one virtual ECU and a tester that sends two datagrams against a
  limit of one scheduled response.  The types and flaws chosen reach every verdict that the listeners
  tell apart: `status` stands for `power`, `other` for the responses an EdgeNode does not know,
  `announce` for the types a virtual ECU sets aside, and `cut` for the three length errors.
* `echo_registry` (233,000): three peers that contend for one address; two that change their addresses; the tester
  on the Echo ECU with connections that it reopens, so that a command that loses every one of them runs out of
  its three attempts; the tester with a rival, with an `activate` of either address; and the tester with
  two commands behind an EdgeNode, where a late answer may meet the next command and a ResponsePending comes before
  an answer.
* `uds_services` (287,000): two testers without plugins, two levels, two sessions, gated and open
  identifiers, S3 enabled (the proofs cover both settings); and one tester with two plugins, where hooks of
  one service, any service, two identifiers of one read, and a routine with and without its control
  contend, under three combinations of the policies, one with security disabled.
* `ecu_two_sockets`, `worker_stop`, `worker_orphan` and `dispatch_observer` are expected to be violated: see
  Findings.  The two of `EcuWorker` run under `FairSpec`, so the violation is not for want of a tester that
  reads or of hooks that return.

`CHECK_DEADLOCK FALSE` is used in `udp_segment`, where the announcers stop and the tester sends a
bounded number of datagrams, and in `worker_wire` and `worker_stop`, where with `OldWait` the connection
really may stop (see Findings).

Bounds named in the modules (`MaxRequests`, `MaxSends`, `MaxSent`, `MaxAttempts`, `MaxTyped`,
`extras` and `MaxPending` of `TesterEcho`, the sets of identities) are not in the code; `MaxConnections`, `MaxSessions`, `QueueSize`, `MaxPending`,
`MaxPendingResponses` are the code's limits with small values.

## Fairness

* Every ready task runs, and every timeout fires: weak fairness of the steps that end such waits.
* A lock is granted again and again until its waiter has it: strong fairness of `LockGranted`, because
  `asyncio.Lock` is first-in first-out and the model leaves the order open.
* A drain ends only if the peer reads or its connection breaks, and a plugin's hook only if its author lets
  it.  The program cannot promise either, so the specifications of the passing runs do not contain it; a
  property that needs it has it as a hypothesis: `TestersRead` in `EdgeActivation`, `PumpFairness`
  in `EdgeExchange`, and `PumpFairness` (the drains and the hooks of the pump) and `WorkerFairness` (the drains
  of the worker, and handlers that heed a cancellation) in `EcuWorker`.  `PumpResponsive` assumes the
  first and `RequestServed` both.  `CleanupEnds` does without.  `StopEnds` assumes of its
  surroundings only that `wait_closed` of the listeners returns (`ListenersWait`; see Observations).
* In `TesterEcho` the tester's loop, its timeouts and the probes of the ECU, with the drain of their Alive
  Check Request, are fair; the user and the
  network are not: commands need not be typed, and connections need not break.
* Testers, ECUs and handlers are otherwise never fair: they need not send, answer or return.
  `PumpResponsive` assumes nothing of the worker.  In `EcuWorker` a broken stream ends although
  frames are buffered (strong fairness), since only finitely many are.

## Findings

* `ecu_two_sockets`: Routing Activation of the virtual ECU takes no lock.  Two contenders that probe one
  silent owner both commit, against "at most one live socket per tester" in its README.
* `worker_orphan`: a ResponsePending whose send fails leaves the handler running after the
  connection has ended, against the comment in `_stop_uds_worker`.
* `worker_stop`: on Python 3.10 and 3.11, the supported floor and the version of the Docker image,
  `wait_for` returns the result of a handler that completes in the iteration in which its worker is cancelled.
  The cancellation is lost, the worker waits for the next request, and `run()` for the worker, for ever:
  the transport stays open and the session registered, against the same comment.  With the `wait_for` of
  3.12 (`OldWait = FALSE`) TLC finds `StopCompletes` to hold.
* `dispatch_observer`: an observer that raises `NegativeResponse` or `SuppressResponse` ends the request, since
  `_call` re-raises both before it looks at `observer` (dispatcher.py:332-337).  The head of dispatcher.py (line 21),
  `on_request` (plugin.py:112-114) and the virtual ECU's README (132, 196) say that it cannot.

## Observations

Met while modelling; the models contain the behaviour, and no property claims the contrary.

* EdgeNode: a session that serves a frame does not read its tester's timely Alive Check Response and is
  evicted, although session.py:384 says that a response denies the contender (`ProbeTimeout` in
  `EdgeActivation` fires with the owner in `replied`).
* EdgeNode: the Alive Check Request is drained before the 0.5 s begin (session.py:547).  An owner
  that has stopped reading holds its contender, and with it the activation lock: `ContenderDecided`
  fails without `TestersRead`.
* EdgeNode: when a timeout is delivered in the iteration in which the shielded read completes, the
  frame is dropped with the read task (session.py:907), although the docstring says that it is kept.
* EdgeNode: an exchange completes on the first matching positive response (session.py:811) and keeps the leg.  If
  the ECU sends more of them for one request, as a plugin of the virtual ECU may with `ctx.send`
  (plugin.py:436-438, virtual_ecu/README.md:171, test_dispatcher.py:228), the next one is taken for the answer to
  the tester's next request with that SID.  `NoStaleResponse` is therefore proved only under `OneAnswer`, and what
  is checked without it is `NoLateAnswer`: nothing of a request that did not complete.
* EdgeNode: `_start_resources` says that it records each resource before it suspends, and
  doip_edgenode_requirements.md:313-314 that a start rolls back on cancellation.  `asyncio.start_server` itself
  suspends once more after it has bound its sockets: cancelled there, the listener is not recorded and
  stays open.  `StoppedClean` is therefore about recorded listeners.
* EdgeNode: from Python 3.12.1 on `wait_closed` waits for the listener's connections.  `_cleanup` calls it before it
  cancels the connection tasks, so a tester that does not read may hold `stop()` (server.py:256).
* EdgeNode: with `max_payload_bytes` under 33, announcements are answered with a NACK, its own too
  (`small`); `Quiet` holds all the same.
* Virtual ECU: probes share one event per session, so a second contender may make the first one
  time out although the owner answered (session.py:639).
* Virtual ECU: `_s3_expiry` drops a state that a live connection still uses; if that connection enters
  a session again, the tester's next connection does not find it (core.py:109).  A default session
  with security unlocked stays in the table without a timer (core.py:240).
* Virtual ECU: an evicted connection and its successor share one state object, so the identity check
  of core.py:238 does not keep the late close of the first from dropping the entry of the second when the
  state is at rest (core.py:240).
* Virtual ECU: config.py:216 says that a handler over the cap is left running; it is cancelled.
* PC tester: an answer that comes after its wait was given up stays in the queue, and the next
  command takes it for its own (tester.py:335).  `diag` takes the ACK and one more frame (tester.py:457-466): behind
  an EdgeNode that is the ResponsePending, and the answer meets the next command.  `InStep` makes no claim
  on a connection from then on (`late`).
* PC tester: `activate` with another address, retried after a reconnect, activates the former address
  and then the other one on one connection: an EdgeNode refuses that and closes it.
* Echo ECU: the registry keeps the first entry of a connection that activates a second address after it has
  ended (echo_ecu.py:337); the next contender for that address probes a closed session.
* Echo ECU: `run()` of an evicted session removes its successor's entry, because it unregisters by key
  (echo_ecu.py:337); the next contender is then accepted without a probe.

## Proofs

Eight modules, all of whose theorems hold for every value of the constants: any number of connections,
addresses, legs, requests, identifiers, hosts, and any limit.  Each rests on an inductive
invariant, which TLC checked on the run's instance before it was proved.  A step's proof has one lemma
per action, and lemmas for the operators that several actions share.

### The EdgeNode's sessions: `EdgeActivationProofs`

* `ActivationSafe`: `ActivationInv` is invariant.  `RegistryExact` (the registry holds exactly the
  activated sessions that are not closing, each at its address) is not inductive: a contender
  registers an address that it saw free several awaits ago.  `LockInv` adds that a session past
  `lockWait` holds the activation lock of the address it asks for, and that the address stays free
  while it waits for the capacity lock and its probes; `PhaseInv` adds what the phases of a connection
  say about its activation, its cleanup and its timer, and that no session probes itself.
* `TypeCorrect`, `RegistryCorrect`: its parts.
* `CapacityRespected`: the limit of registered testers and of open sockets.  Registrations
  only grow in `Commit`, which runs under the capacity lock in the step that tested the limit; the
  lemmas bound the cardinality by the growth of the registered set.
* `SocketsAccounted`, `TimersArmed`: `_open_conns` is exact and every phase has its timer.  Each session
  is argued about alone (`SlotNext`, `TimerNext`): a step of another one moves it at most into its
  teardown (`Moves`).

### Refinements of the EdgeNode: `EdgeRefinementProofs`

* `OwnershipImplemented`: `EdgeActivation` implements `AddressOwnership`.  The mapping needs
  `ActivationInv` and `ProbeInv` (`ProbesOwned`: only a contender that awaits its probes has any, and
  who is probed keeps an address).  One lemma (`...Maps`) per action says which abstract step it is, or that
  registry, closing sessions and checks stay (`Still`).
* `ServerImplementsSessions`: to the connections, startup, signals and cleanup are only the
  `Stop` and `StopCancel` of `EdgeActivation`, so all theorems above hold of the server; with
  `OwnershipImplemented` it yields `ServerImplementsOwnership`.
* `ServerSafe`, `ServerStopsClean`: `ShutdownInv` says what each phase of `_cleanup` has left behind
  for good.  It needs that no session step takes a slot or revives a task once `stop()` has run (`Ending`).

### The diagnostic exchange: `EdgeExchangeProofs`

* `LegLifeSafe`, `TeardownReleases`, with and without ReplayMiddleware: `LifeInv` says who holds each
  leg (cache, setup, retirement, close task), what the pump has in hand at each await, and what
  each stage of the teardown has done.
* `SettledSafe`, `LegsFound`, `LateAnswersDropped`, for any ECU of the model and with ReplayMiddleware:
  `SettledInv` adds what each leg has heard and what is on it (`LegSettled`): an exchange of uncertain outcome
  retires its leg, so a leg that is kept knows only requests that are settled.
* `ExchangeSafe`, `AnswersCurrent`, `OneVerdict` under `OneAnswer` (an ECU that answers each request once, no
  ReplayMiddleware), with and without response matching: `ExchangeInv` adds that only
  the leg of the exchange in progress is not silent (`QuietInv`), how the answers on it are ordered
  (`StreamInv`) and what the tester was sent (`OutInv`).  For the answers the hypothesis is needed: see the observation on
  `ctx.send`.

### The virtual ECU: `EcuSessionsProofs`, `EcuWorkerProofs`, `UdsServicesProofs`

* `SessionsSafe`, `RegistryCorrect`, `S3AlwaysArmed`, and the action properties `OwnEntryOnly` and
  `StateNotForgotten`: `SessionInv` adds that a contender keeps the address it wants and has none of its
  own (`ContenderInv`), that a state object is found under one address, and that who uses one has an address.
* `WorkerSafe`, `WireCorrect`, `HandlersOwned`, `LimitsKept` and `AnswersOrdered`, on every supported Python:
  `QueueInv` orders the requests (answered, in hand, queued, in the pump's hands), `ConversationInv`
  says how far the conversation about each has come, `PendingCounted` bounds its ResponsePendings.
* `UdsSafe` with `SeedsFresh` and `TimerExact`, `LevelNeverFalls` (needs `SeedAboveLevel`: an accepted key is
  for the pending seed's level, which is above the present one) and `WritesProtected`.
* `DispatchImplements`: the dispatcher with its hooks, as long as they leave `ctx.session` alone, implements
  `UdsServices`.  What has to be carried
  from the arrival of a request to its service is that the identifier in hand is one that the request
  names (`RequestInv`).  `DispatchSafe` and `DispatchWritesProtected` follow; what hooks write
  themselves through `ctx.store` is excepted.
* `FirstClaim`: the first claim wins, unless an observer interrupts the request, for any plugins, policies and requests under `DispatchAssumption`
  and `HookAssumption`.  Neither half of `FirstClaimWins` is inductive, for it says nothing of the hooks
  that have not been called: `ClaimInv` adds that those are the candidates left for the present
  identifier, in the order of their ranks, and that the identifiers before it are done with (`Waiting`).
  `BucketForm` shows that a bucket enumerates its hooks in order (the number of hooks that precede one
  is a bijection, as keys are totally ordered), and `LadderLists` and `NestedLists` that the buckets joined list
  the candidates.

### Discovery and the echo ECU: `UdpDiscoveryProofs`, `TesterEchoProofs`

* `SegmentSafe`, `SegmentInert`: `Inert` speaks of verdicts; the reason is what entities
  send one another, which is announcements and the NACKs that answer them (`EntityFrames`).
* `TimersBounded`: the number of scheduled responses keeps to its limit, and none outlives its listener.
* `EchoRegistered`, `TesterRegistered`: no registered session that kept its address has ended, alone and
  beside the PC tester.  `unregister` removes by key, so the entry of such a session must be at its own address
  (`OwnEntry`), and a contender must not be registered where it probes (`ContenderInv`).
  In the composition the node's steps are those of `EchoEcu` because a request
  stays in the channel until it is decided (`Channel`).
* `TesterInStep`: tester and node stay in step, for any cast, any addresses and either node.  `InStep` speaks of
  what has arrived; `StepInv` follows every frame from the command to its answer.  `LinkInv` ties the
  queue and the readers to the present connection, `SessionInv` ties the contenders to the requests in
  the channel, `Turn` says that, until a command ends without its answer, all that is under way belongs to
  the command that waits, and that what follows in it an ACK or a ResponsePending is one more of these
  or the response, and `Known` that the node has the address that the tester speaks for.

### Only model-checked

* The liveness properties: `ContenderDecided`, `ClosingFinishes`, `UnactivatedDropped`, `StopEnds`,
  `CleanupEnds`, `ExchangeEnds`, `PumpResponsive`, `RequestServed`, `Quiet`,
  `ActivationDecided` and `CommandEnds`.  Fairness and `ENABLED` are beyond the prover.

The invariants and the action properties of the passing runs are proved, under the hypotheses named above.

## Not modelled

* The TLS bridge: threads of a Scapy automaton that no session reaches, since every leg has `use_tls=False`.
* Configuration (parsing and validation without state), wire formats, sockets and interfaces.
* Middlewares that only rewrite bytes, and the logger's queue, whose writer thread meets the loop in
  `queue.Queue` alone.
* The import of plugin files, what hooks do to `ctx.session`, and the frame hooks of `doip_dispatcher.py`.
* The echo ECU's announcer and the start-up of the two ECUs, which open one listener each.
* The PC tester's parsing and printing, and `target`.  The EdgeNode behind it is what its tester sees; its
  own models are `EdgeActivation` and `EdgeExchange`.

## Plan

The logger's sink, a frame hook in front of the virtual ECU's pump, and what a hook does to `ctx.session`.
