----------------------------- MODULE EdgeServer -----------------------------
(***************************************************************************)
(* The life of the EdgeNode process around its sessions: DoIPServer.start, *)
(* _start_resources, stop and _cleanup (doip_edgenode/server.py), the      *)
(* cancellation of start() by a signal (main.py), and UDPAnnouncer.start   *)
(* and stop as far as the server uses them.  The sessions are those of     *)
(* EdgeActivation: they begin while the server is still starting, and its  *)
(* stop is the one that closes and cancels them.                           *)
(***************************************************************************)
EXTENDS EdgeActivation

CONSTANT Late   \* sessions whose testers connect once the server serves

VARIABLES
    main,      \* the task that runs start(): see Mains
    startup,   \* _startup_task: the resource it is acquiring, or its end
    port,      \* each TCP listener; an "open" one is not in _listeners yet
    serving,   \* the serve_forever tasks run
    udp,       \* the announcer has an open transport
    shutdown   \* the await at which _cleanup is suspended

serverVars == <<main, startup, port, serving, udp, shutdown>>
allVars == <<pc, sa, req, cleanup, timer, registry, openSockets, lock, capLock,
             probe, replied, server, main, startup, port, serving, udp,
             shutdown>>

Ports == {"plain", "tls"}

\* boot     awaits the startup task
\* serve    awaits the serve_forever tasks
\* leaving  does so with a cancellation to deliver when one of them ends
\* stop     awaits the cleanup task in stop()
Mains == {"new", "boot", "serve", "leaving", "stop", "ended"}
Startups == {"none", "plain", "tls", "udp", "done", "failed"}
Shutdowns == {"no", "startup", "listeners", "tasks", "done"}

ServerTypeOK ==
    /\ main \in Mains
    /\ startup \in Startups
    /\ port \in [Ports -> {"closed", "open", "recorded"}]
    /\ serving \in BOOLEAN
    /\ udp \in BOOLEAN
    /\ shutdown \in Shutdowns

ServerInit ==
    /\ Init
    /\ main = "new"
    /\ startup = "none"
    /\ port = [p \in Ports |-> "closed"]
    /\ serving = FALSE
    /\ udp = FALSE
    /\ shutdown = "no"

-----------------------------------------------------------------------------
StartupPending == startup \in {"plain", "tls", "udp"}

Closed(P) == [p \in Ports |-> IF p \in P THEN "closed" ELSE port[p]]
Recorded == {p \in Ports : port[p] = "recorded"}

\* stop() up to its await: the accepted writers are closed and the cleanup
\* task is created, by the first call only.
StopCall ==
    IF shutdown = "no"
    THEN Stop /\ shutdown' = "startup"
    ELSE UNCHANGED <<vars, shutdown>>

\* The startup task raises at its await.  start_server suspends once more
\* after its socket listens: a cancellation there leaves the socket open.
StartupAborts ==
    /\ StartupPending
    /\ startup' = "failed"
    /\ udp' = FALSE

-----------------------------------------------------------------------------
(* start(), as _run of main.py calls it.                                   *)

Start ==
    /\ main = "new"
    /\ IF shutdown = "no"
       THEN main' = "boot" /\ startup' = "plain"
       ELSE main' = "ended" /\ UNCHANGED startup
    /\ UNCHANGED <<vars, port, serving, udp, shutdown>>

\* asyncio.start_server: the socket listens and accepts ...
Bind(p) ==
    /\ startup = p
    /\ port[p] = "closed"
    /\ port' = [port EXCEPT ![p] = "open"]
    /\ UNCHANGED <<vars, main, startup, serving, udp, shutdown>>

\* ... and returns.
Record(p) ==
    /\ startup = p
    /\ port[p] = "open"
    /\ port' = [port EXCEPT ![p] = "recorded"]
    /\ startup' = IF p = "plain" THEN "tls" ELSE "udp"
    /\ UNCHANGED <<vars, main, serving, udp, shutdown>>

\* UDPAnnouncer.start: the endpoint, then the announcements.
OpenUdp ==
    /\ startup = "udp"
    /\ ~udp
    /\ udp' = TRUE
    /\ UNCHANGED <<vars, main, startup, port, serving, shutdown>>

Announced ==
    /\ startup = "udp"
    /\ udp
    /\ startup' = "done"
    /\ UNCHANGED <<vars, main, port, serving, udp, shutdown>>

\* A socket cannot be bound, or the announcement cannot be sent.
StartFails ==
    /\ StartupAborts
    /\ startup \in Ports => port[startup] = "closed"
    /\ UNCHANGED <<vars, main, port, serving, shutdown>>

\* Mutant: start() does not look at _closing after the startup.
BootEndsUnchecked ==
    /\ main = "boot"
    /\ ~StartupPending
    /\ IF startup = "done"
       THEN /\ main' = "serve"
            /\ serving' = TRUE
            /\ UNCHANGED <<vars, shutdown>>
       ELSE /\ main' = "stop"
            /\ StopCall
            /\ UNCHANGED serving
    /\ UNCHANGED <<startup, port, udp>>

\* The startup task has ended and start() goes on.
BootEnds ==
    /\ main = "boot"
    /\ ~StartupPending
    /\ IF startup = "done" /\ shutdown = "no"
       THEN /\ main' = "serve"
            /\ serving' = TRUE
            /\ UNCHANGED <<vars, shutdown>>
       ELSE /\ main' = "stop"
            /\ StopCall
            /\ UNCHANGED serving
    /\ UNCHANGED <<startup, port, udp>>

\* A signal cancels start().  Its await hands the cancellation to the startup
\* task or to the serve_forever tasks, which close their listeners.
CancelStart ==
    \/ /\ main = "boot"
       /\ StartupAborts
       /\ UNCHANGED <<vars, main, port, serving, shutdown>>
    \/ /\ main = "boot"
       /\ startup = "done"
       /\ main' = "stop"
       /\ StopCall
       /\ UNCHANGED <<startup, port, serving, udp>>
    \/ /\ main = "serve"
       /\ shutdown = "no"
       /\ main' = "leaving"
       /\ port' = Closed(Recorded)
       /\ UNCHANGED <<vars, startup, serving, udp, shutdown>>

\* gather raises when the first serve_forever task has ended: one that start()
\* cancelled, as soon as its Server.wait_closed returns, or one that _cleanup
\* cancelled.  finally: stop().
GatherRaises ==
    /\ \/ main = "leaving"
       \/ main = "serve" /\ shutdown \in {"listeners", "tasks", "done"}
    /\ main' = "stop"
    /\ StopCall
    /\ UNCHANGED <<startup, port, serving, udp>>

\* stop() returns, or raises the cancellations it has swallowed.
StopReturns ==
    /\ main = "stop"
    /\ shutdown = "done"
    /\ main' = "ended"
    /\ UNCHANGED <<vars, startup, port, serving, udp, shutdown>>

\* Another task calls stop().
StopByCaller ==
    /\ shutdown = "no"
    /\ StopCall
    /\ UNCHANGED <<main, startup, port, serving, udp>>

-----------------------------------------------------------------------------
(* _cleanup: one shielded task, whoever awaits it.                         *)

CleanupCancelsStartup ==
    /\ shutdown = "startup"
    /\ StartupAborts
    /\ UNCHANGED <<vars, main, port, serving, shutdown>>

\* The startup task is joined; the serve_forever tasks are cancelled and the
\* recorded listeners closed.
CleanupListeners ==
    /\ shutdown = "startup"
    /\ ~StartupPending
    /\ shutdown' = "listeners"
    /\ port' = Closed(Recorded)
    /\ UNCHANGED <<vars, main, startup, serving, udp>>

\* The serve_forever tasks have ended and wait_closed of every listener has
\* returned; the announcer stops and the connection tasks are cancelled.
ListenersClosed ==
    /\ shutdown = "listeners"
    /\ shutdown' = "tasks"
    /\ serving' = FALSE
    /\ udp' = FALSE
    /\ StopCancel
    /\ UNCHANGED <<main, startup, port>>

\* The connection tasks are joined; the executor and the log sinks close.
TasksJoined ==
    /\ shutdown = "tasks"
    /\ \A s \in Sessions : pc[s] \in {"absent", "finished"}
    /\ shutdown' = "done"
    /\ UNCHANGED <<vars, main, startup, port, serving, udp>>

-----------------------------------------------------------------------------
\* A connection is accepted on a socket that listens, from Bind on.
Connection(s) ==
    /\ pc[s] = "absent" => \E p \in Ports : port[p] # "closed"
    /\ pc[s] = "absent" /\ s \in Late => main = "serve"
    /\ SessionStep(s)
    /\ UNCHANGED serverVars

Ended ==
    /\ main = "ended"
    /\ shutdown = "done"
    /\ UNCHANGED allVars

StartStep ==
    \/ OpenUdp \/ Announced \/ BootEnds \/ StopReturns
    \/ \E p \in Ports : Bind(p) \/ Record(p)

CleanupStep ==
    CleanupCancelsStartup \/ CleanupListeners \/ TasksJoined

ServerNext ==
    \/ Start \/ StartStep \/ StartFails \/ CancelStart \/ StopByCaller
    \/ CleanupStep \/ ListenersClosed \/ GatherRaises \/ Ended
    \/ \E s \in Sessions : Connection(s)
    \/ \E c, e \in Sessions : ProbeStep(c, e) /\ UNCHANGED serverVars

\* The loop runs the tasks of the server as it runs those of the sessions.
ServerSpec ==
    /\ ServerInit /\ [][ServerNext]_allVars
    /\ LoopFairness
    /\ WF_allVars(StartStep)
    /\ WF_allVars(CleanupStep)

\* Server.wait_closed returns.  Before Python 3.12.1 it does not wait for
\* anything; since then it waits until the listener's connections are lost.
ListenersWait ==
    WF_allVars(ListenersClosed) /\ WF_allVars(GatherRaises)

-----------------------------------------------------------------------------
\* The variables have their types, and when _cleanup has ended, nothing that
\* start() acquired is left or can come back, wherever a failed resource, a
\* signal or a stop() interrupted the start: no recorded listener, no
\* serve_forever task, no UDP transport, no connection task, no slot and no
\* registered tester.
StoppedClean ==
    /\ ServerTypeOK
    /\ shutdown = "done" =>
           /\ ~StartupPending
           /\ Recorded = {}
           /\ ~serving
           /\ ~udp
           /\ openSockets = {}
           /\ \A a \in Addr : registry[a] = NoSession
           /\ \A s \in Sessions : pc[s] \in {"absent", "finished"}

\* Why StoppedClean holds.  The shutdown only moves forward, and each of its
\* phases leaves behind what no later step brings back: stop() releases every
\* slot and the server admits no further one; once the startup task is joined
\* it acquires nothing, so a closed listener stays closed; and once every
\* connection task has ended, none begins.
ShutdownInv ==
    /\ server = "up" <=> shutdown = "no"
    /\ server = "cancelling" <=> shutdown \in {"tasks", "done"}
    /\ server # "up" => openSockets = {}
    /\ shutdown \in {"listeners", "tasks", "done"} =>
           ~StartupPending /\ Recorded = {}
    /\ shutdown \in {"tasks", "done"} => ~serving /\ ~udp
    /\ shutdown = "done" => \A s \in Sessions : pc[s] \in {"absent", "finished"}

ServerInv == ServerTypeOK /\ ActivationInv /\ ShutdownInv

\* A cancelled start() and a stop() end, whatever the testers do, when
\* wait_closed returns: start() joins the cleanup, the cleanup joins the
\* startup task and the connection tasks, and none of them joins start().
StopEnds ==
    ListenersWait =>
        (main = "leaving" \/ shutdown # "no") ~>
            shutdown = "done" /\ main \in {"new", "ended"}

=============================================================================
