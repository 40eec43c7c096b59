----------------------------- MODULE UdsDispatch -----------------------------
(***************************************************************************)
(* The dispatcher of the virtual ECU (virtecu/dispatcher.py) with the      *)
(* plugins that are loaded into it (loader.py, plugin.py), in front of the *)
(* services of UdsServices.  A request climbs the ladder of its hooks, one *)
(* awaited call after the other, to the core service, which consults the   *)
(* hooks of an identifier itself, or to the fallback; timers and other     *)
(* testers go on between the calls.                                        *)
(*                                                                         *)
(* job[t] is the dispatch of tester t's request, at one of the stages      *)
(*                                                                         *)
(*   idle      there is none                                               *)
(*   ladder    it awaits a hook of the ladder                              *)
(*   nested    the core service awaits a hook of an identifier             *)
(*   decided   dispatch() has returned or raised                           *)
(***************************************************************************)
EXTENDS UdsServices, Sequences, FiniteSets

CONSTANTS
    None,
    Plugins,   \* the plugins: priority of the class and of the YAML entry (or
               \* None), load_index of the file, and the rank of the name among
               \* the plugins of the file (of equal names, the order of loading)
    Setups     \* what a behaviour may be given: the testers, the hooks, the
               \* requests, the policies for unknown services and errors, and
               \* whether SecurityAccess is enabled

\* Sids with a core service that has hooks of its own, and the others.  A
\* request "unseen" is for any of them; no hook of the setup sees it.
Nesting == {"read", "write", "routine"}
CoreSids == Nesting \cup {"session", "security", "unseen"}

Kinds == {"observer", "service"} \cup Nesting

\* What a hook does: it returns None, bytes (or True), something else (or
\* False) or NO_RESPONSE, or raises NegativeResponse, SuppressResponse or an
\* error of its own.
Outs == {"none", "bytes", "other", "silent", "nrc", "suppress", "error"}

ASSUME DispatchAssumption ==
    \A u \in Setups :
        /\ u.testers \subseteq Testers
        /\ \A h \in u.hooks : h.plugin \in DOMAIN Plugins /\ h.kind \in Kinds
        /\ \A r \in u.requests :
              /\ r.sid \in Nesting => 1 \in DOMAIN r.ids
              /\ r.sid = "write" => r.ids[1] \in Dids
              /\ r.sid = "routine" => r.ids[1] \in Routines
        /\ u.security \in BOOLEAN
        /\ u.unknown \in {"nrc", "echo", "silent"}
        /\ u.onError \in {"nrc", "fallthrough", "silent"}

\* load_index and rank tell plugins apart, and a place the hooks that a plugin
\* defines; only those of a routine have a control.  Requests name no kind.
ASSUME HookAssumption ==
    /\ \A p \in DOMAIN Plugins :
          /\ {Plugins[p].class, Plugins[p].load, Plugins[p].rank} \subseteq Int
          /\ Plugins[p].spec \in Int \cup {None}
          /\ \A q \in DOMAIN Plugins :
                /\ Plugins[p].load = Plugins[q].load
                /\ Plugins[p].rank = Plugins[q].rank
                => p = q
    /\ \A u \in Setups :
          /\ IsFiniteSet(u.hooks)
          /\ \A h \in u.hooks :
                /\ h.priority \in Int \cup {None} /\ h.place \in Int
                /\ h.kind = "observer" => h.key = None
                /\ h.kind # "routine" => h.control = None
          /\ \A g, h \in u.hooks :
                /\ <<g.plugin, g.place>> = <<h.plugin, h.place>>
                /\ <<g.kind, g.key, g.control>> = <<h.kind, h.key, h.control>>
                => g = h
          /\ \A r \in u.requests :
                /\ r.sid \notin {None, "observer", "service"}
                /\ Len(r.ids) \in Nat /\ DOMAIN r.ids = 1..Len(r.ids)
                /\ r.sid = "routine" => r.control # None

VARIABLES
    setup,   \* fixed: the configuration and the plugins
    job      \* the dispatch of each tester's request

dispatchVars == <<vars, setup, job>>

Idle == [stage |-> "idle", req |-> None, at |-> 0, todo |-> <<>>, calls |-> {},
         served |-> FALSE, result |-> None]

DispatchInit ==
    /\ Init
    /\ setup \in Setups
    /\ job = [t \in Testers |-> Idle]

-----------------------------------------------------------------------------
(* The hook tables.                                                        *)

\* The priority of a hook is its own, or that of its plugin, where the YAML
\* entry overrides the class.
Priority(h) ==
    LET p == Plugins[h.plugin]
    IN IF h.priority # None THEN h.priority
       ELSE IF p.spec # None THEN p.spec ELSE p.class

\* _sort_key; hooks of one plugin keep the order of their definitions.
SortKey(h) ==
    LET p == Plugins[h.plugin] IN <<Priority(h), p.load, p.rank, h.place>>

Lower(a, b) ==
    \E i \in DOMAIN a : a[i] < b[i] /\ \A k \in 1..(i - 1) : a[k] = b[k]

\* _register sorts: each hook of S stands behind as many as have a lower key.
Ahead(h, S) == {g \in S : Lower(SortKey(g), SortKey(h))}

Sorted(S) ==
    [i \in 1..Cardinality(S) |-> CHOOSE h \in S : Cardinality(Ahead(h, S)) = i - 1]

\* The hooks of one kind and key.
Hooks(kind, key, control) ==
    {h \in setup.hooks : h.kind = kind /\ h.key = key /\ h.control = control}

Bucket(kind, key, control) == Sorted(Hooks(kind, key, control))

Ladder(r) ==
    Bucket("observer", None, None) \o Bucket("service", r.sid, None)
        \o Bucket("service", None, None)

\* The hooks for the i-th identifier of r: of a routine, those for this control
\* before those for any.
Nested(r, i) ==
    CASE r.sid = "routine" -> Bucket("routine", r.ids[i], r.control)
                                  \o Bucket("routine", r.ids[i], None)
      [] r.sid \in {"read", "write"} -> Bucket(r.sid, r.ids[i], None)
      [] OTHER -> <<>>

-----------------------------------------------------------------------------
(* One call.                                                               *)

\* Mutant: the policy for errors applies to observers as well.
CallObserversToo(h, out) ==
    IF out # "error" THEN out
    ELSE CASE setup.onError = "fallthrough" -> "none"
           [] setup.onError = "silent" -> "suppress"
           [] setup.onError = "nrc" -> "nrc"

\* What _call returns or raises when hook h has done out.
Call(h, out) ==
    IF out # "error" THEN out
    ELSE IF h.kind = "observer" THEN "none"
    ELSE CASE setup.onError = "fallthrough" -> "none"
           [] setup.onError = "silent" -> "suppress"
           [] setup.onError = "nrc" -> "nrc"

\* The loop over a bucket goes on to the next hook.
PassesOn(h, got) ==
    \/ got = "none"
    \/ h.kind = "observer" /\ got \notin {"nrc", "suppress"}
    \/ h.kind \in {"read", "routine"} /\ got = "other"

\* What resolve_uds has to send: bytes, a negative response or nothing.
Outcome(h, got) ==
    IF got = "nrc" \/ (h.kind = "write" /\ got = "other") THEN "nrc"
    ELSE IF got = "bytes" THEN "bytes" ELSE "silent"

-----------------------------------------------------------------------------
(* dispatch().                                                             *)

\* The request is decided: by a hook, by the core service or by the fallback.
Decide(j, by, hook, kind) ==
    [j EXCEPT !.stage = "decided", !.todo = <<>>,
              !.result = [by |-> by, hook |-> hook, kind |-> kind]]

\* Some service of CoreServices answers for sid: a disabled SecurityAccess
\* returns None.
Served(sid) == sid \in CoreSids /\ (sid = "security" => setup.security)

\* How a read goes on to identifier i of its request, or ends: without a value
\* it stays silent, and with more than the payload limit it is refused.
GoTo(j, i) ==
    IF i <= Len(j.req.ids)
    THEN {[j EXCEPT !.stage = "nested", !.at = i, !.todo = Nested(j.req, i)]}
    ELSE {Decide(j, "core", None, kind) :
             kind \in IF j.served THEN {"bytes", "nrc"} ELSE {"silent"}}

\* A request arrives; its ladder begins.
Arrive(t, r) ==
    /\ job[t].stage = "idle"
    /\ Begin(t)
    /\ job' = [job EXCEPT ![t] = [Idle EXCEPT !.stage = "ladder", !.req = r,
                                              !.todo = Ladder(r)]]

\* routine_control awaits its hooks.
InRoutine(j) == j.stage = "nested" /\ j.req.sid = "routine"

\* _track: a hook has answered for the routine of request r.
Track(t, r) ==
    /\ HookRoutine(t, r.ids[1])
    /\ started' = CASE r.control = "start" -> started \cup {r.ids[1]}
                    [] r.control = "stop" -> started \ {r.ids[1]}
                    [] OTHER -> started

\* A hook that is called or awaited has returned or raised.
HookReturns(t) ==
    /\ job[t].todo # <<>>
    /\ \E out \in Outs :
          LET h == Head(job[t].todo)
              got == Call(h, out)
              j == [job[t] EXCEPT !.todo = Tail(@),
                                  !.calls = @ \cup {[hook |-> h, out |-> out,
                                                     at |-> job[t].at]}]
          IN \/ /\ PassesOn(h, got)
                /\ job' = [job EXCEPT ![t] = j]
                /\ UNCHANGED vars
             \/ /\ ~PassesOn(h, got)
                /\ h.kind = "read" /\ got = "bytes"
                /\ \E k \in GoTo([j EXCEPT !.served = TRUE], j.at + 1) :
                      job' = [job EXCEPT ![t] = k]
                /\ IF job'[t].stage = "decided" THEN Answered(t)
                   ELSE UNCHANGED vars
             \/ /\ ~PassesOn(h, got)
                /\ h.kind # "read" \/ got # "bytes"
                /\ job' = [job EXCEPT ![t] = Decide(j, "hook", h, Outcome(h, got))]
                /\ IF InRoutine(j) /\ got = "bytes"
                   THEN Track(t, j.req) ELSE Answered(t)

\* A hook that is awaited writes through ctx.store.
HookStores(t) ==
    /\ job[t].todo # <<>>
    /\ HookWrites(t)
    /\ UNCHANGED job

\* No hook of the ladder has claimed the request: CoreServices.handle, which
\* may refuse its length or sub-function before it consults a hook, or the
\* policy for unknown services.
LadderEnds(t) ==
    /\ job[t].stage = "ladder"
    /\ job[t].todo = <<>>
    /\ IF Served(job[t].req.sid)
       THEN \/ /\ job' = [job EXCEPT ![t].stage = "nested", ![t].at = 1,
                                     ![t].todo = Nested(job[t].req, 1)]
               /\ UNCHANGED vars
            \/ /\ job' = [job EXCEPT ![t] = Decide(@, "core", None, "nrc")]
               /\ Answered(t)
       ELSE /\ job' = [job EXCEPT ![t] =
                          Decide(@, "fallback", None,
                                 [nrc |-> "nrc", echo |-> "bytes",
                                  silent |-> "silent"][setup.unknown])]
            /\ Answered(t)

\* The table has a value for an identifier that is read, or none and the
\* policy for unknown identifiers skips it.  A refusal ends the request.
ReadTable(t) ==
    /\ job[t].req.sid = "read"
    /\ \E value \in BOOLEAN :
          LET j == [job[t] EXCEPT !.served = job[t].served \/ value]
          IN \E k \in GoTo(j, j.at + 1) : job' = [job EXCEPT ![t] = k]
    /\ IF job'[t].stage = "decided" THEN Answered(t) ELSE UNCHANGED vars

\* The core service of a request, with its effect.
Service(t, r) ==
    \/ r.sid \in {"session", "unseen"} /\ \E s \in Sessions : DiagnosticSessionControl(t, s)
    \/ /\ r.sid \in {"security", "unseen"} /\ setup.security
       /\ SecurityAccess(t)
    \/ r.sid = "unseen" /\ (TesterPresent(t) \/ EcuReset(t) \/ RoutineControl(t))
    \/ r.sid = "unseen" /\ \E d \in Dids : WriteDataByIdentifier(t, d)
    \/ r.sid = "write" /\ WriteDataByIdentifier(t, r.ids[1])
    \/ r.sid = "routine" /\ r.control = "start" /\ StartRoutine(t, r.ids[1])
    \/ r.sid = "routine" /\ r.control = "stop" /\ StopRoutine(t, r.ids[1])

\* The hooks of the identifier have passed on as well.
CoreServes(t) ==
    /\ job[t].stage = "nested"
    /\ job[t].todo = <<>>
    /\ \/ ReadTable(t)
       \/ /\ Service(t, job[t].req)
          /\ job' = [job EXCEPT ![t] = Decide(@, "core", None, "bytes")]
       \/ /\ Answered(t)
          /\ \E kind \in IF job[t].req.sid = "read" THEN {"nrc"}
                        ELSE {"bytes", "nrc", "silent"} :
                job' = [job EXCEPT ![t] = Decide(@, "core", None, kind)]

\* resolve_uds applies its rules of suppression and the worker sends.
Resolved(t) ==
    /\ job[t].stage = "decided"
    /\ job' = [job EXCEPT ![t] = Idle]
    /\ UNCHANGED vars

Expire(t) == S3Expire(t) /\ UNCHANGED job

-----------------------------------------------------------------------------
DispatchNext ==
    /\ \E t \in setup.testers :
          \/ \E r \in setup.requests : Arrive(t, r)
          \/ HookReturns(t) \/ HookStores(t) \/ LadderEnds(t) \/ CoreServes(t)
          \/ Resolved(t) \/ Expire(t)
    /\ UNCHANGED setup

DispatchSpec == DispatchInit /\ [][DispatchNext]_dispatchVars

-----------------------------------------------------------------------------
(* The precedence, as the head of dispatcher.py states it.                 *)

\* The hooks that may see request r, with the identifier they are asked for.
Candidates(r) ==
    {[hook |-> h, at |-> 0] :
        h \in {g \in setup.hooks : \/ g.kind = "observer"
                                   \/ g.kind = "service" /\ g.key \in {None, r.sid}}}
    \cup {c \in [hook : setup.hooks, at : DOMAIN r.ids] :
             /\ c.hook.kind = r.sid
             /\ c.hook.key = r.ids[c.at]
             /\ c.hook.control \in {None, r.control}}

\* Observers, hooks of the service, hooks of any service, hooks of its core.
Tier(h) ==
    CASE h.kind = "observer" -> 0
      [] h.kind = "service" -> IF h.key = None THEN 2 ELSE 1
      [] OTHER -> 3

\* Within the core service identifier by identifier, what is for one control
\* first; then the order (priority, load_index, name).
Rank(c) ==
    <<Tier(c.hook), c.at, IF c.hook.control = None THEN 1 ELSE 0>> \o SortKey(c.hook)

Asked(j, c) == {d \in j.calls : d.hook = c.hook /\ d.at = c.at}

\* A call that leaves the request, or its identifier, to the next candidate; an
\* observer's does unless it raises a NegativeResponse or SuppressResponse.
Declined(d) ==
    IF d.hook.kind = "observer" THEN d.out \notin {"nrc", "suppress"}
    ELSE \/ d.out = "none"
         \/ d.out = "error" /\ setup.onError = "fallthrough"
         \/ d.out = "other" /\ d.hook.kind \in {"read", "routine"}

\* Identifier i of a read has been answered by a hook before c was asked.
Settled(j, c, i) ==
    \E d \in j.calls : /\ d.hook.kind = "read" /\ d.out = "bytes"
                       /\ d.at = c.at /\ i > c.at
                       /\ ~Lower(Rank(c), Rank(d))

\* Candidate c was asked and declined.
Passed(j, c) == \E e \in Asked(j, c) : Declined(e)

\* Every hook is asked only when all that precede it have declined.
InOrder(j) ==
    \A d \in j.calls : \A c \in Candidates(j.req) :
        Lower(Rank(c), Rank(d)) => Settled(j, c, d.at) \/ Passed(j, c)

\* The core service and the fallback are asked only when every hook of the
\* ladder has declined, and the outcome of a claim is that of the request.
ByClaim(j) ==
    IF j.result.by # "hook"
    THEN /\ \A c \in Candidates(j.req) :
               \/ Passed(j, c)
               \/ c.at > 0 /\ Settled(j, c, Len(j.req.ids) + 1)
               \/ c.at > j.at
         /\ j.result.by = "core" <=> Served(j.req.sid)
    ELSE \E d \in j.calls :
            /\ d.hook = j.result.hook
            /\ ~Declined(d)
            /\ j.result.kind = "bytes" <=> d.out = "bytes"

\* An observer has raised a NegativeResponse or a SuppressResponse, which _call
\* lets through: the request ends there.
Interrupted(j) == \E d \in j.calls : d.hook.kind = "observer" /\ ~Declined(d)

\* Unless an observer has interrupted it, the first candidate that claims a
\* request decides it.  An error of an observer, or of any hook under
\* "fallthrough", leaves the outcome as it would be without that hook
\* (Dispatcher.dispatch, _call, _sort_key, resolve_routine).
FirstClaimWins ==
    \A t \in Testers :
        LET j == job[t]
        IN j.stage # "idle" /\ ~Interrupted(j) =>
               InOrder(j) /\ (j.result # None => ByClaim(j))

\* An observer decides no request: its return is ignored and its errors are
\* swallowed (the head of dispatcher.py, on_request in plugin.py: "an observer
\* can never change or break the response").
ObserversNeverDecide ==
    \A t \in Testers :
        LET result == job[t].result
        IN result # None /\ result.by = "hook" => result.hook.kind # "observer"

-----------------------------------------------------------------------------
(* Why the first claim wins.                                               *)

\* Hook h, asked for identifier i.
Cand(h, i) == [hook |-> h, at |-> i]

\* The hooks to call are candidates for the present identifier, in order, and
\* the others have declined; the identifiers before it are done with.
Waiting(j) ==
    /\ j.result = None /\ j.todo \in Seq(setup.hooks)
    /\ \A i \in DOMAIN j.todo : Cand(j.todo[i], j.at) \in Candidates(j.req)
    /\ \A i, k \in DOMAIN j.todo :
          i < k => Lower(Rank(Cand(j.todo[i], j.at)), Rank(Cand(j.todo[k], j.at)))
    /\ \A c \in Candidates(j.req) :
          /\ c.at = j.at => Passed(j, c) \/ \E i \in DOMAIN j.todo : c.hook = j.todo[i]
          /\ c.at < j.at => Passed(j, c) \/ (c.at > 0 /\ Settled(j, c, j.at))

\* What a dispatch knows of the calls it has made.
Claims(j) ==
    /\ \A d \in j.calls : Cand(d.hook, d.at) \in Candidates(j.req)
    /\ InOrder(j)
    /\ IF j.stage \in {"ladder", "nested"} THEN Waiting(j) ELSE j.todo = <<>>
    /\ j.stage = "ladder" => j.at = 0
    /\ j.stage = "nested" => j.at \in Nat \ {0} /\ Served(j.req.sid)
    /\ j.result # None => ByClaim(j)

ClaimInv == \A t \in Testers : job[t].stage # "idle" => Claims(job[t])

=============================================================================
