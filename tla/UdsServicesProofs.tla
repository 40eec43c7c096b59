-------------------------- MODULE UdsServicesProofs --------------------------
(***************************************************************************)
(* The properties of UdsServices for any number of testers, identifiers,   *)
(* levels and sessions.  UdsInv is inductive: SeedAboveLevel is what makes *)
(* an accepted key raise the level.  UdsDispatch implements UdsServices,   *)
(* so they hold whatever plugins are loaded.  ClaimInv is the invariant of *)
(* its precedence: the hooks that wait are the candidates left for the     *)
(* present identifier, in the order of their ranks.                        *)
(***************************************************************************)
EXTENDS UdsDispatch, FiniteSetTheorems, SequenceTheorems, TLAPS

\* A step of any action is a step of one of these (the shape of Next).
LEMMA NextCases ==
    ASSUME Next
    PROVE  \E t \in Testers :
              \/ Begin(t) \/ Answered(t) \/ TesterPresent(t) \/ EcuReset(t) \/ S3Expire(t)
              \/ HookWrites(t)
              \/ \E s \in Sessions : DiagnosticSessionControl(t, s)
              \/ \E l \in Levels : RequestSeed(t, l) \/ WrongKey(t, l) \/ RightKey(t, l)
              \/ \E d \in Dids : WriteDataByIdentifier(t, d)
              \/ \E r \in Routines : StartRoutine(t, r) \/ StopRoutine(t, r) \/ HookRoutine(t, r)
  BY Zenon DEF Next, SecurityAccess, RoutineControl

\* enter_session and reset lock the tester and set its S3 timer by its session.
LEMMA RelockSafe ==
    ASSUME UdsInv, NEW t \in Testers, NEW s \in Sessions, Relock(t, s)
    PROVE  /\ session' \in [Testers -> Sessions]
           /\ level' \in [Testers -> Nat] /\ seed' \in [Testers -> Nat]
           /\ attempts' \in [Testers -> Nat] /\ s3' \subseteq Testers
           /\ SeedAboveLevel' /\ S3Exact'
           /\ \A u \in Testers : level'[u] = level[u] \/ level'[u] = 0
  <1>1. /\ session' \in [Testers -> Sessions]
        /\ level' \in [Testers -> Nat] /\ seed' \in [Testers -> Nat]
        /\ attempts' \in [Testers -> Nat] /\ s3' \subseteq Testers
    BY DEF UdsInv, TypeOK, Relock, Timer
  <1>2. SeedAboveLevel'
    BY DEF UdsInv, TypeOK, SeedAboveLevel, Relock
  <1>3. S3Exact'
    BY DEF UdsInv, TypeOK, S3Exact, Relock, Timer
  <1>4. \A u \in Testers : level'[u] = level[u] \/ level'[u] = 0
    BY DEF UdsInv, TypeOK, Relock
  <1> QED BY <1>1, <1>2, <1>3, <1>4

\* One step from a state of UdsInv: the invariant is kept and no level is
\* exchanged for a lower one.
LEMMA StepSafe ==
    ASSUME UdsInv, Next
    PROVE  UdsInv' /\ \A u \in Testers : level'[u] >= level[u] \/ level'[u] = 0
  <1> DEFINE Rises == \A u \in Testers : level'[u] >= level[u] \/ level'[u] = 0
  <1> USE ConstantsAssumption
  <1>0. level \in [Testers -> Nat]
    BY DEF UdsInv, TypeOK
  <1>1. PICK t \in Testers :
              \/ Begin(t) \/ Answered(t) \/ TesterPresent(t) \/ EcuReset(t) \/ S3Expire(t)
              \/ HookWrites(t)
              \/ \E s \in Sessions : DiagnosticSessionControl(t, s)
              \/ \E l \in Levels : RequestSeed(t, l) \/ WrongKey(t, l) \/ RightKey(t, l)
              \/ \E d \in Dids : WriteDataByIdentifier(t, d)
              \/ \E r \in Routines : StartRoutine(t, r) \/ StopRoutine(t, r) \/ HookRoutine(t, r)
    BY NextCases
  <1>2. CASE Begin(t) \/ Answered(t) \/ TesterPresent(t)
    <2>1. UNCHANGED state /\ s3' \in {s3, Timer(t, session[t])}
      BY <1>2 DEF Begin, Answered, TesterPresent
    <2>2. TypeOK'
      BY <1>2 DEF UdsInv, TypeOK, Begin, Answered, TesterPresent, Serving, Timer, state, shared
    <2>3. SeedAboveLevel' /\ Rises
      BY <2>1, <1>0 DEF UdsInv, SeedAboveLevel, state
    <2>4. S3Exact'
      BY <2>1 DEF UdsInv, S3Exact, state, Timer
    <2> QED BY <2>2, <2>3, <2>4 DEF UdsInv
  <1>3. CASE EcuReset(t) \/ S3Expire(t) \/ \E s \in Sessions : DiagnosticSessionControl(t, s)
    <2>1. PICK s \in Sessions : Relock(t, s)
      BY <1>3 DEF EcuReset, S3Expire, DiagnosticSessionControl
    <2>2. busy' \subseteq Testers /\ modified' \subseteq Dids /\ started' \subseteq Routines
      BY <1>3 DEF UdsInv, TypeOK, EcuReset, S3Expire, DiagnosticSessionControl, Serving, shared
    <2> QED BY <2>1, <2>2, RelockSafe, <1>0 DEF UdsInv, TypeOK
  <1>4. CASE \E l \in Levels : RequestSeed(t, l) \/ WrongKey(t, l) \/ RightKey(t, l)
    <2>1. PICK l \in Levels : RequestSeed(t, l) \/ WrongKey(t, l) \/ RightKey(t, l)
      BY <1>4
    <2>2. TypeOK'
      BY <2>1 DEF UdsInv, TypeOK, RequestSeed, WrongKey, RightKey, Serving, shared
    <2>3. SeedAboveLevel'
      BY <2>1 DEF UdsInv, TypeOK, SeedAboveLevel, RequestSeed, WrongKey, RightKey
    <2>4. S3Exact'
      BY <2>1 DEF UdsInv, S3Exact, RequestSeed, WrongKey, RightKey
    <2>5. Rises
      BY <2>1, <1>0 DEF UdsInv, TypeOK, SeedAboveLevel, RequestSeed, WrongKey, RightKey
    <2> QED BY <2>2, <2>3, <2>4, <2>5 DEF UdsInv
  <1>5. CASE \/ \E d \in Dids : WriteDataByIdentifier(t, d)
             \/ \E r \in Routines : StartRoutine(t, r) \/ StopRoutine(t, r) \/ HookRoutine(t, r)
    <2>1. UNCHANGED <<state, s3>> /\ busy' \subseteq Testers
      BY <1>5 DEF UdsInv, TypeOK, WriteDataByIdentifier, StartRoutine, StopRoutine, HookRoutine, Serving
    <2>2. modified' \subseteq Dids /\ started' \subseteq Routines
      BY <1>5 DEF UdsInv, TypeOK, WriteDataByIdentifier, StartRoutine, StopRoutine, HookRoutine
    <2> QED BY <2>1, <2>2, <1>0 DEF UdsInv, TypeOK, SeedAboveLevel, S3Exact, state
  <1>6. CASE HookWrites(t)
    <2>1. UNCHANGED <<state, s3, busy, started>>
      BY <1>6 DEF HookWrites
    <2>2. modified' \subseteq Dids
      BY <1>6 DEF UdsInv, TypeOK, HookWrites
    <2> QED BY <2>1, <2>2, <1>0 DEF UdsInv, TypeOK, SeedAboveLevel, S3Exact, state
  <1> QED BY <1>1, <1>2, <1>3, <1>4, <1>5, <1>6

\* UdsInv holds initially and is kept by stuttering steps as well.
LEMMA InvInductive == Init => UdsInv
  BY ConstantsAssumption DEF Init, UdsInv, TypeOK, SeedAboveLevel, S3Exact

\* A step that changes nothing keeps UdsInv.
LEMMA InvStutters ==
    ASSUME UdsInv, UNCHANGED vars
    PROVE  UdsInv'
  BY DEF UdsInv, TypeOK, SeedAboveLevel, S3Exact, vars, state, shared

\* The state of every tester is well typed, awaits keys only for higher levels
\* and has its S3 timer (SessionState, security.py), in every reachable state.
THEOREM UdsSafe == Spec => []UdsInv
  <1>1. UdsInv /\ [Next]_vars => UdsInv'
    BY StepSafe, InvStutters
  <1> QED BY <1>1, InvInductive, PTL DEF Spec

\* Seeds are pending only for levels above the one unlocked (_request_seed,
\* _send_key).
THEOREM SeedsFresh == Spec => []SeedAboveLevel
  BY UdsSafe, PTL DEF UdsInv

\* The S3 timer runs exactly in non-default sessions (refresh_s3).
THEOREM TimerExact == Spec => []S3Exact
  BY UdsSafe, PTL DEF UdsInv

\* No sequence of seeds and keys exchanges a security level for a lower one
\* (security.py).
THEOREM LevelNeverFalls == Spec => LevelRises
  <1>1. UdsInv /\ [Next]_vars => [\A t \in Testers : level'[t] >= level[t] \/ level'[t] = 0]_vars
    BY StepSafe
  <1> QED BY <1>1, UdsSafe, PTL DEF Spec, LevelRises

\* A DID changes only by a reset, by an awaited hook or while a tester meets its
\* gates (_check_gates in data_identifier.py).
THEOREM WritesProtected == Spec => ProtectedWrites
  <1> DEFINE A == \A d \in Dids :
                    (d \in modified') # (d \in modified) =>
                        \/ ClearWrites /\ modified' = {} /\ started' = {}
                        \/ \E t \in Testers : HookWrites(t)
                        \/ \E t \in busy \ busy' : /\ Security[d] <= level[t]
                                                   /\ session[t] \in Allowed[d]
  <1>1. ASSUME Next PROVE A
    <2>1. PICK t \in Testers :
              \/ Begin(t) \/ Answered(t) \/ TesterPresent(t) \/ EcuReset(t) \/ S3Expire(t)
              \/ HookWrites(t)
              \/ \E s \in Sessions : DiagnosticSessionControl(t, s)
              \/ \E l \in Levels : RequestSeed(t, l) \/ WrongKey(t, l) \/ RightKey(t, l)
              \/ \E d \in Dids : WriteDataByIdentifier(t, d)
              \/ \E r \in Routines : StartRoutine(t, r) \/ StopRoutine(t, r) \/ HookRoutine(t, r)
      BY <1>1, NextCases
    <2>2. CASE \E d \in Dids : WriteDataByIdentifier(t, d)
      <3>1. PICK d \in Dids : WriteDataByIdentifier(t, d)
        BY <2>2
      <3>2. \A e \in Dids : (e \in modified') # (e \in modified) => e = d
        BY <3>1 DEF WriteDataByIdentifier
      <3>3. t \in busy \ busy' /\ Security[d] <= level[t] /\ session[t] \in Allowed[d]
        BY <3>1 DEF WriteDataByIdentifier, Serving, Gate
      <3> QED BY <3>2, <3>3
    <2>3. CASE EcuReset(t)
      BY <2>3 DEF EcuReset
    <2>4. CASE ~ \E d \in Dids : WriteDataByIdentifier(t, d)
      <3>1. CASE ~ EcuReset(t) /\ ~ HookWrites(t)
        <4>1. modified' = modified
          BY <2>1, <2>4, <3>1 DEF Begin, Answered, TesterPresent, S3Expire,
             DiagnosticSessionControl, RequestSeed, WrongKey, RightKey,
             StartRoutine, StopRoutine, HookRoutine, shared
        <4> QED BY <4>1
      <3> QED BY <3>1, <2>3
    <2> QED BY <2>2, <2>4
  <1>2. [Next]_vars => [A]_vars
    BY <1>1
  <1> QED BY <1>2, PTL DEF Spec, ProtectedWrites

-----------------------------------------------------------------------------
(* The dispatcher in front of the services.                                *)

Fields == {"stage", "req", "at", "todo", "calls", "served", "result"}

\* A dispatch that has begun is about a request of the setup.
About(j) ==
    /\ DOMAIN j = Fields
    /\ IF j.stage = "idle" THEN j.todo = <<>> ELSE j.req \in setup.requests

RequestInv ==
    /\ setup \in Setups
    /\ job = [t \in Testers |-> job[t]]
    /\ \A t \in Testers : About(job[t])

\* k is the dispatch j of the same request, further on.
Onward(j, k) == DOMAIN k = Fields /\ k.req = j.req /\ k.stage # "idle"

\* A request that is decided stays the request it was.
LEMMA DecideOnward ==
    ASSUME NEW j, DOMAIN j = Fields, NEW by, NEW hook, NEW kind
    PROVE  Onward(j, Decide(j, by, hook, kind))
  BY DEF Onward, Decide, Fields

\* So does a request that goes on to its next identifier.
LEMMA GoToOnward ==
    ASSUME NEW j, DOMAIN j = Fields, NEW i, NEW k \in GoTo(j, i)
    PROVE  Onward(j, k)
  <1>1. ASSUME NEW kind PROVE Onward(j, Decide(j, "core", None, kind))
    BY DecideOnward
  <1>2. Onward(j, [j EXCEPT !.stage = "nested", !.at = i, !.todo = Nested(j.req, i)])
    BY DEF Onward, Fields
  <1> QED BY <1>1, <1>2 DEF GoTo

\* A step that takes one dispatch onward, or starts or ends one, keeps
\* RequestInv.
LEMMA OnwardKeeps ==
    ASSUME RequestInv, NEW t \in Testers, NEW k, UNCHANGED setup,
           job' = [job EXCEPT ![t] = k],
           About(k) \/ (job[t].stage # "idle" /\ Onward(job[t], k))
    PROVE  RequestInv'
  <1>1. job' = [u \in Testers |-> job'[u]]
    BY DEF RequestInv
  <1>2. ASSUME NEW u \in Testers PROVE About(job[u])'
    <2>1. CASE u # t
      BY <1>2, <2>1 DEF RequestInv, About
    <2>2. CASE u = t
      <3>1. job'[t] = k
        BY DEF RequestInv
      <3> QED BY <2>2, <3>1 DEF RequestInv, Onward, About
    <2> QED BY <2>1, <2>2
  <1> QED BY <1>1, <1>2 DEF RequestInv

\* A request arrives.
LEMMA ArriveMaps ==
    ASSUME RequestInv, NEW t \in Testers, NEW r \in setup.requests,
           Arrive(t, r), UNCHANGED setup
    PROVE  RequestInv' /\ [Next]_vars
  <1> DEFINE k == [Idle EXCEPT !.stage = "ladder", !.req = r, !.todo = Ladder(r)]
  <1>1. About(k)
    BY DEF About, Idle, Fields
  <1>2. RequestInv'
    BY <1>1, OnwardKeeps DEF Arrive
  <1>3. Next
    BY DEF Arrive, Next
  <1> QED BY <1>2, <1>3

\* A decided request is resolved.
LEMMA ResolvedMaps ==
    ASSUME RequestInv, NEW t \in Testers, Resolved(t), UNCHANGED setup
    PROVE  RequestInv' /\ [Next]_vars
  <1>1. About(Idle)
    BY DEF About, Idle, Fields
  <1> QED BY <1>1, OnwardKeeps DEF Resolved

\* A hook returns: the services see an answer, at most, or that a hook has
\* answered for a routine.
LEMMA HookReturnsMaps ==
    ASSUME RequestInv, NEW t \in Testers, HookReturns(t), UNCHANGED setup
    PROVE  RequestInv' /\ [Next]_vars
  <1>1. About(job[t]) /\ job[t].stage # "idle"
    BY DEF RequestInv, About, HookReturns
  <1>2. PICK out \in Outs :
          LET h == Head(job[t].todo)
              got == Call(h, out)
              j == [job[t] EXCEPT !.todo = Tail(@),
                                  !.calls = @ \cup {[hook |-> h, out |-> out,
                                                     at |-> job[t].at]}]
          IN \/ job' = [job EXCEPT ![t] = j] /\ UNCHANGED vars
             \/ /\ \E k \in GoTo([j EXCEPT !.served = TRUE], j.at + 1) :
                      job' = [job EXCEPT ![t] = k]
                /\ Answered(t) \/ UNCHANGED vars
             \/ /\ job' = [job EXCEPT ![t] = Decide(j, "hook", h, Outcome(h, got))]
                /\ (InRoutine(j) /\ Track(t, j.req)) \/ Answered(t)
    BY DEF HookReturns
  <1> DEFINE h == Head(job[t].todo)
             got == Call(h, out)
             j == [job[t] EXCEPT !.todo = Tail(@),
                                 !.calls = @ \cup {[hook |-> h, out |-> out,
                                                    at |-> job[t].at]}]
             j1 == [j EXCEPT !.served = TRUE]
  <1>3. DOMAIN j = Fields /\ j.req = job[t].req /\ j.stage = job[t].stage
    BY <1>1 DEF About, Fields
  <1>4. DOMAIN j1 = Fields /\ j1.req = job[t].req
    BY <1>3 DEF Fields
  <1>5. /\ Onward(job[t], j) /\ \A k \in GoTo(j1, j.at + 1) : Onward(job[t], k)
        /\ Onward(job[t], Decide(j, "hook", h, Outcome(h, got)))
    <2> HIDE DEF j, j1, h, got
    <2>1. Onward(j, Decide(j, "hook", h, Outcome(h, got)))
      BY <1>3, DecideOnward
    <2>2. \A k \in GoTo(j1, j.at + 1) : Onward(j1, k)
      BY <1>4, GoToOnward
    <2> QED BY <1>1, <1>3, <1>4, <2>1, <2>2 DEF Onward
  <1>6. ASSUME Answered(t) PROVE Next
    BY <1>6 DEF Next
  <1>7. ASSUME InRoutine(j), Track(t, j.req) PROVE Next
    <2> HIDE DEF j
    <2>1. j.req \in setup.requests /\ j.req.sid = "routine"
      BY <1>1, <1>3, <1>7 DEF About, InRoutine
    <2>2. j.req.ids[1] \in Routines
      BY <2>1, DispatchAssumption DEF RequestInv
    <2> QED BY <1>7, <2>2 DEF Track, Next, RoutineControl
  <1>8. RequestInv'
    <2> HIDE DEF j, j1, h, got
    <2> QED BY <1>1, <1>2, <1>5, OnwardKeeps DEF j, j1, h, got
  <1>9. [Next]_vars
    BY <1>2, <1>6, <1>7
  <1> QED BY <1>8, <1>9

\* The ladder ends, and nothing has happened but an answer.
LEMMA LadderEndsMaps ==
    ASSUME RequestInv, NEW t \in Testers, LadderEnds(t), UNCHANGED setup
    PROVE  RequestInv' /\ [Next]_vars
  <1>1. About(job[t]) /\ job[t].stage # "idle"
    BY DEF RequestInv, LadderEnds
  <1>2. [Next]_vars
    BY DEF LadderEnds, Next
  <1>5. CASE job' = [job EXCEPT ![t] = Decide(job[t], "core", None, "nrc")]
    <2>1. Onward(job[t], Decide(job[t], "core", None, "nrc"))
      BY <1>1, DecideOnward DEF About
    <2> QED BY <1>1, <1>2, <1>5, <2>1, OnwardKeeps
  <1>3. CASE job' = [job EXCEPT ![t].stage = "nested", ![t].at = 1,
                                ![t].todo = Nested(job[t].req, 1)]
    <2> DEFINE k == [job[t] EXCEPT !.stage = "nested", !.at = 1,
                                   !.todo = Nested(job[t].req, 1)]
    <2>1. job' = [job EXCEPT ![t] = k]
      BY <1>3 DEF RequestInv
    <2>2. Onward(job[t], k)
      BY <1>1 DEF Onward, About, Fields
    <2> QED BY <1>1, <1>2, <2>1, <2>2, OnwardKeeps
  <1>4. CASE ~Served(job[t].req.sid)
    <2>1. PICK kind : job' = [job EXCEPT ![t] = Decide(job[t], "fallback", None, kind)]
      BY <1>4 DEF LadderEnds
    <2>2. Onward(job[t], Decide(job[t], "fallback", None, kind))
      BY <1>1, DecideOnward DEF About
    <2> QED BY <1>1, <1>2, <2>1, <2>2, OnwardKeeps
  <1> QED BY <1>3, <1>4, <1>5 DEF LadderEnds

\* A hook has written through ctx.store.
LEMMA HookStoresMaps ==
    ASSUME RequestInv, NEW t \in Testers, HookStores(t), UNCHANGED setup
    PROVE  RequestInv' /\ [Next]_vars
  <1>1. Next /\ UNCHANGED job
    BY DEF HookStores, Next
  <1> QED BY <1>1 DEF RequestInv, About

\* The core service of a request of the setup is a service of UdsServices.
LEMMA ServiceMaps ==
    ASSUME NEW t \in Testers, setup \in Setups, NEW r \in setup.requests,
           Service(t, r)
    PROVE  Next
  <1>1. (r.sid = "write" => r.ids[1] \in Dids)
        /\ (r.sid = "routine" => r.ids[1] \in Routines)
    BY DispatchAssumption
  <1>2. CASE r.sid = "write"
    <2>1. WriteDataByIdentifier(t, r.ids[1])
      BY <1>2 DEF Service
    <2> QED BY <1>1, <1>2, <2>1 DEF Next
  <1>3. CASE r.sid = "routine"
    <2>1. StartRoutine(t, r.ids[1]) \/ StopRoutine(t, r.ids[1])
      BY <1>3 DEF Service
    <2> QED BY <1>1, <1>3, <2>1 DEF Next, RoutineControl
  <1>4. CASE r.sid \notin {"write", "routine"}
    <2>1. \/ \E s \in Sessions : DiagnosticSessionControl(t, s)
          \/ SecurityAccess(t) \/ TesterPresent(t) \/ EcuReset(t)
          \/ RoutineControl(t)
          \/ \E d \in Dids : WriteDataByIdentifier(t, d)
      BY <1>4 DEF Service
    <2> QED BY <2>1 DEF Next
  <1> QED BY <1>2, <1>3, <1>4

\* The core service serves the request.
LEMMA CoreServesMaps ==
    ASSUME RequestInv, NEW t \in Testers, CoreServes(t), UNCHANGED setup
    PROVE  RequestInv' /\ [Next]_vars
  <1>1. About(job[t]) /\ job[t].stage # "idle" /\ job[t].req \in setup.requests
    BY DEF RequestInv, CoreServes, About
  <1>2. ASSUME NEW kind, job' = [job EXCEPT ![t] = Decide(job[t], "core", None, kind)]
        PROVE  RequestInv'
    BY <1>1, <1>2, DecideOnward, OnwardKeeps DEF About
  <1>3. CASE ReadTable(t)
    <2>1. PICK served :
             LET j == [job[t] EXCEPT !.served = served]
             IN \E k \in GoTo(j, j.at + 1) : job' = [job EXCEPT ![t] = k]
      BY <1>3 DEF ReadTable
    <2> DEFINE j == [job[t] EXCEPT !.served = served]
    <2>2. DOMAIN j = Fields /\ j.req = job[t].req
      BY <1>1 DEF About, Fields
    <2>3. \A k \in GoTo(j, j.at + 1) : Onward(job[t], k)
      <3> HIDE DEF j
      <3>1. \A k \in GoTo(j, j.at + 1) : Onward(j, k)
        BY <2>2, GoToOnward
      <3> QED BY <2>2, <3>1 DEF Onward
    <2>4. RequestInv'
      BY <1>1, <2>1, <2>3, OnwardKeeps
    <2>5. [Next]_vars
      BY <1>3 DEF ReadTable, Next
    <2> QED BY <2>4, <2>5
  <1>4. CASE /\ Service(t, job[t].req)
             /\ job' = [job EXCEPT ![t] = Decide(@, "core", None, "bytes")]
    BY <1>1, <1>2, <1>4, ServiceMaps DEF RequestInv
  <1>5. CASE /\ Answered(t)
             /\ \E kind \in {"bytes", "nrc", "silent"} :
                   job' = [job EXCEPT ![t] = Decide(@, "core", None, kind)]
    BY <1>2, <1>5 DEF Next
  <1> QED BY <1>3, <1>4, <1>5 DEF CoreServes

\* Every step of the dispatcher is a step of the services, or none of theirs.
LEMMA DispatchMaps ==
    ASSUME RequestInv, [DispatchNext]_dispatchVars
    PROVE  RequestInv' /\ [Next]_vars
  <1>1. CASE UNCHANGED dispatchVars
    BY <1>1 DEF dispatchVars, RequestInv, About
  <1>2. CASE DispatchNext
    <2>1. PICK t \in setup.testers :
             \/ \E r \in setup.requests : Arrive(t, r)
             \/ HookReturns(t) \/ HookStores(t) \/ LadderEnds(t) \/ CoreServes(t)
             \/ Resolved(t) \/ Expire(t)
      BY <1>2 DEF DispatchNext
    <2>2. t \in Testers /\ UNCHANGED setup
      BY <1>2, <2>1, DispatchAssumption DEF RequestInv, DispatchNext
    <2>3. CASE Expire(t)
      BY <2>2, <2>3 DEF Expire, Next, RequestInv, About
    <2> QED BY <2>1, <2>2, <2>3, ArriveMaps, HookReturnsMaps, HookStoresMaps,
               LadderEndsMaps, CoreServesMaps, ResolvedMaps
  <1> QED BY <1>1, <1>2

\* Whatever plugins are loaded that leave ctx.session to the core, and in
\* whatever order their hooks return, raise or write through ctx.store, the
\* state of the testers and what they share change only as the core services,
\* their refusals, the S3 timers and those writes change them: the dispatcher
\* implements UdsServices (Dispatcher.dispatch, CoreServices.handle, _track).
THEOREM DispatchImplements == DispatchSpec => Spec
  <1>1. DispatchInit => RequestInv /\ Init
    BY DEF DispatchInit, RequestInv, About, Idle, Fields
  <1> QED BY <1>1, DispatchMaps, PTL DEF DispatchSpec, Spec

\* The invariant of the services holds behind the hooks as well.
THEOREM DispatchSafe == DispatchSpec => []UdsInv
  BY DispatchImplements, UdsSafe, PTL

\* The core services write a DID only while its gates are met, although hooks
\* are awaited between the arrival of a request and its service, and may write
\* the same DIDs through ctx.store (_check_gates).
THEOREM DispatchWritesProtected == DispatchSpec => ProtectedWrites
  BY DispatchImplements, WritesProtected, PTL

-----------------------------------------------------------------------------
(* The first claim wins.                                                   *)

\* Keys are compared lexicographically: a strict order.
LEMMA LowerOrder ==
    ASSUME NEW n \in Nat, NEW a \in [1..n -> Int], NEW b \in [1..n -> Int],
           NEW c \in [1..n -> Int]
    PROVE  /\ ~Lower(a, a)
           /\ Lower(a, b) => ~Lower(b, a)
           /\ Lower(a, b) /\ Lower(b, c) => Lower(a, c)
  <1>1. ~Lower(a, a)
    BY DEF Lower
  <1>2. ASSUME NEW i \in 1..n, a[i] < b[i], \A k \in 1..(i - 1) : a[k] = b[k],
               NEW m \in 1..n, b[m] < c[m], \A k \in 1..(m - 1) : b[k] = c[k]
        PROVE  Lower(a, c)
    <2>1. CASE i <= m
      <3>1. \A k \in 1..(i - 1) : a[k] = b[k] /\ b[k] = c[k]
        BY <1>2, <2>1
      <3>2. b[i] <= c[i]
        BY <1>2, <2>1
      <3>3. a[i] < c[i]
        BY <1>2, <3>2
      <3> QED BY <3>1, <3>3 DEF Lower
    <2>2. CASE m < i
      <3>1. a[m] < c[m] /\ \A k \in 1..(m - 1) : a[k] = c[k]
        BY <1>2, <2>2
      <3> QED BY <3>1 DEF Lower
    <2> QED BY <2>1, <2>2
  <1>3. Lower(a, b) /\ Lower(b, c) => Lower(a, c)
    BY <1>2 DEF Lower
  <1>4. ASSUME NEW i \in 1..n, a[i] < b[i], \A k \in 1..(i - 1) : a[k] = b[k],
               NEW m \in 1..n, b[m] < a[m], \A k \in 1..(m - 1) : b[k] = a[k]
        PROVE  FALSE
    BY <1>4
  <1>5. Lower(a, b) => ~Lower(b, a)
    BY <1>4 DEF Lower
  <1> QED BY <1>1, <1>3, <1>5

\* The sort keys of two hooks are comparable when they differ.
LEMMA LowerTotal ==
    ASSUME NEW a \in [1..4 -> Int], NEW b \in [1..4 -> Int],
           \E i \in 1..4 : a[i] # b[i]
    PROVE  Lower(a, b) \/ Lower(b, a)
  <1>1. /\ DOMAIN a = 1..4 /\ DOMAIN b = 1..4
        /\ \A i \in 1..4 : a[i] \in Int /\ b[i] \in Int
    OBVIOUS
  <1>2. ASSUME NEW i \in 1..4, a[i] # b[i], \A k \in 1..(i - 1) : a[k] = b[k]
        PROVE  Lower(a, b) \/ Lower(b, a)
    BY <1>1, <1>2 DEF Lower
  <1>3. \E i \in 1..4 : a[i] # b[i] /\ \A k \in 1..(i - 1) : a[k] = b[k]
    <2>1. CASE a[1] # b[1]
      BY <2>1
    <2>2. CASE a[1] = b[1] /\ a[2] # b[2]
      BY <2>2
    <2>3. CASE a[1] = b[1] /\ a[2] = b[2] /\ a[3] # b[3]
      BY <2>3
    <2>4. CASE a[1] = b[1] /\ a[2] = b[2] /\ a[3] = b[3] /\ a[4] # b[4]
      BY <2>4
    <2>5. \A i \in 1..4 : i = 1 \/ i = 2 \/ i = 3 \/ i = 4
      OBVIOUS
    <2> QED BY <2>1, <2>2, <2>3, <2>4, <2>5
  <1> QED BY <1>2, <1>3

\* What the assumptions say of a hook and of a request of the setup.
LEMMA HookForm ==
    ASSUME setup \in Setups, NEW h \in setup.hooks
    PROVE  /\ h.priority \in Int \cup {None} /\ h.place \in Int
           /\ h.kind = "observer" => h.key = None
           /\ h.kind # "routine" => h.control = None
           /\ h.kind \in Kinds /\ h.plugin \in DOMAIN Plugins
  BY HookAssumption, DispatchAssumption

LEMMA RequestForm ==
    ASSUME setup \in Setups, NEW r \in setup.requests
    PROVE  /\ r.sid \notin {None, "observer", "service"}
           /\ Len(r.ids) \in Nat /\ DOMAIN r.ids = 1..Len(r.ids)
           /\ r.sid = "routine" => r.control # None
           /\ r.sid \in Nesting => 1 \in DOMAIN r.ids
  BY HookAssumption, DispatchAssumption

\* _sort_key of a hook.
LEMMA SortKeyForm ==
    ASSUME setup \in Setups, NEW h \in setup.hooks
    PROVE  /\ SortKey(h) \in [1..4 -> Int] /\ SortKey(h) \in Seq(Int)
           /\ Len(SortKey(h)) = 4
           /\ SortKey(h)[2] = Plugins[h.plugin].load
           /\ SortKey(h)[3] = Plugins[h.plugin].rank
           /\ SortKey(h)[4] = h.place
  <1>1. /\ h.priority \in Int \cup {None} /\ h.place \in Int
        /\ h.plugin \in DOMAIN Plugins
    BY HookForm
  <1> DEFINE p == Plugins[h.plugin]
  <1>2. p.class \in Int /\ p.load \in Int /\ p.rank \in Int /\ p.spec \in Int \cup {None}
    BY <1>1, HookAssumption
  <1>3. Priority(h) \in Int
    BY <1>1, <1>2 DEF Priority
  <1>4. SortKey(h) = <<Priority(h), p.load, p.rank, h.place>>
    BY DEF SortKey
  <1> HIDE DEF p
  <1>5. /\ SortKey(h) \in [1..4 -> Int] /\ SortKey(h) \in Seq(Int)
        /\ Len(SortKey(h)) = 4
        /\ SortKey(h)[2] = p.load /\ SortKey(h)[3] = p.rank
        /\ SortKey(h)[4] = h.place
    BY <1>1, <1>2, <1>3, <1>4
  <1> QED BY <1>5 DEF p

\* Two hooks of one bucket are comparable.
LEMMA BucketTotal ==
    ASSUME setup \in Setups, NEW kind, NEW key, NEW control,
           NEW g \in Hooks(kind, key, control), NEW h \in Hooks(kind, key, control),
           g # h
    PROVE  Lower(SortKey(g), SortKey(h)) \/ Lower(SortKey(h), SortKey(g))
  <1>1. /\ g \in setup.hooks /\ h \in setup.hooks
        /\ g.kind = h.kind /\ g.key = h.key /\ g.control = h.control
    BY DEF Hooks
  <1>2. g.plugin # h.plugin \/ g.place # h.place
    <2> SUFFICES ASSUME g.plugin = h.plugin, g.place = h.place PROVE FALSE
      OBVIOUS
    <2>1. /\ <<g.plugin, g.place>> = <<h.plugin, h.place>>
          /\ <<g.kind, g.key, g.control>> = <<h.kind, h.key, h.control>>
      BY <1>1
    <2> QED BY <1>1, <2>1, HookAssumption
  <1>3. /\ g.plugin \in DOMAIN Plugins /\ h.plugin \in DOMAIN Plugins
        /\ /\ Plugins[g.plugin].load = Plugins[h.plugin].load
           /\ Plugins[g.plugin].rank = Plugins[h.plugin].rank
           => g.plugin = h.plugin
    BY <1>1, HookForm, HookAssumption
  <1>4. \/ SortKey(g)[2] # SortKey(h)[2] \/ SortKey(g)[3] # SortKey(h)[3]
        \/ SortKey(g)[4] # SortKey(h)[4]
    BY <1>1, <1>2, <1>3, SortKeyForm
  <1> QED BY <1>1, <1>4, SortKeyForm, LowerTotal

\* A hook stands behind those before it and one more.
LEMMA AheadGrows ==
    ASSUME setup \in Setups, NEW kind, NEW key, NEW control,
           NEW g \in Hooks(kind, key, control), NEW h \in Hooks(kind, key, control)
    PROVE  LET S == Hooks(kind, key, control)
           IN /\ IsFiniteSet(S) /\ Cardinality(S) \in Nat
              /\ Cardinality(Ahead(h, S)) \in 0..(Cardinality(S) - 1)
              /\ Lower(SortKey(g), SortKey(h))
                    => Cardinality(Ahead(g, S)) < Cardinality(Ahead(h, S))
  <1> DEFINE S == Hooks(kind, key, control)
  <1>1. S \subseteq setup.hooks /\ IsFiniteSet(setup.hooks) /\ g \in S /\ h \in S
    BY HookAssumption DEF Hooks
  <1> HIDE DEF S
  <1>2. IsFiniteSet(S)
    BY <1>1, FS_Subset
  <1>3. Cardinality(S) \in Nat
    BY <1>2, FS_CardinalityType
  <1>4. \A k \in S : SortKey(k) \in [1..4 -> Int]
    BY <1>1, SortKeyForm
  <1>5. Ahead(h, S) \subseteq S /\ h \notin Ahead(h, S)
    BY <1>4, LowerOrder DEF Ahead
  <1>6. /\ IsFiniteSet(Ahead(h, S))
        /\ Cardinality(Ahead(h, S)) <= Cardinality(S)
        /\ Cardinality(S) = Cardinality(Ahead(h, S)) => S = Ahead(h, S)
    BY <1>2, <1>5, FS_Subset
  <1>7. Cardinality(Ahead(h, S)) \in Nat
    BY <1>6, FS_CardinalityType
  <1>8. Cardinality(Ahead(h, S)) \in 0..(Cardinality(S) - 1)
    BY <1>1, <1>3, <1>5, <1>6, <1>7
  <1>9. ASSUME Lower(SortKey(g), SortKey(h))
        PROVE  Cardinality(Ahead(g, S)) < Cardinality(Ahead(h, S))
    <2>1. ASSUME NEW k \in Ahead(g, S) PROVE k \in Ahead(h, S)
      <3>1. k \in S /\ Lower(SortKey(k), SortKey(g))
        BY <2>1 DEF Ahead
      <3>2. Lower(SortKey(k), SortKey(h))
        BY <1>1, <1>4, <1>9, <3>1, LowerOrder
      <3> QED BY <3>1, <3>2 DEF Ahead
    <2>2. g \in Ahead(h, S) /\ g \notin Ahead(g, S)
      BY <1>1, <1>4, <1>9, LowerOrder DEF Ahead
    <2>3. /\ IsFiniteSet(Ahead(g, S))
          /\ Cardinality(Ahead(g, S)) <= Cardinality(Ahead(h, S))
          /\ Cardinality(Ahead(h, S)) # Cardinality(Ahead(g, S))
      BY <1>6, <2>1, <2>2, FS_Subset
    <2>4. Cardinality(Ahead(g, S)) \in Nat
      BY <2>3, FS_CardinalityType
    <2> QED BY <1>7, <2>3, <2>4
  <1> QED BY <1>2, <1>3, <1>8, <1>9 DEF S

\* A bucket lists its hooks in the order of their keys.
LEMMA BucketForm ==
    ASSUME setup \in Setups, NEW kind, NEW key, NEW control
    PROVE  LET S == Hooks(kind, key, control)
               q == Bucket(kind, key, control)
           IN /\ Cardinality(S) \in Nat /\ DOMAIN q = 1..Cardinality(S)
              /\ q \in Seq(setup.hooks) /\ Len(q) = Cardinality(S)
              /\ \A i \in DOMAIN q : q[i] \in S
              /\ \A h \in S : \E i \in DOMAIN q : q[i] = h
              /\ \A i, k \in DOMAIN q : i < k => Lower(SortKey(q[i]), SortKey(q[k]))
  <1> DEFINE S == Hooks(kind, key, control)
             n == Cardinality(S)
             P(h) == Cardinality(Ahead(h, S))
             q == Bucket(kind, key, control)
             f == [h \in S |-> P(h)]
  <1>1. IsFiniteSet(S) /\ n \in Nat /\ S \subseteq setup.hooks
    <2>1. S \subseteq setup.hooks /\ IsFiniteSet(setup.hooks)
      BY HookAssumption DEF Hooks
    <2>2. IsFiniteSet(S)
      BY <2>1, FS_Subset
    <2> QED BY <2>1, <2>2, FS_CardinalityType
  <1>2. \A g, h \in S : /\ P(h) \in 0..(n - 1)
                        /\ Lower(SortKey(g), SortKey(h)) => P(g) < P(h)
    BY AheadGrows
  <1>3. \A g, h \in S : g # h => Lower(SortKey(g), SortKey(h)) \/ Lower(SortKey(h), SortKey(g))
    BY BucketTotal
  <1>4. q = [i \in 1..n |-> CHOOSE h \in S : P(h) = i - 1]
    BY DEF Bucket, Sorted
  <1> HIDE DEF S, P, q, n
  <1>5. f \in [S -> 0..(n - 1)] /\ \A g, h \in S : f[g] = f[h] => g = h
    <2>1. ASSUME NEW g \in S, NEW h \in S, g # h PROVE P(g) # P(h)
      BY <1>1, <1>2, <1>3, <2>1
    <2> QED BY <1>2, <2>1
  <1>6. \A i \in 1..n : \E h \in S : P(h) = i - 1
    <2>1. f \in Injection(S, 0..(n - 1))
      BY <1>5 DEF Injection, IsInjective
    <2>2. IsFiniteSet(0..(n - 1)) /\ Cardinality(0..(n - 1)) = n
      BY <1>1, FS_Interval
    <2>3. f \in Surjection(S, 0..(n - 1))
      BY <2>1, <2>2, FS_Injection DEF n
    <2>4. \A m \in 0..(n - 1) : \E h \in S : f[h] = m
      BY <2>3 DEF Surjection
    <2>5. ASSUME NEW i \in 1..n PROVE \E h \in S : P(h) = i - 1
      <3>1. i - 1 \in 0..(n - 1)
        BY <1>1
      <3> QED BY <2>4, <3>1
    <2> QED BY <2>5
  <1>7. \A i \in 1..n : q[i] \in S /\ P(q[i]) = i - 1
    BY <1>4, <1>6
  <1>8. DOMAIN q = 1..n /\ \A i \in DOMAIN q : q[i] \in S
    BY <1>4, <1>7
  <1>9. q \in Seq(setup.hooks) /\ Len(q) = n
    <2>1. q \in [1..n -> setup.hooks]
      BY <1>1, <1>4, <1>7
    <2>2. q \in Seq(setup.hooks)
      BY <1>1, <2>1, SeqDef
    <2> QED BY <1>1, <1>8, <2>2, LenProperties
  <1>10. ASSUME NEW h \in S PROVE \E i \in DOMAIN q : q[i] = h
    <2>1. P(h) + 1 \in 1..n /\ P(h) \in Nat
      BY <1>1, <1>2
    <2>2. q[P(h) + 1] \in S /\ P(q[P(h) + 1]) = P(h)
      BY <1>7, <2>1
    <2>3. q[P(h) + 1] = h
      BY <1>5, <2>2
    <2> QED BY <1>8, <2>1, <2>3
  <1>11. ASSUME NEW i \in 1..n, NEW k \in 1..n, i < k
         PROVE  Lower(SortKey(q[i]), SortKey(q[k]))
    <2>1. /\ q[i] \in S /\ q[k] \in S /\ P(q[i]) = i - 1 /\ P(q[k]) = k - 1
          /\ i \in Int /\ k \in Int
      BY <1>7, <1>1
    <2>2. q[i] # q[k] /\ ~(P(q[k]) < P(q[i]))
      BY <1>11, <2>1
    <2> QED BY <1>2, <1>3, <2>1, <2>2
  <1> QED BY <1>1, <1>8, <1>9, <1>10, <1>11 DEF S, q, n

\* The rank of a hook that is asked for identifier i.
LEMMA RankForm ==
    ASSUME setup \in Setups, NEW c, c.hook \in setup.hooks, c.at \in Nat
    PROVE  /\ Rank(c) \in [1..7 -> Int]
           /\ Rank(c)[1] = Tier(c.hook) /\ Rank(c)[2] = c.at
           /\ Rank(c)[3] = (IF c.hook.control = None THEN 1 ELSE 0)
           /\ \A k \in 1..4 : Rank(c)[k + 3] = SortKey(c.hook)[k]
           /\ Tier(c.hook) \in 0..3
  <1> DEFINE u == Tier(c.hook)
             v == c.at
             w == IF c.hook.control = None THEN 1 ELSE 0
             x == <<u, v, w>>
             y == SortKey(c.hook)
  <1>1. u \in 0..3 /\ v \in Int /\ w \in Int
    BY DEF Tier
  <1>2. y \in [1..4 -> Int] /\ y \in Seq(Int) /\ Len(y) = 4
    BY SortKeyForm
  <1>3. Rank(c) = x \o y
    BY DEF Rank
  <1> HIDE DEF u, v, w, y
  <1>4. x \in Seq(Int) /\ Len(x) = 3 /\ x[1] = u /\ x[2] = v /\ x[3] = w
    BY <1>1
  <1> HIDE DEF x
  <1> DEFINE z == x \o y
  <1>5. /\ z \in Seq(Int) /\ Len(z) = Len(x) + Len(y)
        /\ \A i \in 1..(Len(x) + Len(y)) :
              z[i] = IF i <= Len(x) THEN x[i] ELSE y[i - Len(x)]
    BY <1>2, <1>4, ConcatProperties
  <1> HIDE DEF z
  <1>6. /\ Len(z) = 7
        /\ \A i \in 1..7 : z[i] = IF i <= 3 THEN x[i] ELSE y[i - 3]
    BY <1>2, <1>4, <1>5
  <1>7. z \in [1..7 -> Int]
    BY <1>5, <1>6, LenProperties
  <1>8. z[1] = u /\ z[2] = v /\ z[3] = w
    BY <1>4, <1>6
  <1>9. ASSUME NEW k \in 1..4 PROVE z[k + 3] = y[k]
    <2>1. k + 3 \in 1..7 /\ ~(k + 3 <= 3) /\ (k + 3) - 3 = k
      OBVIOUS
    <2> QED BY <1>6, <2>1
  <1> QED BY <1>1, <1>3, <1>7, <1>8, <1>9 DEF u, v, w, y, z

\* When a candidate precedes another.
LEMMA RankLower ==
    ASSUME setup \in Setups, NEW c, c.hook \in setup.hooks, c.at \in Nat,
           NEW d, d.hook \in setup.hooks, d.at \in Nat
    PROVE  /\ Tier(c.hook) < Tier(d.hook) => Lower(Rank(c), Rank(d))
           /\ Tier(c.hook) = Tier(d.hook) /\ c.at < d.at => Lower(Rank(c), Rank(d))
           /\ /\ Tier(c.hook) = Tier(d.hook) /\ c.at = d.at
              /\ c.hook.control # None /\ d.hook.control = None
              => Lower(Rank(c), Rank(d))
           /\ /\ Tier(c.hook) = Tier(d.hook) /\ c.at = d.at
              /\ c.hook.control = d.hook.control
              /\ Lower(SortKey(c.hook), SortKey(d.hook))
              => Lower(Rank(c), Rank(d))
           /\ Lower(Rank(c), Rank(d)) => ~Lower(Rank(d), Rank(c))
           /\ ~Lower(Rank(c), Rank(c))
  <1> DEFINE a == Rank(c)
             b == Rank(d)
             y == SortKey(c.hook)
             z == SortKey(d.hook)
  <1>1. /\ a \in [1..7 -> Int] /\ b \in [1..7 -> Int]
        /\ a[1] = Tier(c.hook) /\ b[1] = Tier(d.hook)
        /\ a[2] = c.at /\ b[2] = d.at
        /\ a[3] = (IF c.hook.control = None THEN 1 ELSE 0)
        /\ b[3] = (IF d.hook.control = None THEN 1 ELSE 0)
        /\ \A k \in 1..4 : a[k + 3] = y[k] /\ b[k + 3] = z[k]
    BY RankForm
  <1>2. y \in [1..4 -> Int] /\ z \in [1..4 -> Int]
    BY SortKeyForm
  <1> HIDE DEF a, b, y, z
  <1>3. (Lower(a, b) => ~Lower(b, a)) /\ ~Lower(a, a)
    BY <1>1, LowerOrder
  <1>4. ASSUME NEW i \in 1..7, a[i] < b[i], \A k \in 1..(i - 1) : a[k] = b[k]
        PROVE  Lower(a, b)
    BY <1>1, <1>4 DEF Lower
  <1>5. a[1] < b[1] => Lower(a, b)
    BY <1>4
  <1>6. a[1] = b[1] /\ a[2] < b[2] => Lower(a, b)
    BY <1>4
  <1>7. a[1] = b[1] /\ a[2] = b[2] /\ a[3] < b[3] => Lower(a, b)
    BY <1>4
  <1>8. ASSUME a[1] = b[1], a[2] = b[2], a[3] = b[3], Lower(y, z) PROVE Lower(a, b)
    <2>1. PICK i \in 1..4 : y[i] < z[i] /\ \A k \in 1..(i - 1) : y[k] = z[k]
      BY <1>2, <1>8 DEF Lower
    <2>2. i + 3 \in 1..7 /\ (i + 3) - 1 = i + 2
      OBVIOUS
    <2>3. a[i + 3] < b[i + 3]
      BY <1>1, <2>1
    <2>4. ASSUME NEW k \in 1..((i + 3) - 1) PROVE a[k] = b[k]
      <3>1. CASE k <= 3
        <4>1. k = 1 \/ k = 2 \/ k = 3
          BY <3>1
        <4> QED BY <1>8, <4>1
      <3>2. CASE k > 3
        <4>1. k - 3 \in 1..(i - 1) /\ k - 3 \in 1..4 /\ (k - 3) + 3 = k
          BY <3>2
        <4> QED BY <1>1, <2>1, <4>1
      <3> QED BY <3>1, <3>2
    <2> DEFINE m == i + 3
    <2> HIDE DEF m
    <2>5. m \in 1..7 /\ a[m] < b[m] /\ \A k \in 1..(m - 1) : a[k] = b[k]
      BY <2>2, <2>3, <2>4 DEF m
    <2> QED BY <1>4, <2>5
  <1> QED BY <1>1, <1>3, <1>5, <1>6, <1>7, <1>8 DEF a, b, y, z

\* A hook of the ladder, asked for no identifier, and a hook of the core
\* service, asked for one of the request's.
LEMMA CandidateForm ==
    ASSUME setup \in Setups, NEW r \in setup.requests
    PROVE  /\ \A c \in Candidates(r) :
                 /\ c = Cand(c.hook, c.at) /\ c.hook \in setup.hooks /\ c.at \in Nat
                 /\ c.at > 0 => Tier(c.hook) = 3 /\ r.sid \in Nesting /\ c.at \in DOMAIN r.ids
                 /\ c.at = 0 => Tier(c.hook) < 3
           /\ \A h \in setup.hooks :
                 Cand(h, 0) \in Candidates(r)
                    <=> h.kind = "observer" \/ (h.kind = "service" /\ h.key \in {None, r.sid})
           /\ \A h \in setup.hooks, i \in DOMAIN r.ids :
                 Cand(h, i) \in Candidates(r)
                    <=> /\ h.kind = r.sid /\ h.key = r.ids[i]
                        /\ h.control \in {None, r.control}
  <1>1. /\ r.sid \notin {None, "observer", "service"}
        /\ Len(r.ids) \in Nat /\ DOMAIN r.ids = 1..Len(r.ids)
    BY RequestForm
  <1>2. \A i \in DOMAIN r.ids : i \in Nat /\ i > 0
    BY <1>1
  <1>3. \A h \in setup.hooks : h.kind \in Kinds
    BY HookForm
  <1> DEFINE L == {g \in setup.hooks : \/ g.kind = "observer"
                                       \/ g.kind = "service" /\ g.key \in {None, r.sid}}
             A == {[hook |-> h, at |-> 0] : h \in L}
             B == {c \in [hook : setup.hooks, at : DOMAIN r.ids] :
                      /\ c.hook.kind = r.sid
                      /\ c.hook.key = r.ids[c.at]
                      /\ c.hook.control \in {None, r.control}}
  <1>4. Candidates(r) = A \cup B
    BY DEF Candidates
  <1>5. ASSUME NEW c \in A
        PROVE  /\ c = Cand(c.hook, c.at) /\ c.hook \in setup.hooks /\ c.at = 0
               /\ Tier(c.hook) < 3
    <2>1. PICK h \in L : c = [hook |-> h, at |-> 0]
      BY <1>5
    <2>2. Tier(h) < 3
      BY <2>1 DEF Tier
    <2> QED BY <2>1, <2>2 DEF Cand
  <1>6. ASSUME NEW c \in B
        PROVE  /\ c = Cand(c.hook, c.at) /\ c.hook \in setup.hooks
               /\ c.at \in DOMAIN r.ids /\ c.at \in Nat /\ c.at > 0
               /\ Tier(c.hook) = 3 /\ r.sid \in Nesting
    <2>1. c = [hook |-> c.hook, at |-> c.at] /\ c.hook \in setup.hooks /\ c.at \in DOMAIN r.ids
          /\ c.hook.kind = r.sid
      BY <1>6
    <2>2. Tier(c.hook) = 3
      BY <1>1, <2>1 DEF Tier
    <2>3. r.sid \in Nesting
      BY <1>1, <1>3, <2>1 DEF Kinds
    <2> QED BY <1>2, <2>1, <2>2, <2>3 DEF Cand
  <1>7. ASSUME NEW h \in setup.hooks
        PROVE  Cand(h, 0) \in A \cup B
                  <=> h.kind = "observer" \/ (h.kind = "service" /\ h.key \in {None, r.sid})
    <2>1. Cand(h, 0) \notin B
      <3>1. Cand(h, 0).at = 0
        BY DEF Cand
      <3> QED BY <1>6, <3>1
    <2>2. Cand(h, 0) \in A <=> h \in L
      <3>1. Cand(h, 0) \in A => \E g \in L : g = h
        <4>1. ASSUME NEW g \in L, Cand(h, 0) = [hook |-> g, at |-> 0] PROVE g = h
          <5>1. Cand(h, 0).hook = h /\ [hook |-> g, at |-> 0].hook = g
            BY DEF Cand
          <5> QED BY <4>1, <5>1
        <4> QED BY <4>1
      <3>2. h \in L => Cand(h, 0) \in A
        BY DEF Cand
      <3> QED BY <3>1, <3>2
    <2> QED BY <2>1, <2>2
  <1>8. ASSUME NEW h \in setup.hooks, NEW i \in DOMAIN r.ids
        PROVE  Cand(h, i) \in A \cup B
                  <=> /\ h.kind = r.sid /\ h.key = r.ids[i]
                      /\ h.control \in {None, r.control}
    <2>1. Cand(h, i).at = i /\ Cand(h, i).hook = h
      BY DEF Cand
    <2>2. Cand(h, i) \notin A
      BY <1>2, <1>5, <2>1
    <2>3. Cand(h, i) \in [hook : setup.hooks, at : DOMAIN r.ids]
      BY DEF Cand
    <2> QED BY <2>1, <2>2, <2>3
  <1> HIDE DEF A, B
  <1> QED BY <1>4, <1>5, <1>6, <1>7, <1>8

\* q lists the hooks of S, which are asked for identifier i, in order.
Lists(q, S, i) ==
    /\ q \in Seq(setup.hooks)
    /\ \A k \in DOMAIN q : q[k] \in S
    /\ \A h \in S : \E k \in DOMAIN q : q[k] = h
    /\ \A k, m \in DOMAIN q :
          k < m => Lower(Rank(Cand(q[k], i)), Rank(Cand(q[m], i)))

\* Two lists make one when the hooks of the first precede those of the second.
LEMMA ListsConcat ==
    ASSUME NEW p, NEW q, NEW S, NEW T, NEW i, Lists(p, S, i), Lists(q, T, i),
           \A g \in S, h \in T : Lower(Rank(Cand(g, i)), Rank(Cand(h, i)))
    PROVE  Lists(p \o q, S \cup T, i)
  <1> DEFINE z == p \o q
             a == Len(p)
             b == Len(q)
  <1>1. /\ p \in Seq(setup.hooks) /\ q \in Seq(setup.hooks)
        /\ \A k \in DOMAIN p : p[k] \in S
        /\ \A k \in DOMAIN q : q[k] \in T
        /\ \A h \in S : \E k \in DOMAIN p : p[k] = h
        /\ \A h \in T : \E k \in DOMAIN q : q[k] = h
        /\ \A k, m \in DOMAIN p :
              k < m => Lower(Rank(Cand(p[k], i)), Rank(Cand(p[m], i)))
        /\ \A k, m \in DOMAIN q :
              k < m => Lower(Rank(Cand(q[k], i)), Rank(Cand(q[m], i)))
    BY DEF Lists
  <1>2. /\ DOMAIN p = 1..a /\ DOMAIN q = 1..b /\ a \in Nat /\ b \in Nat
    BY <1>1, LenProperties
  <1>3. /\ z \in Seq(setup.hooks) /\ Len(z) = a + b
        /\ \A k \in 1..(a + b) : z[k] = IF k <= a THEN p[k] ELSE q[k - a]
    BY <1>1, ConcatProperties
  <1>4. DOMAIN z = 1..(a + b)
    BY <1>3, LenProperties
  <1> HIDE DEF z, a, b
  <1>5. ASSUME NEW k \in 1..(a + b)
        PROVE  \/ k <= a /\ k \in DOMAIN p /\ z[k] = p[k] /\ z[k] \in S
               \/ k > a /\ k - a \in DOMAIN q /\ z[k] = q[k - a] /\ z[k] \in T
    BY <1>1, <1>2, <1>3
  <1>6. ASSUME NEW h \in S \cup T PROVE \E k \in DOMAIN z : z[k] = h
    <2>1. CASE h \in S
      <3>1. PICK k \in DOMAIN p : p[k] = h
        BY <1>1, <2>1
      <3>2. k \in 1..(a + b) /\ k <= a
        BY <1>2
      <3> QED BY <1>3, <1>4, <3>1, <3>2
    <2>2. CASE h \in T
      <3>1. PICK k \in DOMAIN q : q[k] = h
        BY <1>1, <2>2
      <3>2. k + a \in 1..(a + b) /\ ~(k + a <= a) /\ (k + a) - a = k
        BY <1>2
      <3> QED BY <1>3, <1>4, <3>1, <3>2
    <2> QED BY <2>1, <2>2
  <1>7. ASSUME NEW k \in 1..(a + b), NEW m \in 1..(a + b), k < m
        PROVE  Lower(Rank(Cand(z[k], i)), Rank(Cand(z[m], i)))
    <2>1. CASE m <= a
      <3>1. k \in DOMAIN p /\ m \in DOMAIN p /\ z[k] = p[k] /\ z[m] = p[m]
        BY <1>2, <1>5, <1>7, <2>1
      <3> QED BY <1>1, <1>7, <3>1
    <2>2. CASE k <= a /\ m > a
      BY <1>2, <1>5, <2>2
    <2>3. CASE k > a
      <3>1. /\ k - a \in DOMAIN q /\ m - a \in DOMAIN q /\ k - a < m - a
            /\ z[k] = q[k - a] /\ z[m] = q[m - a]
        BY <1>2, <1>5, <1>7, <2>3
      <3> QED BY <1>1, <3>1
    <2> QED BY <1>2, <2>1, <2>2, <2>3
  <1>8. \A k \in DOMAIN z : z[k] \in S \cup T
    BY <1>4, <1>5
  <1>9. Lists(z, S \cup T, i)
    BY <1>3, <1>4, <1>6, <1>7, <1>8 DEF Lists
  <1> QED BY <1>9 DEF z

\* A bucket lists its hooks.
LEMMA BucketLists ==
    ASSUME setup \in Setups, NEW kind, NEW key, NEW control, NEW i \in Nat
    PROVE  Lists(Bucket(kind, key, control), Hooks(kind, key, control), i)
  <1> DEFINE q == Bucket(kind, key, control)
             S == Hooks(kind, key, control)
  <1>1. /\ q \in Seq(setup.hooks)
        /\ \A k \in DOMAIN q : q[k] \in S
        /\ \A h \in S : \E k \in DOMAIN q : q[k] = h
        /\ \A k, m \in DOMAIN q : k < m => Lower(SortKey(q[k]), SortKey(q[m]))
    BY BucketForm
  <1>2. \A h \in S : /\ h \in setup.hooks /\ h.kind = kind /\ h.key = key
                     /\ h.control = control
    BY DEF Hooks
  <1> HIDE DEF q, S
  <1>3. ASSUME NEW g \in S, NEW h \in S, Lower(SortKey(g), SortKey(h))
        PROVE  Lower(Rank(Cand(g, i)), Rank(Cand(h, i)))
    <2> DEFINE c == Cand(g, i)
               d == Cand(h, i)
    <2>1. c.hook = g /\ c.at = i /\ d.hook = h /\ d.at = i
      BY DEF Cand
    <2>2. Tier(g) = Tier(h) /\ g.control = h.control /\ g \in setup.hooks /\ h \in setup.hooks
      BY <1>2 DEF Tier
    <2> HIDE DEF c, d
    <2>3. Lower(Rank(c), Rank(d))
      BY <1>3, <2>1, <2>2, RankLower
    <2> QED BY <2>3 DEF c, d
  <1>4. Lists(q, S, i)
    BY <1>1, <1>3 DEF Lists
  <1> QED BY <1>4 DEF q, S

\* The hooks that may be asked for identifier i of r.
AskedFor(r, i) == {h \in setup.hooks : Cand(h, i) \in Candidates(r)}

\* The ladder lists its candidates: observers, hooks of the service, hooks of
\* any service.
LEMMA LadderLists ==
    ASSUME setup \in Setups, NEW r \in setup.requests
    PROVE  Lists(Ladder(r), AskedFor(r, 0), 0)
  <1> DEFINE O == Hooks("observer", None, None)
             S == Hooks("service", r.sid, None)
             T == Hooks("service", None, None)
  <1>1. r.sid \notin {None, "observer", "service"}
    BY RequestForm
  <1>2. /\ \A h \in O : h \in setup.hooks /\ Tier(h) = 0
        /\ \A h \in S : h \in setup.hooks /\ Tier(h) = 1
        /\ \A h \in T : h \in setup.hooks /\ Tier(h) = 2
    BY <1>1 DEF Hooks, Tier
  <1>3. AskedFor(r, 0) = (O \cup S) \cup T
    <2>1. \A h \in setup.hooks :
             h \in AskedFor(r, 0)
                <=> h.kind = "observer" \/ (h.kind = "service" /\ h.key \in {None, r.sid})
      BY CandidateForm DEF AskedFor
    <2>2. \A h \in setup.hooks : /\ h.kind = "observer" => h.key = None
                                 /\ h.kind # "routine" => h.control = None
      BY HookForm
    <2>3. \A h \in setup.hooks :
             h \in (O \cup S) \cup T
                <=> h.kind = "observer" \/ (h.kind = "service" /\ h.key \in {None, r.sid})
      BY <2>2 DEF Hooks
    <2>4. AskedFor(r, 0) \subseteq setup.hooks /\ (O \cup S) \cup T \subseteq setup.hooks
      BY DEF AskedFor, Hooks
    <2> QED BY <2>1, <2>3, <2>4
  <1>4. ASSUME NEW g \in setup.hooks, NEW h \in setup.hooks, Tier(g) < Tier(h)
        PROVE  Lower(Rank(Cand(g, 0)), Rank(Cand(h, 0)))
    <2> DEFINE c == Cand(g, 0)
               d == Cand(h, 0)
    <2>1. c.hook = g /\ c.at = 0 /\ d.hook = h /\ d.at = 0 /\ 0 \in Nat
      BY DEF Cand
    <2> HIDE DEF c, d
    <2>2. Lower(Rank(c), Rank(d))
      BY <1>4, <2>1, RankLower
    <2> QED BY <2>2 DEF c, d
  <1> DEFINE o == Bucket("observer", None, None)
             s == Bucket("service", r.sid, None)
             u == Bucket("service", None, None)
  <1>5. 0 \in Nat /\ Lists(o, O, 0) /\ Lists(s, S, 0) /\ Lists(u, T, 0)
    BY BucketLists
  <1>6. Ladder(r) = (o \o s) \o u
    BY DEF Ladder
  <1> HIDE DEF O, S, T, o, s, u
  <1>7. \A g \in O, h \in S : Lower(Rank(Cand(g, 0)), Rank(Cand(h, 0)))
    BY <1>2, <1>4
  <1>8. \A g \in O \cup S, h \in T : Lower(Rank(Cand(g, 0)), Rank(Cand(h, 0)))
    BY <1>2, <1>4
  <1>9. Lists(o \o s, O \cup S, 0)
    BY <1>5, <1>7, ListsConcat
  <1>10. Lists((o \o s) \o u, (O \cup S) \cup T, 0)
    BY <1>5, <1>8, <1>9, ListsConcat
  <1> QED BY <1>3, <1>6, <1>10

\* The hooks that the core service consults for an identifier: of a routine,
\* those for the control before those for any; of another service none.
LEMMA NestedLists ==
    ASSUME setup \in Setups, NEW r \in setup.requests, NEW i \in Nat, i > 0,
           i \in DOMAIN r.ids \/ r.sid \notin Nesting
    PROVE  Lists(Nested(r, i), AskedFor(r, i), i)
  <1>1. /\ r.sid \notin {None, "observer", "service"}
        /\ r.sid = "routine" => r.control # None
    BY RequestForm
  <1>2. ASSUME i \in DOMAIN r.ids, NEW h
        PROVE  h \in AskedFor(r, i) <=> /\ h \in setup.hooks
                                        /\ h.kind = r.sid /\ h.key = r.ids[i]
                                        /\ h.control \in {None, r.control}
    BY <1>2, CandidateForm DEF AskedFor
  <1>3. CASE r.sid \notin Nesting
    <2>1. Nested(r, i) = <<>>
      BY <1>3 DEF Nested, Nesting
    <2>2. AskedFor(r, i) = {}
      <3>1. ASSUME NEW h \in AskedFor(r, i) PROVE FALSE
        <4>1. Cand(h, i) \in Candidates(r) /\ Cand(h, i).at = i
          BY <3>1 DEF AskedFor, Cand
        <4> QED BY <1>3, <4>1, CandidateForm
      <3> QED BY <3>1
    <2>3. Lists(<<>>, {}, i)
      BY DEF Lists
    <2> QED BY <2>1, <2>2, <2>3
  <1>4. CASE r.sid \in {"read", "write"}
    <2>1. i \in DOMAIN r.ids
      BY <1>4 DEF Nesting
    <2>2. Nested(r, i) = Bucket(r.sid, r.ids[i], None)
      BY <1>4 DEF Nested
    <2>3. AskedFor(r, i) = Hooks(r.sid, r.ids[i], None)
      BY <1>2, <1>4, <2>1, HookForm DEF Hooks
    <2> QED BY <2>2, <2>3, BucketLists
  <1>5. CASE r.sid = "routine"
    <2>1. i \in DOMAIN r.ids
      BY <1>5 DEF Nesting
    <2> DEFINE S == Hooks("routine", r.ids[i], r.control)
               T == Hooks("routine", r.ids[i], None)
               p == Bucket("routine", r.ids[i], r.control)
               q == Bucket("routine", r.ids[i], None)
    <2>2. Nested(r, i) = p \o q
      BY <1>5 DEF Nested
    <2>3. AskedFor(r, i) = S \cup T
      BY <1>2, <1>5, <2>1 DEF Hooks
    <2>4. Lists(p, S, i) /\ Lists(q, T, i)
      BY BucketLists
    <2>5. ASSUME NEW g \in S, NEW h \in T
          PROVE  Lower(Rank(Cand(g, i)), Rank(Cand(h, i)))
      <3> DEFINE c == Cand(g, i)
                 d == Cand(h, i)
      <3>1. /\ g \in setup.hooks /\ h \in setup.hooks /\ Tier(g) = Tier(h)
            /\ g.control # None /\ h.control = None
        BY <1>1, <1>5, <2>5 DEF Hooks, Tier
      <3>2. c.hook = g /\ c.at = i /\ d.hook = h /\ d.at = i
        BY DEF Cand
      <3> HIDE DEF c, d
      <3>3. Lower(Rank(c), Rank(d))
        BY <3>1, <3>2, RankLower
      <3> QED BY <3>3 DEF c, d
    <2> HIDE DEF S, T, p, q
    <2>6. Lists(p \o q, S \cup T, i)
      BY <2>4, <2>5, ListsConcat
    <2> QED BY <2>2, <2>3, <2>6
  <1> QED BY <1>3, <1>4, <1>5 DEF Nesting

\* A call has the rank of the candidate it asks.
LEMMA CallRank ==
    ASSUME NEW d
    PROVE  Rank(d) = Rank(Cand(d.hook, d.at))
  <1>1. Cand(d.hook, d.at).hook = d.hook /\ Cand(d.hook, d.at).at = d.at
    BY DEF Cand
  <1> QED BY <1>1 DEF Rank

\* What has been declined or settled stays so as calls are added.
LEMMA CallsGrow ==
    ASSUME NEW j, NEW k, j.calls \subseteq k.calls, NEW c
    PROVE  /\ Passed(j, c) => Passed(k, c)
           /\ \A i, m \in Int : c.at \in Int /\ Settled(j, c, i) /\ m > c.at => Settled(k, c, m)
  <1>1. Passed(j, c) => Passed(k, c)
    BY DEF Passed, Asked
  <1>2. ASSUME NEW i \in Int, NEW m \in Int, Settled(j, c, i), m > c.at
        PROVE  Settled(k, c, m)
    BY <1>2 DEF Settled
  <1> QED BY <1>1, <1>2

\* The calls of a dispatch ask its candidates, in their order.
Calls(j) == InOrder(j) /\ \A d \in j.calls : Cand(d.hook, d.at) \in Candidates(j.req)

\* Of j, what is before identifier i is done with.
Done(j, i) ==
    \A c \in Candidates(j.req) :
        c.at < i => Passed(j, c) \/ (c.at > 0 /\ Settled(j, c, i))

\* Only the calls and the request matter for that.
LEMMA CallsSame ==
    ASSUME NEW j, NEW k, k.calls = j.calls, k.req = j.req, NEW i
    PROVE  (Calls(j) => Calls(k)) /\ (Done(j, i) => Done(k, i))
  BY DEF Calls, Done, InOrder, Passed, Asked, Settled

\* The hooks that a dispatch has still to call are ranked, the first lowest.
LEMMA HeadLowest ==
    ASSUME setup \in Setups, NEW j, j.req \in setup.requests, Waiting(j),
           j.at \in Nat, j.todo # <<>>, NEW c \in Candidates(j.req), c.at = j.at,
           ~Passed(j, c)
    PROVE  ~Lower(Rank(c), Rank(Cand(Head(j.todo), j.at)))
  <1> DEFINE h == Head(j.todo)
             e == Cand(h, j.at)
  <1>1. 1 \in DOMAIN j.todo /\ h = j.todo[1] /\ DOMAIN j.todo = 1..Len(j.todo)
        /\ Len(j.todo) \in Nat
    <2>1. j.todo \in Seq(setup.hooks)
      BY DEF Waiting
    <2> QED BY <2>1, LenProperties, EmptySeq, HeadTailProperties
  <1>2. PICK m \in DOMAIN j.todo : c.hook = j.todo[m]
    BY DEF Waiting
  <1>3. c = Cand(j.todo[m], j.at) /\ e \in Candidates(j.req) /\ e = Cand(j.todo[1], j.at)
    BY <1>1, <1>2, CandidateForm DEF Waiting
  <1>4. c.hook \in setup.hooks /\ e.hook \in setup.hooks /\ c.at \in Nat /\ e.at \in Nat
    BY <1>3, CandidateForm
  <1>5. m = 1 \/ 1 < m
    BY <1>1, <1>2
  <1>6. c = e \/ Lower(Rank(e), Rank(c))
    BY <1>1, <1>2, <1>3, <1>5 DEF Waiting
  <1> HIDE DEF e
  <1>7. ~Lower(Rank(c), Rank(e))
    BY <1>4, <1>6, RankLower
  <1> QED BY <1>7 DEF e

\* A candidate for a later identifier does not precede one for an earlier.
LEMMA LaterHigher ==
    ASSUME setup \in Setups, NEW r \in setup.requests,
           NEW c \in Candidates(r), NEW d \in Candidates(r), d.at < c.at
    PROVE  ~Lower(Rank(c), Rank(d))
  <1>1. /\ c.hook \in setup.hooks /\ d.hook \in setup.hooks /\ c.at \in Nat /\ d.at \in Nat
        /\ c.at > 0 => Tier(c.hook) = 3
        /\ d.at > 0 => Tier(d.hook) = 3
        /\ d.at = 0 => Tier(d.hook) < 3
    BY CandidateForm
  <1>2. Tier(d.hook) < Tier(c.hook) \/ (Tier(d.hook) = Tier(c.hook) /\ d.at < c.at)
    BY <1>1
  <1>3. Lower(Rank(d), Rank(c))
    BY <1>1, <1>2, RankLower
  <1> QED BY <1>1, <1>3, RankLower

\* The first of the hooks to call is called: all that precede it have declined
\* or are settled.
LEMMA CallInOrder ==
    ASSUME setup \in Setups, NEW j, j.req \in setup.requests, Calls(j), Waiting(j),
           j.at \in Nat, j.todo # <<>>, NEW e, e.hook = Head(j.todo), e.at = j.at,
           NEW k, k.req = j.req, k.calls = j.calls \cup {e}
    PROVE  Calls(k)
  <1> DEFINE b == Cand(e.hook, e.at)
  <1>1. b \in Candidates(j.req)
    <2>1. j.todo \in Seq(setup.hooks)
      BY DEF Waiting
    <2>2. 1 \in DOMAIN j.todo /\ e.hook = j.todo[1]
      BY <2>1, LenProperties, EmptySeq, HeadTailProperties
    <2> QED BY <2>2 DEF Waiting
  <1>2. b.at = j.at /\ b.hook = e.hook
    BY DEF Cand
  <1>3. ASSUME NEW c \in Candidates(j.req), Lower(Rank(c), Rank(e))
        PROVE  Settled(k, c, e.at) \/ Passed(k, c)
    <2>1. Rank(e) = Rank(b)
      BY CallRank
    <2>2. c.at \in Nat
      BY CandidateForm
    <2>3. CASE c.at > j.at
      BY <1>1, <1>2, <1>3, <2>1, <2>3, LaterHigher
    <2>4. CASE c.at = j.at
      <3>1. Passed(j, c)
        BY <1>3, <2>1, <2>4, HeadLowest
      <3> QED BY <3>1, CallsGrow
    <2>5. CASE c.at < j.at
      <3>1. Passed(j, c) \/ Settled(j, c, j.at)
        BY <2>5 DEF Waiting
      <3> QED BY <2>2, <2>5, <3>1, CallsGrow
    <2> QED BY <2>2, <2>3, <2>4, <2>5
  <1>4. ASSUME NEW d \in j.calls, NEW c \in Candidates(j.req), Lower(Rank(c), Rank(d))
        PROVE  Settled(k, c, d.at) \/ Passed(k, c)
    <2>1. Settled(j, c, d.at) \/ Passed(j, c)
      BY <1>4 DEF Calls, InOrder
    <2>2. Settled(j, c, d.at) => Settled(k, c, d.at)
      BY DEF Settled
    <2> QED BY <2>1, <2>2, CallsGrow
  <1>5. InOrder(k)
    BY <1>3, <1>4 DEF InOrder
  <1>6. \A d \in k.calls : Cand(d.hook, d.at) \in Candidates(k.req)
    BY <1>1 DEF Calls
  <1> QED BY <1>5, <1>6 DEF Calls

\* The hook has passed on: the others wait.
LEMMA PassedOn ==
    ASSUME setup \in Setups, NEW j, j.req \in setup.requests, Waiting(j),
           j.at \in Nat, j.todo # <<>>, NEW e, e.hook = Head(j.todo), e.at = j.at,
           Declined(e), NEW k, k.req = j.req, k.calls = j.calls \cup {e},
           k.at = j.at, k.result = j.result, k.todo = Tail(j.todo)
    PROVE  Waiting(k)
  <1>1. /\ j.todo \in Seq(setup.hooks) /\ j.result = None
        /\ \A i \in DOMAIN j.todo : Cand(j.todo[i], j.at) \in Candidates(j.req)
        /\ \A i, m \in DOMAIN j.todo :
              i < m => Lower(Rank(Cand(j.todo[i], j.at)), Rank(Cand(j.todo[m], j.at)))
    BY DEF Waiting
  <1> DEFINE q == j.todo
             n == Len(q)
             p == Tail(q)
  <1>2. /\ p \in Seq(setup.hooks) /\ Head(q) = q[1] /\ n \in Nat \ {0}
        /\ DOMAIN q = 1..n /\ DOMAIN p = 1..(n - 1)
        /\ \A i \in 1..(n - 1) : p[i] = q[i + 1]
    <2>1. n \in Nat \ {0} /\ DOMAIN q = 1..n
      BY <1>1, EmptySeq, LenProperties
    <2>2. /\ p \in Seq(setup.hooks) /\ Len(p) = n - 1
          /\ \A i \in 1..Len(p) : p[i] = q[i + 1]
      BY <1>1, HeadTailProperties
    <2>3. DOMAIN p = 1..Len(p)
      BY <2>2, LenProperties
    <2> QED BY <1>1, <2>1, <2>2, <2>3
  <1> HIDE DEF q, n, p
  <1>3. \A i \in 1..(n - 1) : i + 1 \in 1..n /\ p[i] = q[i + 1]
    BY <1>2
  <1>4. \A i \in DOMAIN p : Cand(p[i], j.at) \in Candidates(j.req)
    BY <1>1, <1>2, <1>3 DEF q
  <1>5. ASSUME NEW i \in DOMAIN p, NEW m \in DOMAIN p, i < m
        PROVE  Lower(Rank(Cand(p[i], j.at)), Rank(Cand(p[m], j.at)))
    <2>1. /\ i + 1 \in DOMAIN q /\ m + 1 \in DOMAIN q /\ i + 1 < m + 1
          /\ p[i] = q[i + 1] /\ p[m] = q[m + 1]
      BY <1>2, <1>3, <1>5
    <2> QED BY <1>1, <2>1 DEF q
  <1>6. ASSUME NEW c \in Candidates(j.req), c.at = j.at
        PROVE  Passed(k, c) \/ \E i \in DOMAIN p : c.hook = p[i]
    <2>1. CASE Passed(j, c)
      BY <2>1, CallsGrow
    <2>2. ASSUME NEW i \in DOMAIN q, c.hook = q[i]
          PROVE  Passed(k, c) \/ \E m \in DOMAIN p : c.hook = p[m]
      <3>1. CASE i = 1
        <4>1. e \in Asked(k, c)
          BY <1>2, <1>6, <2>2, <3>1 DEF Asked, q
        <4> QED BY <4>1 DEF Passed
      <3>2. CASE i # 1
        <4>1. i - 1 \in 1..(n - 1) /\ (i - 1) + 1 = i
          BY <1>2, <2>2, <3>2
        <4>2. i - 1 \in DOMAIN p /\ p[i - 1] = q[i]
          BY <1>2, <4>1
        <4> QED BY <2>2, <4>2
      <3> QED BY <3>1, <3>2
    <2>3. Passed(j, c) \/ \E i \in DOMAIN q : c.hook = q[i]
      BY <1>6 DEF Waiting, q
    <2> QED BY <2>1, <2>2, <2>3
  <1>7. ASSUME NEW c \in Candidates(j.req), c.at < j.at
        PROVE  Passed(k, c) \/ (c.at > 0 /\ Settled(k, c, j.at))
    <2>1. Passed(j, c) \/ (c.at > 0 /\ Settled(j, c, j.at))
      BY <1>7 DEF Waiting
    <2>2. c.at \in Nat
      BY CandidateForm
    <2> QED BY <1>7, <2>1, <2>2, CallsGrow
  <1>8. k.todo = p
    BY DEF p, q
  <1> QED BY <1>1, <1>2, <1>4, <1>5, <1>6, <1>7, <1>8 DEF Waiting

\* A hook has answered for an identifier of a read: the identifier is settled.
LEMMA BytesDone ==
    ASSUME setup \in Setups, NEW j, j.req \in setup.requests, Waiting(j),
           j.at \in Nat, j.at > 0, j.todo # <<>>, NEW e, e.hook = Head(j.todo), e.at = j.at,
           e.hook.kind = "read", e.out = "bytes",
           NEW k, k.req = j.req, k.calls = j.calls \cup {e}
    PROVE  Done(k, j.at + 1)
  <1>1. SUFFICES ASSUME NEW c \in Candidates(j.req), c.at < j.at + 1, ~Passed(k, c)
                 PROVE  c.at > 0 /\ Settled(k, c, j.at + 1)
    BY DEF Done
  <1>2. c.at \in Nat /\ j.at + 1 > c.at /\ ~Passed(j, c)
    BY <1>1, CandidateForm, CallsGrow
  <1>3. CASE c.at = j.at
    <2>1. ~Lower(Rank(c), Rank(Cand(e.hook, e.at)))
      BY <1>2, <1>3, HeadLowest
    <2>2. ~Lower(Rank(c), Rank(e))
      BY <2>1, CallRank
    <2> QED BY <1>2, <1>3, <2>2 DEF Settled
  <1>4. CASE c.at < j.at
    <2>1. c.at > 0 /\ Settled(j, c, j.at)
      BY <1>2, <1>4 DEF Waiting
    <2> QED BY <1>2, <2>1, CallsGrow
  <1> QED BY <1>1, <1>2, <1>3, <1>4

\* No hook is left to call: the identifier is done with.
LEMMA EmptyDone ==
    ASSUME setup \in Setups, NEW j, j.req \in setup.requests, Waiting(j),
           j.at \in Nat, j.todo = <<>>
    PROVE  Done(j, j.at + 1)
  <1>1. SUFFICES ASSUME NEW c \in Candidates(j.req), c.at < j.at + 1
                 PROVE  Passed(j, c) \/ (c.at > 0 /\ Settled(j, c, j.at + 1))
    BY DEF Done
  <1>2. c.at \in Nat /\ j.at + 1 > c.at /\ j.at + 1 \in Int /\ j.at \in Int
    BY <1>1, CandidateForm
  <1>3. CASE c.at = j.at
    <2>1. DOMAIN j.todo = {}
      OBVIOUS
    <2> QED BY <1>3, <2>1 DEF Waiting
  <1>4. CASE c.at < j.at
    <2>1. Passed(j, c) \/ (c.at > 0 /\ Settled(j, c, j.at))
      BY <1>4 DEF Waiting
    <2> QED BY <1>2, <2>1, CallsGrow
  <1> QED BY <1>1, <1>2, <1>3, <1>4

\* The core service goes on to identifier i.
LEMMA GoesOn ==
    ASSUME setup \in Setups, NEW j, j.req \in setup.requests, Calls(j),
           j.result = None, Served(j.req.sid), NEW i \in Nat, i > 0, Done(j, i),
           i \in DOMAIN j.req.ids \/ j.req.sid \notin Nesting,
           NEW k, k.req = j.req, k.calls = j.calls, k.result = j.result,
           k.stage = "nested", k.at = i, k.todo = Nested(j.req, i)
    PROVE  Claims(k)
  <1>1. Calls(k) /\ Done(k, i)
    BY CallsSame
  <1>2. Lists(k.todo, AskedFor(j.req, i), i)
    BY NestedLists
  <1>3. \A h \in AskedFor(j.req, i) : Cand(h, i) \in Candidates(j.req)
    BY DEF AskedFor
  <1>4. ASSUME NEW c \in Candidates(j.req), c.at = i
        PROVE  \E m \in DOMAIN k.todo : c.hook = k.todo[m]
    <2>1. c.hook \in AskedFor(j.req, i)
      BY <1>4, CandidateForm DEF AskedFor
    <2> QED BY <1>2, <2>1 DEF Lists
  <1>5. Waiting(k)
    BY <1>1, <1>2, <1>3, <1>4 DEF Waiting, Lists, Done
  <1> QED BY <1>1, <1>5 DEF Claims, Calls

\* The core service or the fallback decides.
LEMMA CoreDecides ==
    ASSUME setup \in Setups, NEW j, j.req \in setup.requests, Calls(j),
           j.at \in Nat, Done(j, j.at + 1),
           NEW k, k.req = j.req, k.calls = j.calls, k.at = j.at,
           k.stage = "decided", k.todo = <<>>, k.result.by # "hook",
           k.result.by = "core" <=> Served(j.req.sid)
    PROVE  Claims(k)
  <1>1. Calls(k) /\ Done(k, j.at + 1)
    BY CallsSame
  <1>2. ASSUME NEW c \in Candidates(k.req), c.at <= j.at
        PROVE  Passed(k, c) \/ (c.at > 0 /\ Settled(k, c, Len(k.req.ids) + 1))
    <2>1. c.at \in Nat /\ (c.at > 0 => c.at \in DOMAIN k.req.ids)
      BY CandidateForm
    <2>2. Len(k.req.ids) \in Nat /\ DOMAIN k.req.ids = 1..Len(k.req.ids)
      BY RequestForm
    <2>3. c.at < j.at + 1
      BY <1>2, <2>1
    <2>4. Passed(k, c) \/ (c.at > 0 /\ Settled(k, c, j.at + 1))
      BY <1>1, <2>3 DEF Done
    <2>5. c.at > 0 => Len(k.req.ids) + 1 > c.at
      BY <2>1, <2>2
    <2> QED BY <2>1, <2>2, <2>4, <2>5, CallsGrow
  <1>3. \A c \in Candidates(k.req) : c.at <= j.at \/ c.at > j.at
    BY CandidateForm
  <1>4. ByClaim(k)
    BY <1>2, <1>3 DEF ByClaim
  <1> QED BY <1>1, <1>4 DEF Claims, Calls

\* A hook decides: it has claimed the request.
LEMMA HookDecides ==
    ASSUME NEW k, Calls(k), k.stage = "decided", k.todo = <<>>, k.result.by = "hook",
           NEW e \in k.calls, e.hook = k.result.hook, ~Declined(e),
           k.result.kind = "bytes" <=> e.out = "bytes"
    PROVE  Claims(k)
  <1>1. ByClaim(k)
    BY DEF ByClaim
  <1> QED BY <1>1 DEF Claims, Calls

\* The loop over a bucket goes on exactly when the call has declined, and a
\* hook answers with bytes only by its own.
LEMMA CallMeans ==
    ASSUME setup \in Setups, NEW h \in setup.hooks, NEW out \in Outs,
           NEW e, e.hook = h, e.out = out
    PROVE  /\ PassesOn(h, Call(h, out)) <=> Declined(e)
           /\ Call(h, out) = "bytes" <=> out = "bytes"
           /\ Outcome(h, Call(h, out)) = "bytes" <=> out = "bytes"
  <1>1. h.kind \in Kinds /\ setup.onError \in {"nrc", "fallthrough", "silent"}
    BY HookForm, DispatchAssumption
  <1>2. CASE out # "error"
    <2>1. Call(h, out) = out
      BY <1>2 DEF Call
    <2> QED BY <1>1, <1>2, <2>1 DEF PassesOn, Declined, Outcome, Outs, Kinds, Nesting
  <1>3. CASE out = "error" /\ h.kind = "observer"
    <2>1. Call(h, out) = "none"
      BY <1>3 DEF Call
    <2> QED BY <1>3, <2>1 DEF PassesOn, Declined, Outcome
  <1>4. CASE out = "error" /\ h.kind # "observer"
    <2>1. Call(h, out) = IF setup.onError = "fallthrough" THEN "none"
                         ELSE IF setup.onError = "silent" THEN "suppress" ELSE "nrc"
      BY <1>1, <1>4 DEF Call
    <2> QED BY <1>1, <1>4, <2>1 DEF PassesOn, Declined, Outcome
  <1> QED BY <1>2, <1>3, <1>4

\* A dispatch that is as before, or as k, claims what k claims.
LEMMA ClaimsNext ==
    ASSUME NEW t \in Testers, NEW k, UNCHANGED setup, job'[t] = k, Claims(k)
    PROVE  Claims(job[t])'
  <1>1. Candidates(job[t].req)' = Candidates(k.req)
    BY DEF Candidates
  <1>2. /\ \A d : Declined(d)' <=> Declined(d)
        /\ \A sid : Served(sid)' <=> Served(sid)
    BY DEF Declined, Served
  <1>3. \A c : Passed(job[t], c)' <=> Passed(k, c)
    BY <1>2 DEF Passed, Asked
  <1>4. \A c, i : Settled(job[t], c, i)' <=> Settled(k, c, i)
    BY DEF Settled
  <1>5. InOrder(job[t])' <=> InOrder(k)
    BY <1>1, <1>3, <1>4 DEF InOrder
  <1>6. ByClaim(job[t])' <=> ByClaim(k)
    BY <1>1, <1>2, <1>3, <1>4 DEF ByClaim
  <1>7. Waiting(job[t])' <=> Waiting(k)
    BY <1>1, <1>3, <1>4 DEF Waiting
  <1> QED BY <1>1, <1>2, <1>5, <1>6, <1>7 DEF Claims

\* A step of one dispatch leaves the others as they are.
LEMMA ClaimKeeps ==
    ASSUME RequestInv, ClaimInv, NEW t \in Testers, NEW k, UNCHANGED setup,
           job' = [job EXCEPT ![t] = k], k.stage # "idle" => Claims(k)
    PROVE  ClaimInv'
  <1>1. job'[t] = k
    BY DEF RequestInv
  <1>2. ASSUME NEW u \in Testers, u # t PROVE job'[u] = job[u]
    BY <1>2 DEF RequestInv
  <1>3. ASSUME NEW u \in Testers, job'[u].stage # "idle" PROVE Claims(job[u])'
    <2>1. CASE u = t
      BY <1>1, <1>3, <2>1, ClaimsNext
    <2>2. CASE u # t
      <3>1. Claims(job[u])
        BY <1>2, <1>3, <2>2 DEF ClaimInv
      <3> QED BY <1>2, <2>2, <3>1, ClaimsNext
    <2> QED BY <2>1, <2>2
  <1> QED BY <1>3 DEF ClaimInv

\* A request arrives: its ladder waits.
LEMMA ArriveClaims ==
    ASSUME RequestInv, ClaimInv, NEW t \in Testers, NEW r \in setup.requests,
           Arrive(t, r), UNCHANGED setup
    PROVE  ClaimInv'
  <1> DEFINE k == [Idle EXCEPT !.stage = "ladder", !.req = r, !.todo = Ladder(r)]
  <1>1. /\ k.stage = "ladder" /\ k.req = r /\ k.todo = Ladder(r) /\ k.at = 0
        /\ k.calls = {} /\ k.result = None
    BY DEF Idle
  <1>2. job' = [job EXCEPT ![t] = k]
    BY DEF Arrive
  <1> HIDE DEF k
  <1>3. setup \in Setups
    BY DEF RequestInv
  <1>4. Lists(k.todo, AskedFor(r, 0), 0)
    BY <1>1, <1>3, LadderLists
  <1>5. ASSUME NEW c \in Candidates(r)
        PROVE  /\ c.at \in Nat
               /\ c.at = 0 => \E m \in DOMAIN k.todo : c.hook = k.todo[m]
    <2>1. c = Cand(c.hook, c.at) /\ c.hook \in setup.hooks /\ c.at \in Nat
      BY <1>3, CandidateForm
    <2>2. c.at = 0 => c.hook \in AskedFor(r, 0)
      BY <2>1 DEF AskedFor
    <2> QED BY <1>4, <2>1, <2>2 DEF Lists
  <1>6. \A h \in AskedFor(r, 0) : Cand(h, 0) \in Candidates(r)
    BY DEF AskedFor
  <1>7. Waiting(k)
    BY <1>1, <1>4, <1>5, <1>6 DEF Waiting, Lists
  <1>8. Claims(k)
    BY <1>1, <1>7 DEF Claims, InOrder
  <1> QED BY <1>2, <1>8, ClaimKeeps

\* A dispatch that has hooks to call, or has none left and is not decided.
LEMMA Dispatching ==
    ASSUME RequestInv, ClaimInv, NEW t \in Testers,
           job[t].todo # <<>> \/ job[t].stage \in {"ladder", "nested"}
    PROVE  /\ setup \in Setups /\ DOMAIN job[t] = Fields /\ job[t].req \in setup.requests
           /\ job[t].stage \in {"ladder", "nested"}
           /\ Claims(job[t]) /\ Calls(job[t]) /\ Waiting(job[t]) /\ job[t].at \in Nat
           /\ job[t].stage = "ladder" => job[t].at = 0
           /\ job[t].stage = "nested" => job[t].at > 0 /\ Served(job[t].req.sid)
  <1>1. setup \in Setups /\ About(job[t])
    BY DEF RequestInv
  <1>2. job[t].stage # "idle"
    BY <1>1 DEF About
  <1>3. Claims(job[t])
    BY <1>2 DEF ClaimInv
  <1>4. job[t].stage \in {"ladder", "nested"} /\ Waiting(job[t])
    BY <1>3 DEF Claims
  <1>5. /\ job[t].stage = "ladder" => job[t].at = 0
        /\ job[t].stage = "nested" => job[t].at \in Nat \ {0} /\ Served(job[t].req.sid)
    BY <1>3 DEF Claims
  <1>6. Calls(job[t])
    BY <1>3 DEF Claims, Calls
  <1>7. DOMAIN job[t] = Fields /\ job[t].req \in setup.requests
    BY <1>1, <1>2 DEF About
  <1> QED BY <1>1, <1>3, <1>4, <1>5, <1>6, <1>7

\* The core service goes on to the identifier after j.at, or ends.
LEMMA GoToClaims ==
    ASSUME setup \in Setups, NEW j, DOMAIN j = Fields, j.req \in setup.requests,
           Calls(j), j.result = None, Served(j.req.sid), j.at \in Nat, j.at > 0,
           Done(j, j.at + 1), NEW m \in GoTo(j, j.at + 1)
    PROVE  Claims(m)
  <1>1. Len(j.req.ids) \in Nat /\ DOMAIN j.req.ids = 1..Len(j.req.ids)
    BY RequestForm
  <1>2. CASE j.at + 1 <= Len(j.req.ids)
    <2> DEFINE k == [j EXCEPT !.stage = "nested", !.at = j.at + 1,
                              !.todo = Nested(j.req, j.at + 1)]
    <2>1. /\ k.req = j.req /\ k.calls = j.calls /\ k.result = j.result
          /\ k.stage = "nested" /\ k.at = j.at + 1 /\ k.todo = Nested(j.req, j.at + 1)
      BY DEF Fields
    <2>2. m = k
      BY <1>2 DEF GoTo
    <2> HIDE DEF k
    <2>3. j.at + 1 \in DOMAIN j.req.ids /\ j.at + 1 \in Nat /\ j.at + 1 > 0
      BY <1>1, <1>2
    <2>4. Claims(k)
      BY <2>1, <2>3, GoesOn
    <2> QED BY <2>2, <2>4
  <1>3. CASE ~(j.at + 1 <= Len(j.req.ids))
    <2>1. PICK kind : m = Decide(j, "core", None, kind)
      BY <1>3 DEF GoTo
    <2> DEFINE k == Decide(j, "core", None, kind)
    <2>2. /\ k.req = j.req /\ k.calls = j.calls /\ k.at = j.at /\ k.stage = "decided"
          /\ k.todo = <<>> /\ k.result.by = "core"
      BY DEF Fields, Decide
    <2> HIDE DEF k
    <2>3. Claims(k)
      BY <2>2, CoreDecides
    <2> QED BY <2>1, <2>3 DEF k
  <1> QED BY <1>2, <1>3

\* A hook returns: it passes on, answers for its identifier, or decides.
LEMMA HookReturnsClaims ==
    ASSUME RequestInv, ClaimInv, NEW t \in Testers, HookReturns(t), UNCHANGED setup
    PROVE  ClaimInv'
  <1> DEFINE i == job[t]
             h == Head(i.todo)
  <1>1. i.todo # <<>>
    BY DEF HookReturns
  <1>2. /\ setup \in Setups /\ DOMAIN i = Fields /\ i.req \in setup.requests
        /\ i.stage \in {"ladder", "nested"}
        /\ Claims(i) /\ Calls(i) /\ Waiting(i) /\ i.at \in Nat
        /\ i.stage = "ladder" => i.at = 0
        /\ i.stage = "nested" => i.at > 0 /\ Served(i.req.sid)
    BY <1>1, Dispatching
  <1>3. /\ i.result = None /\ h \in setup.hooks
        /\ Cand(h, i.at) \in Candidates(i.req)
    <2>1. i.result = None /\ i.todo \in Seq(setup.hooks)
      BY <1>2 DEF Waiting
    <2>2. 1 \in DOMAIN i.todo /\ h = i.todo[1] /\ h \in setup.hooks
      BY <1>1, <2>1, LenProperties, EmptySeq, HeadTailProperties
    <2> QED BY <1>2, <2>1, <2>2 DEF Waiting
  <1>4. PICK out \in Outs :
          LET got == Call(h, out)
              j == [i EXCEPT !.todo = Tail(@),
                             !.calls = @ \cup {[hook |-> h, out |-> out, at |-> i.at]}]
          IN \/ PassesOn(h, got) /\ job' = [job EXCEPT ![t] = j]
             \/ /\ ~PassesOn(h, got)
                /\ h.kind = "read" /\ got = "bytes"
                /\ \E m \in GoTo([j EXCEPT !.served = TRUE], j.at + 1) :
                      job' = [job EXCEPT ![t] = m]
             \/ /\ ~PassesOn(h, got)
                /\ job' = [job EXCEPT ![t] = Decide(j, "hook", h, Outcome(h, got))]
    BY DEF HookReturns
  <1> DEFINE got == Call(h, out)
             e == [hook |-> h, out |-> out, at |-> i.at]
             j == [i EXCEPT !.todo = Tail(@), !.calls = @ \cup {e}]
             n == [j EXCEPT !.served = TRUE]
             k == Decide(j, "hook", h, Outcome(h, got))
  <1>5. e.hook = h /\ e.out = out /\ e.at = i.at
    OBVIOUS
  <1>6. /\ DOMAIN j = Fields /\ j.req = i.req /\ j.calls = i.calls \cup {e}
        /\ j.todo = Tail(i.todo) /\ j.at = i.at /\ j.result = i.result /\ j.stage = i.stage
    BY <1>2 DEF Fields
  <1>7. /\ PassesOn(h, got) \/ (h.kind = "read" /\ got = "bytes") \/ ~PassesOn(h, got)
        /\ PassesOn(h, got) => job' = [job EXCEPT ![t] = j]
        /\ ~PassesOn(h, got) => \/ /\ h.kind = "read" /\ got = "bytes"
                                   /\ \E m \in GoTo(n, j.at + 1) :
                                         job' = [job EXCEPT ![t] = m]
                                \/ job' = [job EXCEPT ![t] = k]
    BY <1>4
  <1>8. /\ n.req = i.req /\ n.calls = i.calls \cup {e} /\ n.at = i.at
        /\ n.result = i.result /\ DOMAIN n = Fields
    <2> HIDE DEF i, j, e
    <2> QED BY <1>6 DEF Fields
  <1>9. /\ k.calls = i.calls \cup {e} /\ k.req = i.req /\ k.stage = "decided"
        /\ k.todo = <<>> /\ k.result.by = "hook" /\ k.result.hook = h
        /\ k.result.kind = Outcome(h, got)
    <2> HIDE DEF i, j, e, h, got
    <2> QED BY <1>6 DEF Fields, Decide
  <1>10. /\ PassesOn(h, got) <=> Declined(e)
         /\ got = "bytes" <=> out = "bytes"
         /\ Outcome(h, got) = "bytes" <=> out = "bytes"
    <2> HIDE DEF e, h
    <2> QED BY <1>2, <1>3, <1>5, CallMeans
  <1> HIDE DEF k, n, j, e, got
  <1>11. Calls(j) /\ Calls(n) /\ Calls(k)
    <2> HIDE DEF i
    <2> QED BY <1>1, <1>2, <1>5, <1>6, <1>8, <1>9, CallInOrder DEF h
  <1>12. CASE PassesOn(h, got)
    <2>1. Waiting(j)
      BY <1>1, <1>2, <1>5, <1>6, <1>10, <1>12, PassedOn
    <2>2. Claims(j)
      BY <1>2, <1>3, <1>6, <1>11, <2>1 DEF Claims, Calls
    <2> QED BY <1>7, <1>12, <2>2, ClaimKeeps
  <1>13. CASE job' = [job EXCEPT ![t] = k] /\ ~PassesOn(h, got)
    <2>1. e \in k.calls
      BY <1>9
    <2>2. Claims(k)
      BY <1>5, <1>9, <1>10, <1>11, <1>13, <2>1, HookDecides
    <2> QED BY <1>13, <2>2, ClaimKeeps
  <1>14. CASE /\ h.kind = "read" /\ got = "bytes"
              /\ \E m \in GoTo(n, j.at + 1) : job' = [job EXCEPT ![t] = m]
    <2>1. i.at > 0 /\ Served(i.req.sid)
      <3>1. Tier(h) = 3
        BY <1>14 DEF Tier
      <3>2. Cand(h, i.at).hook = h /\ Cand(h, i.at).at = i.at
        BY DEF Cand
      <3>3. ~(i.at = 0)
        BY <1>2, <1>3, <3>1, <3>2, CandidateForm
      <3> QED BY <1>2, <3>3
    <2>2. Done(n, n.at + 1)
      BY <1>1, <1>2, <1>5, <1>8, <1>10, <1>14, <2>1, BytesDone
    <2>3. \A m \in GoTo(n, n.at + 1) : Claims(m)
      BY <1>2, <1>3, <1>8, <1>11, <2>1, <2>2, GoToClaims
    <2>4. n.at = j.at
      BY <1>6, <1>8
    <2> QED BY <1>14, <2>3, <2>4, ClaimKeeps
  <1> QED BY <1>7, <1>12, <1>13, <1>14

\* The ladder ends: its hooks have declined.
LEMMA LadderEndsClaims ==
    ASSUME RequestInv, ClaimInv, NEW t \in Testers, LadderEnds(t), UNCHANGED setup
    PROVE  ClaimInv'
  <1> DEFINE i == job[t]
  <1>1. i.stage = "ladder" /\ i.todo = <<>>
    BY DEF LadderEnds
  <1>2. /\ setup \in Setups /\ DOMAIN i = Fields /\ i.req \in setup.requests
        /\ Calls(i) /\ Waiting(i) /\ i.at = 0
    BY <1>1, Dispatching
  <1>3. i.result = None /\ 0 \in Nat /\ 1 \in Nat /\ i.at + 1 = 1
    BY <1>2 DEF Waiting
  <1>4. Done(i, 1)
    <2> HIDE DEF i
    <2>1. Done(i, i.at + 1)
      BY <1>1, <1>2, <1>3, EmptyDone
    <2> QED BY <1>3, <2>1
  <1>5. CASE /\ Served(i.req.sid)
             /\ job' = [job EXCEPT ![t].stage = "nested", ![t].at = 1,
                                   ![t].todo = Nested(job[t].req, 1)]
    <2> DEFINE k == [i EXCEPT !.stage = "nested", !.at = 1, !.todo = Nested(i.req, 1)]
    <2>1. job' = [job EXCEPT ![t] = k]
      BY <1>5 DEF RequestInv
    <2>2. /\ k.req = i.req /\ k.calls = i.calls /\ k.result = i.result
          /\ k.stage = "nested" /\ k.at = 1 /\ k.todo = Nested(i.req, 1)
      BY <1>2 DEF Fields
    <2>3. 1 \in DOMAIN i.req.ids \/ i.req.sid \notin Nesting
      BY <1>2, RequestForm
    <2> HIDE DEF k, i
    <2>4. Claims(k)
      BY <1>2, <1>3, <1>4, <1>5, <2>2, <2>3, GoesOn
    <2> QED BY <2>1, <2>4, ClaimKeeps
  <1>6. CASE ~Served(i.req.sid)
    <2>1. PICK kind : job' = [job EXCEPT ![t] = Decide(i, "fallback", None, kind)]
      BY <1>6 DEF LadderEnds
    <2> DEFINE k == Decide(i, "fallback", None, kind)
    <2>2. /\ k.req = i.req /\ k.calls = i.calls /\ k.at = i.at /\ k.stage = "decided"
          /\ k.todo = <<>> /\ k.result.by = "fallback"
      BY <1>2 DEF Fields, Decide
    <2> HIDE DEF k, i
    <2>3. Claims(k)
      BY <1>2, <1>3, <1>4, <1>6, <2>2, CoreDecides
    <2> QED BY <2>1, <2>3, ClaimKeeps DEF k
  <1>7. CASE /\ Served(i.req.sid)
             /\ job' = [job EXCEPT ![t] = Decide(i, "core", None, "nrc")]
    <2> DEFINE k == Decide(i, "core", None, "nrc")
    <2>1. /\ k.req = i.req /\ k.calls = i.calls /\ k.at = i.at /\ k.stage = "decided"
          /\ k.todo = <<>> /\ k.result.by = "core"
      BY <1>2 DEF Fields, Decide
    <2> HIDE DEF k, i
    <2>2. Claims(k)
      BY <1>2, <1>3, <1>4, <1>7, <2>1, CoreDecides
    <2> QED BY <1>7, <2>2, ClaimKeeps DEF k
  <1> QED BY <1>5, <1>6, <1>7 DEF LadderEnds

\* A hook writes through ctx.store: no dispatch changes.
LEMMA HookStoresClaims ==
    ASSUME RequestInv, ClaimInv, NEW t \in Testers, HookStores(t), UNCHANGED setup
    PROVE  ClaimInv'
  <1>1. UNCHANGED job
    BY DEF HookStores
  <1>2. ASSUME NEW u \in Testers, job'[u].stage # "idle" PROVE Claims(job[u])'
    <2>1. Claims(job[u])
      BY <1>1, <1>2 DEF ClaimInv
    <2> QED BY <1>1, <2>1, ClaimsNext
  <1> QED BY <1>2 DEF ClaimInv

\* The core service serves an identifier or the request: the hooks that it has
\* asked have declined.
LEMMA CoreServesClaims ==
    ASSUME RequestInv, ClaimInv, NEW t \in Testers, CoreServes(t), UNCHANGED setup
    PROVE  ClaimInv'
  <1> DEFINE i == job[t]
  <1>1. i.stage = "nested" /\ i.todo = <<>>
    BY DEF CoreServes
  <1>2. /\ setup \in Setups /\ DOMAIN i = Fields /\ i.req \in setup.requests
        /\ Calls(i) /\ Waiting(i) /\ i.at \in Nat /\ i.at > 0 /\ Served(i.req.sid)
    BY <1>1, Dispatching
  <1>3. i.result = None
    BY <1>2 DEF Waiting
  <1>4. Done(i, i.at + 1)
    <2> HIDE DEF i
    <2> QED BY <1>1, <1>2, EmptyDone
  <1>5. ASSUME NEW kind, job' = [job EXCEPT ![t] = Decide(i, "core", None, kind)]
        PROVE  ClaimInv'
    <2> DEFINE k == Decide(i, "core", None, kind)
    <2>1. /\ k.req = i.req /\ k.calls = i.calls /\ k.at = i.at /\ k.stage = "decided"
          /\ k.todo = <<>> /\ k.result.by = "core"
      BY <1>2 DEF Fields, Decide
    <2> HIDE DEF k, i
    <2>2. Claims(k)
      BY <1>2, <1>4, <2>1, CoreDecides
    <2> QED BY <1>5, <2>2, ClaimKeeps DEF k
  <1>6. CASE ReadTable(t)
    <2>1. PICK served :
             LET j == [i EXCEPT !.served = served]
             IN \E k \in GoTo(j, j.at + 1) : job' = [job EXCEPT ![t] = k]
      BY <1>6 DEF ReadTable
    <2> DEFINE j == [i EXCEPT !.served = served]
    <2>2. /\ DOMAIN j = Fields /\ j.req = i.req /\ j.calls = i.calls /\ j.at = i.at
          /\ j.result = i.result
      BY <1>2 DEF Fields
    <2>3. \E k \in GoTo(j, j.at + 1) : job' = [job EXCEPT ![t] = k]
      BY <2>1
    <2> HIDE DEF j, i
    <2>4. Calls(j) /\ Done(j, j.at + 1)
      BY <1>2, <1>4, <2>2, CallsSame
    <2>5. \A k \in GoTo(j, j.at + 1) : Claims(k)
      BY <1>2, <1>3, <2>2, <2>4, GoToClaims
    <2> QED BY <2>3, <2>5, ClaimKeeps
  <1>7. CASE \E kind : job' = [job EXCEPT ![t] = Decide(i, "core", None, kind)]
    BY <1>5, <1>7
  <1> QED BY <1>6, <1>7 DEF CoreServes

\* One step of the dispatcher.
LEMMA ClaimStep ==
    ASSUME RequestInv, ClaimInv, [DispatchNext]_dispatchVars
    PROVE  ClaimInv'
  <1>1. ASSUME UNCHANGED <<setup, job>> PROVE ClaimInv'
    <2>1. ASSUME NEW u \in Testers, job'[u].stage # "idle" PROVE Claims(job[u])'
      <3>1. Claims(job[u])
        BY <1>1, <2>1 DEF ClaimInv
      <3> QED BY <1>1, <3>1, ClaimsNext
    <2> QED BY <2>1 DEF ClaimInv
  <1>2. CASE UNCHANGED dispatchVars
    BY <1>1, <1>2 DEF dispatchVars
  <1>3. CASE DispatchNext
    <2>1. PICK t \in setup.testers :
             \/ \E r \in setup.requests : Arrive(t, r)
             \/ HookReturns(t) \/ HookStores(t) \/ LadderEnds(t) \/ CoreServes(t)
             \/ Resolved(t) \/ Expire(t)
      BY <1>3 DEF DispatchNext
    <2>2. t \in Testers /\ UNCHANGED setup
      BY <1>3, <2>1, DispatchAssumption DEF RequestInv, DispatchNext
    <2>3. CASE Resolved(t)
      <3>1. job' = [job EXCEPT ![t] = Idle] /\ Idle.stage = "idle"
        BY <2>3 DEF Resolved, Idle
      <3> QED BY <2>2, <3>1, ClaimKeeps
    <2>4. CASE Expire(t)
      BY <1>1, <2>2, <2>4 DEF Expire
    <2> QED BY <2>1, <2>2, <2>3, <2>4, ArriveClaims, HookReturnsClaims,
               HookStoresClaims, LadderEndsClaims, CoreServesClaims
  <1> QED BY <1>2, <1>3

\* Unless an observer interrupts it, the first candidate, in the order of observers, hooks of the service, hooks
\* of any service and hooks of its core, by priority and load_index, that
\* claims a request decides it, whatever plugins, policies and requests there
\* are and whatever the hooks return or raise (Dispatcher.dispatch, _call,
\* _sort_key, resolve_routine).
THEOREM FirstClaim == DispatchSpec => []FirstClaimWins
  <1>1. DispatchInit => RequestInv /\ ClaimInv
    BY DEF DispatchInit, RequestInv, ClaimInv, About, Idle, Fields
  <1>2. RequestInv /\ ClaimInv /\ [DispatchNext]_dispatchVars => RequestInv' /\ ClaimInv'
    BY DispatchMaps, ClaimStep
  <1>3. ClaimInv => FirstClaimWins
    BY DEF ClaimInv, Claims, FirstClaimWins
  <1> QED BY <1>1, <1>2, <1>3, PTL DEF DispatchSpec

=============================================================================
