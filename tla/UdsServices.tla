----------------------------- MODULE UdsServices -----------------------------
(***************************************************************************)
(* The core UDS services of the virtual ECU (virtecu/services/*.py) on the *)
(* state of each tester (SessionState in core.py) and on what all testers  *)
(* share: the values of the DIDs and the routines that are started.        *)
(*                                                                         *)
(* A tester has one request at a time (its worker).  Between the arrival   *)
(* of a request and its service, plugin hooks may be awaited: the S3 timer *)
(* of the tester and the requests of other testers go on meanwhile.        *)
(***************************************************************************)
EXTENDS Integers

CONSTANTS
    Testers,
    Dids,           \* DIDs that are written
    Routines,       \* routines, of the table or of a hook
    Levels,         \* security levels that are asked for: level_of(sub)
    Sessions,       \* uds.sessions
    Default,        \* uds.default_session
    Security,       \* write_security of a DID, security of a routine
    Allowed,        \* write_sessions of a DID, sessions of a routine; none of
                    \* one that the tables do not declare
    ClearWrites,    \* uds.reset_clears_writes
    S3Enabled,      \* uds.s3_server_ms > 0
    MaxAttempts     \* bound: wrong keys in a row

ASSUME ConstantsAssumption ==
    /\ Levels \subseteq Nat \ {0}
    /\ Default \in Sessions
    /\ Security \in [Dids \cup Routines -> Nat]
    /\ Allowed \in [Dids \cup Routines -> SUBSET Sessions]
    /\ {ClearWrites, S3Enabled} \subseteq BOOLEAN
    /\ MaxAttempts \in Nat

VARIABLES
    session,   \* session_type of each tester
    level,     \* security_level
    seed,      \* the level of seed_pending, 0 for None
    attempts,  \* security_attempts
    s3,        \* testers whose S3 timer runs
    busy,      \* testers with a request whose hooks are awaited
    modified,  \* DIDs that differ from their default (DidStore)
    started    \* ecu.data["routines"]

state == <<session, level, seed, attempts>>
shared == <<modified, started>>
vars == <<state, s3, busy, shared>>

TypeOK ==
    /\ session \in [Testers -> Sessions]
    /\ level \in [Testers -> Nat]
    /\ seed \in [Testers -> Nat]
    /\ attempts \in [Testers -> Nat]
    /\ s3 \subseteq Testers
    /\ busy \subseteq Testers
    /\ modified \subseteq Dids
    /\ started \subseteq Routines

Init ==
    /\ session = [t \in Testers |-> Default]
    /\ level = [t \in Testers |-> 0]
    /\ seed = [t \in Testers |-> 0]
    /\ attempts = [t \in Testers |-> 0]
    /\ s3 = {} /\ busy = {} /\ modified = {} /\ started = {}

-----------------------------------------------------------------------------
\* refresh_s3 for a tester in session s.
Timer(t, s) == IF S3Enabled /\ s # Default THEN s3 \cup {t} ELSE s3 \ {t}

\* Mutant: the S3 timer is left as it is.
RelockOldTimer(t, s) ==
    /\ session' = [session EXCEPT ![t] = s]
    /\ level' = [level EXCEPT ![t] = 0]
    /\ seed' = [seed EXCEPT ![t] = 0]
    /\ attempts' = [attempts EXCEPT ![t] = 0]
    /\ UNCHANGED s3

\* SessionState.enter_session and reset.
Relock(t, s) ==
    /\ session' = [session EXCEPT ![t] = s]
    /\ level' = [level EXCEPT ![t] = 0]
    /\ seed' = [seed EXCEPT ![t] = 0]
    /\ attempts' = [attempts EXCEPT ![t] = 0]
    /\ s3' = Timer(t, s)

\* A request arrives and restarts the S3 timer (resolve_uds).
Begin(t) ==
    /\ t \notin busy
    /\ busy' = busy \cup {t}
    /\ s3' = Timer(t, session[t])
    /\ UNCHANGED <<state, shared>>

\* The hooks have fallen through and a core service runs.
Serving(t) == t \in busy /\ busy' = busy \ {t}

\* The request is answered without effect: by a hook, with an NRC for its
\* length, sub-function, identifier or a configured one, or by reading.
Answered(t) ==
    /\ Serving(t)
    /\ UNCHANGED <<state, s3, shared>>

DiagnosticSessionControl(t, s) ==
    /\ Serving(t)
    /\ Relock(t, s)
    /\ UNCHANGED shared

TesterPresent(t) ==
    /\ Serving(t)
    /\ s3' = Timer(t, session[t])
    /\ UNCHANGED <<state, shared>>

\* ECUReset: the tester's own state, and what the testers share.  Where it drops
\* the connection, the tester's next one starts with a fresh state.
EcuReset(t) ==
    /\ Serving(t)
    /\ Relock(t, Default)
    /\ modified' = IF ClearWrites THEN {} ELSE modified
    /\ started' = {}

-----------------------------------------------------------------------------
\* Mutant: a seed is issued for a level that is unlocked.
RequestSeedAlways(t, l) ==
    /\ Serving(t)
    /\ seed' = [seed EXCEPT ![t] = l]
    /\ UNCHANGED <<session, level, attempts, s3, shared>>

\* A zero seed is sent, without effect, when the level is unlocked.
RequestSeed(t, l) ==
    /\ Serving(t)
    /\ seed' = [seed EXCEPT ![t] = IF level[t] >= l THEN @ ELSE l]
    /\ UNCHANGED <<session, level, attempts, s3, shared>>

\* A key without its seed is refused (Answered).
WrongKey(t, l) ==
    /\ Serving(t)
    /\ seed[t] = l
    /\ attempts[t] < MaxAttempts
    /\ attempts' = [attempts EXCEPT ![t] = @ + 1]
    /\ seed' = [seed EXCEPT ![t] = 0]
    /\ UNCHANGED <<session, level, s3, shared>>

\* Mutant: the pending seed is not consumed.
RightKeyKeepsSeed(t, l) ==
    /\ Serving(t)
    /\ seed[t] = l
    /\ level' = [level EXCEPT ![t] = l]
    /\ attempts' = [attempts EXCEPT ![t] = 0]
    /\ UNCHANGED <<session, seed, s3, shared>>

RightKey(t, l) ==
    /\ Serving(t)
    /\ seed[t] = l
    /\ level' = [level EXCEPT ![t] = l]
    /\ attempts' = [attempts EXCEPT ![t] = 0]
    /\ seed' = [seed EXCEPT ![t] = 0]
    /\ UNCHANGED <<session, s3, shared>>

-----------------------------------------------------------------------------
\* Mutant: the security level is not compared.
GateSessionOnly(t, x) == session[t] \in Allowed[x]

\* _check_gates, and the same tests for a routine.
Gate(t, x) == session[t] \in Allowed[x] /\ Security[x] <= level[t]

\* A value other than the default is written, or the default itself.
WriteDataByIdentifier(t, d) ==
    /\ Serving(t)
    /\ Gate(t, d)
    /\ modified' \in {modified \cup {d}, modified \ {d}}
    /\ UNCHANGED <<state, s3, started>>

\* RoutineControl: start, or stop what is started.
StartRoutine(t, r) ==
    /\ Serving(t)
    /\ Gate(t, r)
    /\ started' = started \cup {r}
    /\ UNCHANGED <<state, s3, modified>>

StopRoutine(t, r) ==
    /\ Serving(t)
    /\ Gate(t, r)
    /\ r \in started
    /\ started' = started \ {r}
    /\ UNCHANGED <<state, s3, modified>>

\* A hook answers for a routine without the gates of the table.
HookRoutine(t, r) ==
    /\ Serving(t)
    /\ started' \in {started \cup {r}, started \ {r}}
    /\ UNCHANGED <<state, s3, modified>>

\* A hook that is awaited writes a DID, or restores all, through ctx.store, as
\* the handlers of the vECU README do: no gate is asked.
HookWrites(t) ==
    /\ t \in busy
    /\ \E d \in Dids : modified' \in {modified \cup {d}, modified \ {d}, {}}
    /\ UNCHANGED <<state, s3, busy, started>>

\* _s3_expiry.
S3Expire(t) ==
    /\ t \in s3
    /\ Relock(t, Default)
    /\ UNCHANGED <<busy, shared>>

-----------------------------------------------------------------------------
SecurityAccess(t) ==
    \E l \in Levels : RequestSeed(t, l) \/ WrongKey(t, l) \/ RightKey(t, l)

RoutineControl(t) ==
    \E r \in Routines : StartRoutine(t, r) \/ StopRoutine(t, r) \/ HookRoutine(t, r)

Next ==
    \E t \in Testers :
        \/ Begin(t) \/ Answered(t) \/ HookWrites(t)
        \/ \E s \in Sessions : DiagnosticSessionControl(t, s)
        \/ TesterPresent(t) \/ EcuReset(t)
        \/ SecurityAccess(t)
        \/ \E d \in Dids : WriteDataByIdentifier(t, d)
        \/ RoutineControl(t)
        \/ S3Expire(t)

Spec == Init /\ [][Next]_vars

-----------------------------------------------------------------------------
(* Properties.                                                             *)

\* A key is only awaited for a level above the one that is unlocked: a seed of
\* an earlier exchange or of an earlier session cannot be answered later.
SeedAboveLevel == \A t \in Testers : seed[t] # 0 => seed[t] > level[t]

\* A security level is never exchanged for a lower one: it rises, or all is
\* locked by a session change, a reset or the S3 timer.
LevelRises ==
    [][\A t \in Testers : level'[t] >= level[t] \/ level'[t] = 0]_vars

\* Security holds at the time of a write, not only when its request arrived:
\* but for a reset, which restores everything, and for what an awaited hook
\* writes of its own accord, a DID changes only by a request whose tester then
\* meets its gates, although S3 timers run out while hooks are awaited
\* (_check_gates; a hook "is trusted to enforce its own policy").
ProtectedWrites ==
    [][\A d \in Dids :
          (d \in modified') # (d \in modified) =>
              \/ ClearWrites /\ modified' = {} /\ started' = {}
              \/ \E t \in Testers : HookWrites(t)
              \/ \E t \in busy \ busy' : /\ Security[d] <= level[t]
                                         /\ session[t] \in Allowed[d]]_vars

\* The S3 timer of a tester, unless disabled, runs exactly in its non-default
\* sessions.
S3Exact == \A t \in Testers : t \in s3 <=> S3Enabled /\ session[t] # Default

\* The inductive invariant of the proofs: the state of every tester is well
\* typed, no stale seed is pending and the S3 timer runs where one is due
\* (SessionState, _request_seed, _send_key, refresh_s3).
UdsInv == TypeOK /\ SeedAboveLevel /\ S3Exact

=============================================================================
