------------------------------- MODULE EchoEcu -------------------------------
(***************************************************************************)
(* The connections of the echo ECU (echo_ecu/echo_ecu.py): ECUSession, its *)
(* Routing Activation with the Alive Check of a registered owner, and      *)
(* ECUSessionRegistry, which removes entries by address.                   *)
(*                                                                         *)
(*   pc  new       not connected                                           *)
(*       idle      waits for a frame                                       *)
(*       probing   awaits the send or the event of probe_alive             *)
(*       sending   drains a response and reads on                          *)
(*       leaving   drains the Header NACK that ends the connection         *)
(*       closing   run() has closed the writer and awaits wait_closed      *)
(*       closed    run() has ended                                         *)
(***************************************************************************)
EXTENDS Integers, FiniteSets

CONSTANTS
    Sessions,      \* TCP connections
    Addr,          \* logical addresses of testers
    None

ASSUME ConstantsAssumption == None \notin Sessions \cup Addr

VARIABLES
    pc,        \* the await at which run() is suspended
    addr,      \* tester_addr; the session is activated when it is not None
    shut,      \* sessions whose writer is closed
    want,      \* the address a contender probes for
    target,    \* the owner that a contender probes
    event,     \* _alive_probe_event of a session: the contender that made it
    waits,     \* the event a contender waits for
    isset,     \* events that are set
    registry,  \* ECUSessionRegistry._sessions
    moved      \* history: sessions that activated a second address

probe == <<target, event, waits, isset>>
vars == <<pc, addr, shut, want, probe, registry, moved>>

Maybe(S) == S \cup {None}

TypeOK ==
    /\ pc \in [Sessions -> {"new", "idle", "probing", "sending", "leaving",
                            "closing", "closed"}]
    /\ addr \in [Sessions -> Maybe(Addr)]
    /\ shut \subseteq Sessions
    /\ want \in [Sessions -> Maybe(Addr)]
    /\ {target, event, waits} \subseteq [Sessions -> Maybe(Sessions)]
    /\ isset \subseteq Sessions
    /\ registry \in [Addr -> Maybe(Sessions)]
    /\ moved \subseteq Sessions

Init ==
    /\ pc = [s \in Sessions |-> "new"]
    /\ addr = [s \in Sessions |-> None]
    /\ shut = {}
    /\ want = [s \in Sessions |-> None]
    /\ target = [s \in Sessions |-> None]
    /\ event = [s \in Sessions |-> None]
    /\ waits = [s \in Sessions |-> None]
    /\ isset = {}
    /\ registry = [a \in Addr |-> None]
    /\ moved = {}

Goto(s, where) == pc' = [pc EXCEPT ![s] = where]

-----------------------------------------------------------------------------
(* The registry.                                                           *)

\* unregister(tester_addr): whoever is registered there.
Unregister(s) ==
    IF addr[s] = None THEN registry ELSE [registry EXCEPT ![addr[s]] = None]

-----------------------------------------------------------------------------
(* Frames.                                                                 *)

Connect(s) ==
    /\ pc[s] = "new"
    /\ Goto(s, "idle")
    /\ UNCHANGED <<addr, shut, want, probe, registry, moved>>

\* A frame that is answered and changes nothing, or one that needs no answer;
\* an invalid header ends the connection.
ReadOther(s) ==
    /\ pc[s] = "idle"
    /\ \E where \in {"idle", "sending", "leaving"} : Goto(s, where)
    /\ UNCHANGED <<addr, shut, want, probe, registry, moved>>

\* An Alive Check Response sets the event that is installed, if any.
ReadAlive(s) ==
    /\ pc[s] = "idle"
    /\ event[s] # None
    /\ isset' = isset \cup {event[s]}
    /\ UNCHANGED <<pc, addr, shut, want, target, event, waits, registry, moved>>

\* The stream ends.  Frames that are buffered when the writer is closed are
\* still read before.
ReadEof(s) ==
    /\ pc[s] = "idle"
    /\ Goto(s, "closing")
    /\ shut' = shut \cup {s}
    /\ UNCHANGED <<addr, want, probe, registry, moved>>

\* A drain returns, or raises because the connection is gone.
SendDone(s) ==
    /\ \/ pc[s] = "sending" /\ Goto(s, "idle") /\ UNCHANGED shut
       \/ /\ pc[s] \in {"sending", "leaving"}
          /\ Goto(s, "closing")
          /\ shut' = shut \cup {s}
    /\ UNCHANGED <<addr, want, probe, registry, moved>>

\* Mutant: run() does not unregister.
FinishKeeps(s) ==
    /\ pc[s] = "closing"
    /\ Goto(s, "closed")
    /\ UNCHANGED <<addr, shut, want, probe, registry, moved>>

\* wait_closed has returned.
Finish(s) ==
    /\ pc[s] = "closing"
    /\ Goto(s, "closed")
    /\ registry' = Unregister(s)
    /\ UNCHANGED <<addr, shut, want, probe, moved>>

-----------------------------------------------------------------------------
(* Routing Activation.                                                     *)

\* c takes the address in the registry that is left.
Commit(c, a, reg) ==
    /\ Goto(c, "sending")
    /\ addr' = [addr EXCEPT ![c] = a]
    /\ registry' = [reg EXCEPT ![a] = c]
    /\ moved' = IF addr[c] \in {None, a} THEN moved ELSE moved \cup {c}

\* The request: the address is free or the session's own, or its owner is
\* probed.  One that is too short is answered like any other frame.
ReadActivation(c, a) ==
    /\ pc[c] = "idle"
    /\ \/ /\ registry[a] \in {None, c}
          /\ Commit(c, a, registry)
          /\ UNCHANGED <<want, probe>>
       \/ /\ registry[a] \notin {None, c}
          /\ Goto(c, "probing")
          /\ want' = [want EXCEPT ![c] = a]
          /\ target' = [target EXCEPT ![c] = registry[a]]
          /\ event' = [event EXCEPT ![registry[a]] = c]
          /\ isset' = isset \ {c}
          /\ UNCHANGED <<addr, waits, registry, moved>>
    /\ UNCHANGED shut

\* The finally clause of probe_alive clears the event whoever made it.
ProbeEnds(c) ==
    /\ want' = [want EXCEPT ![c] = None]
    /\ target' = [target EXCEPT ![c] = None]
    /\ event' = [event EXCEPT ![target[c]] = None]
    /\ waits' = [waits EXCEPT ![c] = None]
    /\ isset' = IF \E d \in Sessions \ {c} : waits[d] = c
                THEN isset ELSE isset \ {c}

\* probe_alive returned False: evict() closes the owner and removes the entry
\* at its address.
Evict(c) ==
    /\ shut' = shut \cup {target[c]}
    /\ Commit(c, want[c], Unregister(target[c]))
    /\ ProbeEnds(c)

\* The Alive Check Request is out and the event that is then installed is
\* awaited; None.wait() raises, as a failed send does.
ProbeSent(c) ==
    /\ pc[c] = "probing"
    /\ waits[c] = None
    /\ \/ /\ event[target[c]] # None
          /\ waits' = [waits EXCEPT ![c] = event[target[c]]]
          /\ UNCHANGED <<pc, addr, shut, want, registry, moved, target, event,
                          isset>>
       \/ Evict(c)

\* The owner answered: the contender is denied and reads on.
ProbeAnswered(c) ==
    /\ pc[c] = "probing"
    /\ waits[c] \in isset
    /\ Goto(c, "sending")
    /\ ProbeEnds(c)
    /\ UNCHANGED <<addr, shut, registry, moved>>

\* Mutant: the owner is given up only once its connection is closed.
ProbeTimeoutClosed(c) ==
    /\ pc[c] = "probing"
    /\ waits[c] \notin isset \cup {None}
    /\ target[c] \in shut
    /\ Evict(c)

ProbeTimeout(c) ==
    /\ pc[c] = "probing"
    /\ waits[c] \notin isset \cup {None}
    /\ Evict(c)

-----------------------------------------------------------------------------
Decide(c) == ProbeSent(c) \/ ProbeAnswered(c) \/ ProbeTimeout(c)

Step(s) ==
    \/ Connect(s) \/ ReadOther(s) \/ ReadAlive(s) \/ ReadEof(s)
    \/ \E a \in Addr : ReadActivation(s, a)
    \/ SendDone(s) \/ Finish(s) \/ Decide(s)

\* A session that has ended and that nothing names any more is gone: its name
\* stands for another connection.
Reuse(s) ==
    /\ pc[s] = "closed"
    /\ \A a \in Addr : registry[a] # s
    /\ event[s] = None
    /\ \A c \in Sessions : s \notin {target[c], event[c], waits[c]}
    /\ Goto(s, "new")
    /\ addr' = [addr EXCEPT ![s] = None]
    /\ shut' = shut \ {s}
    /\ moved' = moved \ {s}
    /\ UNCHANGED <<want, probe, registry>>

Terminated == (\A s \in Sessions : pc[s] = "closed") /\ UNCHANGED vars

Next == (\E s \in Sessions : Step(s) \/ Reuse(s)) \/ Terminated

Spec == Init /\ [][Next]_vars

\* A probe is sent, because the owner's peer reads or has left, and times out.
FairSpec == Spec /\ \A s \in Sessions : WF_vars(Decide(s))

-----------------------------------------------------------------------------
(* Properties.                                                             *)

\* No session that kept to one address is registered once it has ended,
\* although evictions and late teardowns remove entries by address.
RegisteredLive ==
    \A a \in Addr : registry[a] \notin moved \cup {None}
                       => pc[registry[a]] # "closed"

\* The sessions keep their types and the registry its promise (register,
\* unregister).
RegistryInv == TypeOK /\ RegisteredLive

\* Why RegisteredLive holds.  Such a session has the address it is registered
\* under, so the unregister of its own teardown finds its entry; a contender
\* knows whom it probes, and is not registered where it would be.
OwnEntry ==
    \A a \in Addr : registry[a] \notin moved \cup {None}
                       => addr[registry[a]] = a

ContenderInv ==
    \A c \in Sessions :
        pc[c] = "probing" => /\ want[c] \in Addr
                             /\ target[c] \in Sessions
                             /\ registry[want[c]] # c

EchoInv == RegistryInv /\ OwnEntry /\ ContenderInv

\* Every Routing Activation that probes an owner is decided, even when several
\* contenders share the event of one owner.
ActivationDecided == \A s \in Sessions : pc[s] = "probing" ~> pc[s] # "probing"

=============================================================================
