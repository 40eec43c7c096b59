---------------------------- MODULE UdpDiscovery ----------------------------
(***************************************************************************)
(* UDP discovery on one network segment: EdgeNodes                         *)
(* (doip_edgenode/udp_announcer.py) and virtual ECUs                       *)
(* (virtual_ecu/virtecu/udp.py) announce themselves by broadcast and       *)
(* answer testers.  Each listens on the port it sends from, so whatever    *)
(* one entity sends to another, or to everyone, may be answered in turn.   *)
(*                                                                         *)
(* The network delays, reorders and loses datagrams.  A duplicate is not   *)
(* distinguished from a second datagram with the same content.             *)
(***************************************************************************)
EXTENDS Integers, Bags, BagsExt, FiniteSets, SequencesExt

CONSTANTS
    Edges,        \* EdgeNodes
    Ecus,         \* virtual ECUs
    Testers,      \* testers
    Types,        \* payload types testers send
    Flaws,        \* what may be wrong with a tester's datagram
    MaxSent,      \* bound: datagrams testers send
    AnnounceCount,
    MaxPendingResponses   \* _MAX_PENDING_RESPONSES of an EdgeNode

Entities == Edges \cup Ecus
Hosts == Entities \cup Testers
Anyone == "anyone"

\* "request" is a Vehicle Identification Request, for anyone or with the EID or
\* the VIN of one entity; "other" is a type no listener knows.
AllTypes == {"nack", "request", "announce", "status", "statusRsp", "power",
             "powerRsp", "other"}

\* "short": less than a header; "wildcard": version 0xFF; "version": a wrong
\* version or inverse; "large", "cut", "long": a declared length over the
\* limit, too little payload, too much.
AllFlaws == {"none", "short", "wildcard", "version", "large", "cut", "long"}

ASSUME ConstantsAssumption ==
    /\ Edges \cap Ecus = {} /\ Entities \cap Testers = {}
    /\ Types \subseteq AllTypes /\ Flaws \subseteq AllFlaws
    /\ {MaxSent, AnnounceCount, MaxPendingResponses} \subseteq Nat
    /\ AnnounceCount > 0

Datagrams ==
    [from : Hosts, to : Hosts,
     type : AllTypes, flaw : AllFlaws, about : Entities \cup {Anyone}]

VARIABLES
    stage,     \* the announcer: "new", "announcing", "idle" or "done"
    open,      \* the protocol has a transport that is not closed
    announced, \* announcements sent
    pending,   \* the requesters of the scheduled identification responses,
               \* which end in any order
    net,       \* datagrams under way, a bag
    sent,      \* datagrams testers have sent
    small      \* fixed by the configuration: max_payload_bytes of the EdgeNodes
               \* admits requests, but not the 33 bytes of an announcement

vars == <<stage, open, announced, pending, net, sent, small>>

TypeOK ==
    /\ stage \in [Entities -> {"new", "announcing", "idle", "done"}]
    /\ open \in [Entities -> BOOLEAN]
    /\ announced \in [Entities -> 0..AnnounceCount]
    /\ pending \in [Entities -> Seq(Hosts)]
    /\ IsABag(net) /\ BagToSet(net) \subseteq Datagrams
    /\ sent \in 0..MaxSent
    /\ small \in BOOLEAN

Init ==
    /\ stage = [e \in Entities |-> "new"]
    /\ open = [e \in Entities |-> FALSE]
    /\ announced = [e \in Entities |-> 0]
    /\ pending = [e \in Entities |-> <<>>]
    /\ net = EmptyBag
    /\ sent = 0
    /\ small \in BOOLEAN

Frame(e, h, t) == [from |-> e, to |-> h, type |-> t, flaw |-> "none", about |-> Anyone]

-----------------------------------------------------------------------------
(* What a listener does with a datagram: nothing, an answer of a type at   *)
(* once, or an identification response "later".                            *)

BadVersion(d) == d.flaw = "version" \/ (d.flaw = "wildcard" /\ d.type # "request")
ForOther(e, d) == d.type = "request" /\ d.about \notin {Anyone, e}

Answer(d) ==
    CASE d.type = "status" -> "statusRsp"
      [] d.type = "power" -> "powerRsp"
      [] OTHER -> "later"

\* Mutant: announcements and NACKs are not told from requests.
EdgeVerdictAnswersAll(e, d) ==
    CASE d.flaw = "short" -> "ignore"
      [] BadVersion(d) -> "nack"
      [] d.type \in {"statusRsp", "powerRsp", "other"} -> "nack"
      [] d.flaw \in {"large", "cut", "long"} -> "nack"
      [] ForOther(e, d) -> "ignore"
      [] OTHER -> Answer(d)

\* datagram_received of an EdgeNode: responses with a flaw are NACKed as well.
EdgeVerdict(e, d) ==
    CASE d.flaw = "short" -> "ignore"
      [] BadVersion(d) -> "nack"
      [] d.type \in {"statusRsp", "powerRsp", "other"} -> "nack"
      [] d.flaw \in {"large", "cut", "long"} -> "nack"
      [] small /\ d.type = "announce" -> "nack"
      [] d.type \in {"nack", "announce"} -> "ignore"
      [] ForOther(e, d) -> "ignore"
      [] OTHER -> Answer(d)

\* Mutant: the header is validated before response types are set aside.
EcuVerdictValidatesFirst(e, d) ==
    CASE d.flaw = "short" \/ d.from = e -> "ignore"
      [] BadVersion(d) -> "nack"
      [] d.type \notin {"request", "status", "power"} -> "nack"
      [] ForOther(e, d) -> "ignore"
      [] d.type = "request" /\ d.flaw = "cut" /\ d.about # Anyone -> "ignore"
      [] OTHER -> Answer(d)

\* datagram_received of a virtual ECU: lengths are not checked, but a cut EID
\* or VIN matches nothing.
EcuVerdict(e, d) ==
    CASE d.flaw = "short" \/ d.from = e -> "ignore"
      [] d.type \in {"nack", "announce", "statusRsp", "powerRsp"} -> "ignore"
      [] BadVersion(d) \/ d.type = "other" -> "nack"
      [] ForOther(e, d) -> "ignore"
      [] d.type = "request" /\ d.flaw = "cut" /\ d.about # Anyone -> "ignore"
      [] OTHER -> Answer(d)

Verdict(e, d) == IF e \in Edges THEN EdgeVerdict(e, d) ELSE EcuVerdict(e, d)

-----------------------------------------------------------------------------
\* The listener is bound, or cannot be.
Start(e) ==
    /\ stage[e] = "new"
    /\ \/ /\ stage' = [stage EXCEPT ![e] = "announcing"]
          /\ open' = [open EXCEPT ![e] = TRUE]
       \/ /\ stage' = [stage EXCEPT ![e] = "done"]
          /\ UNCHANGED open
    /\ UNCHANGED <<announced, pending, net, sent, small>>

\* One announcement, which reaches every listener, the sender's included.
Announce(e) ==
    /\ stage[e] = "announcing"
    /\ announced' = [announced EXCEPT ![e] = @ + 1]
    /\ stage' = [stage EXCEPT ![e] = IF announced'[e] = AnnounceCount
                                     THEN "idle" ELSE @]
    /\ net' = IF open[e]
              THEN net (+) SetToBag({Frame(e, h, "announce") : h \in Entities})
              ELSE net
    /\ UNCHANGED <<open, pending, sent, small>>

\* Mutant: stop() forgets the scheduled responses.
StopKeepsTimers(e) ==
    /\ stage[e] \in {"announcing", "idle"}
    /\ stage' = [stage EXCEPT ![e] = "done"]
    /\ open' = [open EXCEPT ![e] = FALSE]
    /\ UNCHANGED <<announced, pending, net, sent, small>>

\* An EdgeNode cancels its scheduled responses; a virtual ECU closes the
\* transport under its delayed responses.
Stop(e) ==
    /\ stage[e] \in {"announcing", "idle"}
    /\ stage' = [stage EXCEPT ![e] = "done"]
    /\ open' = [open EXCEPT ![e] = FALSE]
    /\ pending' = IF e \in Edges THEN [pending EXCEPT ![e] = <<>>] ELSE pending
    /\ UNCHANGED <<announced, net, sent, small>>

\* The transport ends by an error of its own.
ConnectionLost(e) ==
    /\ open[e]
    /\ open' = [open EXCEPT ![e] = FALSE]
    /\ pending' = IF e \in Edges THEN [pending EXCEPT ![e] = <<>>] ELSE pending
    /\ UNCHANGED <<stage, announced, net, sent, small>>

-----------------------------------------------------------------------------
\* _schedule_discovery, _schedule_identification_response: only an EdgeNode
\* has a limit.
Schedule(e, h) ==
    pending' = IF e \in Edges /\ Len(pending[e]) >= MaxPendingResponses
               THEN pending ELSE [pending EXCEPT ![e] = Append(@, h)]

Deliver(d) ==
    /\ BagIn(d, net)
    /\ d.to \in Entities
    /\ open[d.to]
    /\ LET rest == BagRemove(net, d)
           v == Verdict(d.to, d) IN
       \/ v = "ignore" /\ net' = rest /\ UNCHANGED pending
       \/ v = "later" /\ net' = rest /\ Schedule(d.to, d.from)
       \/ /\ v \notin {"ignore", "later"}
          /\ net' = BagAdd(rest, Frame(d.to, d.from, v))
          /\ UNCHANGED pending
    /\ UNCHANGED <<stage, open, announced, sent, small>>

\* A datagram is lost, finds no listener, or reaches a tester.
Gone(d) ==
    /\ BagIn(d, net)
    /\ net' = BagRemove(net, d)
    /\ UNCHANGED <<stage, open, announced, pending, sent, small>>

\* The wait of the i-th response ends.  A hook of a virtual ECU may withhold
\* it, and nothing leaves a closed transport.
Fire(e, i) ==
    /\ pending' = [pending EXCEPT ![e] = RemoveAt(@, i)]
    /\ \/ open[e] /\ net' = BagAdd(net, Frame(e, pending[e][i], "announce"))
       \/ (~open[e] \/ e \in Ecus) /\ UNCHANGED net
    /\ UNCHANGED <<stage, open, announced, sent, small>>

\* A tester sends a datagram from a port of its own.
TesterSends(t, e) ==
    /\ sent < MaxSent
    /\ sent' = sent + 1
    /\ \E y \in Types, f \in Flaws, a \in Entities \cup {Anyone} :
          /\ y # "request" => a = Anyone
          /\ net' = BagAdd(net, [from |-> t, to |-> e, type |-> y, flaw |-> f, about |-> a])
    /\ UNCHANGED <<stage, open, announced, pending, small>>

-----------------------------------------------------------------------------
InFlight == BagToSet(net)

Network == \E d \in InFlight : Deliver(d) \/ Gone(d)
Timer(e) == \E i \in DOMAIN pending[e] : Fire(e, i)

Next ==
    \/ \E e \in Entities : \/ Start(e) \/ Announce(e) \/ Stop(e)
                           \/ ConnectionLost(e) \/ Timer(e)
    \/ Network
    \/ \E t \in Testers, e \in Entities : TesterSends(t, e)

Spec == Init /\ [][Next]_vars

\* Sleeps and timers end, and a datagram is delivered or lost.
FairSpec ==
    /\ Spec
    /\ WF_vars(Network)
    /\ \A e \in Entities : WF_vars(Announce(e)) /\ WF_vars(Timer(e))

-----------------------------------------------------------------------------
(* Properties.                                                             *)

\* Nothing an entity sends to an entity is answered: EdgeNodes "never answer
\* received NACKs or broadcast announcements" (udp_announcer.py:219), and
\* virtual ECUs ignore response types, although each has its own rules.  An
\* announcement over max_payload_bytes is the one exception.
Inert ==
    \A d \in InFlight :
        d.from \in Entities /\ d.to \in Entities =>
            \/ Verdict(d.to, d) = "ignore"
            \/ small /\ d.to \in Edges /\ d.type = "announce"

\* What entities send one another is announcements, and the NACKs that answer
\* them: the inductive reason of Inert.
EntityFrames ==
    \A d \in InFlight :
        d.from \in Entities /\ d.to \in Entities =>
            d.type \in {"announce", "nack"} /\ d.flaw = "none" /\ d.about = Anyone

\* An EdgeNode has a bounded number of scheduled responses, and none once its
\* listener is gone.
TimersReleased ==
    \A e \in Edges : /\ Len(pending[e]) <= MaxPendingResponses
                     /\ ~open[e] => pending[e] = <<>>

\* The announcers keep their types and EdgeNodes their timers (stop,
\* connection_lost, _schedule_discovery).
TimersInv == TypeOK /\ TimersReleased

\* The inductive invariant of the proofs.  Responses are scheduled for testers
\* only, and an announcer that begins or goes on has announcements left.
SegmentInv ==
    /\ TimersInv
    /\ EntityFrames
    /\ pending \in [Entities -> Seq(Testers)]
    /\ \A e \in Entities :
          stage[e] \in {"new", "announcing"} => announced[e] < AnnounceCount

\* The segment falls silent when the testers do: no exchange of answers keeps
\* itself going, whatever the testers sent (the "reply storm" of udp.py).
Quiet == <>[](net = EmptyBag /\ \A e \in Entities : pending[e] = <<>>)

=============================================================================
