------------------------- MODULE UdpDiscoveryProofs -------------------------
(***************************************************************************)
(* Proofs about UdpDiscovery, for any number of EdgeNodes, virtual ECUs    *)
(* and testers and whatever the testers send: no entity answers what an    *)
(* entity sends, and the timers of an EdgeNode are few and end with its    *)
(* listener.                                                               *)
(***************************************************************************)
EXTENDS UdpDiscovery, SequenceTheorems, TLAPS

-----------------------------------------------------------------------------
(* Bags.                                                                   *)

\* Adding an element to a bag.
LEMMA AddToBag ==
    ASSUME NEW B, IsABag(B), NEW x
    PROVE  /\ IsABag(BagAdd(B, x))
           /\ BagToSet(BagAdd(B, x)) = BagToSet(B) \cup {x}
BY DEF IsABag, BagToSet, BagAdd

\* Removing one copy of an element from a bag.
LEMMA RemoveFromBag ==
    ASSUME NEW B, IsABag(B), NEW x
    PROVE  /\ IsABag(BagRemove(B, x))
           /\ BagToSet(BagRemove(B, x)) \subseteq BagToSet(B)
BY DEF IsABag, BagToSet, BagRemove

\* Adding every element of a set to a bag.
LEMMA AddSetToBag ==
    ASSUME NEW B, IsABag(B), NEW S
    PROVE  /\ IsABag(B (+) SetToBag(S))
           /\ BagToSet(B (+) SetToBag(S)) = BagToSet(B) \cup S
BY DEF IsABag, BagToSet, SetToBag, (+)

\* The empty bag.
LEMMA NothingInBag == IsABag(EmptyBag) /\ BagToSet(EmptyBag) = {}
BY DEF IsABag, BagToSet, EmptyBag, SetToBag

-----------------------------------------------------------------------------
(* Scheduled responses.                                                    *)

\* Scheduling one more.
LEMMA AppendForm ==
    ASSUME NEW S, NEW q \in Seq(S), NEW x \in S
    PROVE  Append(q, x) \in Seq(S) /\ Len(Append(q, x)) = Len(q) + 1
BY AppendProperties

\* One of them ends.
LEMMA RemoveAtForm ==
    ASSUME NEW S, NEW q \in Seq(S), NEW i \in DOMAIN q
    PROVE  /\ RemoveAt(q, i) \in Seq(S)
           /\ Len(RemoveAt(q, i)) = Len(q) - 1
<1> DEFINE before == SubSeq(q, 1, i - 1)
           after == SubSeq(q, i + 1, Len(q))
<1>1. i \in 1..Len(q) /\ i \in Int /\ Len(q) \in Nat
    OBVIOUS
<1>2. before \in Seq(S) /\ Len(before) = i - 1
    BY <1>1, SubSeqProperties
<1>3. after \in Seq(S) /\ Len(after) = Len(q) - i
    BY <1>1, SubSeqProperties
<1>4. RemoveAt(q, i) = before \o after
    BY DEF RemoveAt
<1> HIDE DEF before, after
<1>5. /\ before \o after \in Seq(S)
      /\ Len(before \o after) = Len(before) + Len(after)
    BY <1>2, <1>3, ConcatProperties
<1>6. (i - 1) + (Len(q) - i) = Len(q) - 1
    BY <1>1
<1> QED BY <1>2, <1>3, <1>4, <1>5, <1>6

-----------------------------------------------------------------------------
(* Datagrams.                                                              *)

\* What may be under way: any datagram, and between entities an announcement or
\* its NACK.
Harmless(d) ==
    /\ d \in Datagrams
    /\ d.from \in Entities /\ d.to \in Entities =>
          d.type \in {"announce", "nack"} /\ d.flaw = "none" /\ d.about = Anyone

\* SegmentInv, with what it says of datagrams and of responses in one place.
Segment ==
    /\ stage \in [Entities -> {"new", "announcing", "idle", "done"}]
    /\ open \in [Entities -> BOOLEAN]
    /\ announced \in [Entities -> 0..AnnounceCount]
    /\ \A e \in Entities :
          stage[e] \in {"new", "announcing"} => announced[e] < AnnounceCount
    /\ sent \in 0..MaxSent
    /\ small \in BOOLEAN

Responses == pending \in [Entities -> Seq(Testers)] /\ TimersReleased

Flight == IsABag(net) /\ \A d \in InFlight : Harmless(d)

\* The three parts are SegmentInv.
LEMMA SegmentForm == SegmentInv <=> Segment /\ Responses /\ Flight
<1>1. TypeOK /\ EntityFrames => Flight
    BY DEF TypeOK, EntityFrames, Flight, Harmless, InFlight
<1>2. Flight => IsABag(net) /\ BagToSet(net) \subseteq Datagrams /\ EntityFrames
    BY DEF EntityFrames, Flight, Harmless, InFlight
<1>3. Testers \subseteq Hosts
    BY DEF Hosts
<1>4. SegmentInv => Segment /\ Responses /\ Flight
    <2>1. SegmentInv => Segment
        BY DEF SegmentInv, TimersInv, TypeOK, Segment
    <2> QED BY <1>1, <2>1 DEF SegmentInv, TimersInv, Responses
<1>5. Segment /\ Responses /\ Flight => SegmentInv
    <2>1. pending \in [Entities -> Seq(Testers)] => pending \in [Entities -> Seq(Hosts)]
        <3>1. Seq(Testers) \subseteq Seq(Hosts)
            BY <1>3
        <3> QED BY <3>1
    <2> QED BY <1>2, <2>1 DEF SegmentInv, TimersInv, TypeOK, Segment, Responses
<1> QED BY <1>4, <1>5

\* A frame of an entity to a tester, and an announcement or a NACK to anyone,
\* may be under way.
LEMMA FrameHarmless ==
    ASSUME NEW e \in Entities, NEW h \in Hosts, NEW t \in AllTypes,
           h \in Testers \/ t \in {"announce", "nack"}
    PROVE  Harmless(Frame(e, h, t))
BY ConstantsAssumption DEF Harmless, Frame, Datagrams, Hosts, AllFlaws

\* A datagram of a tester may be under way.
LEMMA TesterHarmless ==
    ASSUME NEW t \in Testers, NEW e \in Entities, NEW y \in Types,
           NEW f \in Flaws, NEW a \in Entities \cup {Anyone}
    PROVE  Harmless([from |-> t, to |-> e, type |-> y, flaw |-> f, about |-> a])
BY ConstantsAssumption DEF Harmless, Datagrams, Hosts

\* A listener ignores what an entity sends, but for the announcements that an
\* EdgeNode with a small max_payload_bytes NACKs.
LEMMA EntityIgnored ==
    ASSUME NEW d, Harmless(d), d.from \in Entities, d.to \in Entities
    PROVE  \/ Verdict(d.to, d) = "ignore"
           \/ /\ small /\ d.to \in Edges /\ d.type = "announce"
              /\ Verdict(d.to, d) = "nack"
<1>1. d.type \in {"announce", "nack"} /\ d.flaw = "none"
    BY DEF Harmless
<1>2. ~BadVersion(d) /\ ~ForOther(d.to, d)
    BY <1>1 DEF BadVersion, ForOther
<1>3. CASE d.to \in Edges
    BY <1>1, <1>2, <1>3 DEF Verdict, EdgeVerdict
<1>4. CASE d.to \notin Edges
    BY <1>1, <1>2, <1>4 DEF Verdict, EcuVerdict
<1> QED BY <1>3, <1>4

\* A verdict is one of these.
LEMMA VerdictType ==
    ASSUME NEW e, NEW d
    PROVE  Verdict(e, d) \in {"ignore", "nack", "later", "statusRsp", "powerRsp"}
<1>1. Answer(d) \in {"later", "statusRsp", "powerRsp"}
    BY DEF Answer
<1>2. EdgeVerdict(e, d) \in {"ignore", "nack", "later", "statusRsp", "powerRsp"}
    BY <1>1 DEF EdgeVerdict
<1>3. EcuVerdict(e, d) \in {"ignore", "nack", "later", "statusRsp", "powerRsp"}
    BY <1>1 DEF EcuVerdict
<1> QED BY <1>2, <1>3 DEF Verdict

-----------------------------------------------------------------------------
(* The steps.                                                              *)

\* One more harmless datagram.
LEMMA AddFlight ==
    ASSUME Flight, NEW d, Harmless(d), net' = BagAdd(net, d)
    PROVE  Flight'
<1>1. IsABag(net') /\ BagToSet(net') = BagToSet(net) \cup {d}
    BY AddToBag DEF Flight
<1> QED BY <1>1 DEF Flight, InFlight, Harmless

\* One datagram less.
LEMMA RemoveFlight ==
    ASSUME Flight, NEW d, net' = BagRemove(net, d)
    PROVE  Flight'
<1>1. IsABag(net') /\ BagToSet(net') \subseteq BagToSet(net)
    BY RemoveFromBag DEF Flight
<1> QED BY <1>1 DEF Flight, InFlight, Harmless

\* The responses of one entity change.
LEMMA OneResponse ==
    ASSUME Responses, NEW e \in Entities, NEW q \in Seq(Testers),
           pending' = [pending EXCEPT ![e] = q],
           \A g \in Edges \ {e} : open[g] => open'[g],
           e \in Edges => /\ open'[e] \/ q = <<>>
                         /\ Len(q) <= MaxPendingResponses
    PROVE  Responses'
<1>1. pending' \in [Entities -> Seq(Testers)]
    BY DEF Responses
<1>2. \A g \in Entities : pending'[g] = IF g = e THEN q ELSE pending[g]
    BY DEF Responses
<1>3. TimersReleased'
    BY <1>2 DEF Responses, TimersReleased, Entities
<1> QED BY <1>1, <1>3 DEF Responses

\* Start and Announce.
LEMMA AnnouncerStep ==
    ASSUME Segment, Responses, Flight, NEW e \in Entities,
           Start(e) \/ Announce(e)
    PROVE  Segment' /\ Responses' /\ Flight'
<1> USE ConstantsAssumption
<1>1. CASE Start(e)
    <2>1. Segment'
        <3>1. open' \in [Entities -> BOOLEAN]
            BY <1>1 DEF Start, Segment
        <3>2. \/ stage' = [stage EXCEPT ![e] = "announcing"]
              \/ stage' = [stage EXCEPT ![e] = "done"]
            BY <1>1 DEF Start
        <3>3. announced[e] < AnnounceCount
            BY <1>1 DEF Start, Segment
        <3> QED BY <1>1, <3>1, <3>2, <3>3 DEF Start, Segment
    <2>2. Responses'
        BY <1>1 DEF Start, Responses, TimersReleased, Segment, Entities
    <2>3. Flight'
        BY <1>1 DEF Start, Flight, InFlight, Harmless
    <2> QED BY <2>1, <2>2, <2>3
<1>2. CASE Announce(e)
    <2>1. Segment'
        BY <1>2 DEF Announce, Segment
    <2>2. Responses'
        BY <1>2 DEF Announce, Responses, TimersReleased
    <2>3. Flight'
        <3> DEFINE S == {Frame(e, h, "announce") : h \in Entities}
        <3>1. CASE net' = net
            BY <3>1 DEF Flight, InFlight, Harmless
        <3>2. CASE net' = net (+) SetToBag(S)
            <4>1. IsABag(net') /\ BagToSet(net') = BagToSet(net) \cup S
                BY <3>2, AddSetToBag DEF Flight
            <4>2. \A d \in S : Harmless(d)
                BY FrameHarmless DEF AllTypes, Hosts
            <4> QED BY <4>1, <4>2 DEF Flight, InFlight, Harmless
        <3> QED BY <1>2, <3>1, <3>2 DEF Announce
    <2> QED BY <2>1, <2>2, <2>3
<1> QED BY <1>1, <1>2

\* Stop and ConnectionLost release the responses of an EdgeNode.
LEMMA CloseStep ==
    ASSUME Segment, Responses, Flight, NEW e \in Entities,
           Stop(e) \/ ConnectionLost(e)
    PROVE  Segment' /\ Responses' /\ Flight'
<1>1. Segment'
    BY DEF Stop, ConnectionLost, Segment
<1>2. Flight'
    BY DEF Stop, ConnectionLost, Flight, InFlight, Harmless
<1>3. open' = [open EXCEPT ![e] = FALSE]
    BY DEF Stop, ConnectionLost
<1>4. CASE e \in Edges
    <2>1. pending' = [pending EXCEPT ![e] = <<>>]
        BY <1>4 DEF Stop, ConnectionLost
    <2>2. \A g \in Edges \ {e} : open[g] => open'[g]
        BY <1>3 DEF Segment, Entities
    <2>3. <<>> \in Seq(Testers) /\ Len(<<>>) <= MaxPendingResponses
        BY EmptySeq, ConstantsAssumption
    <2> QED BY <1>1, <1>2, <2>1, <2>2, <2>3, OneResponse
<1>5. CASE e \notin Edges
    <2>1. pending' = pending
        BY <1>5 DEF Stop, ConnectionLost
    <2>2. \A g \in Edges : open'[g] = open[g]
        BY <1>3, <1>5 DEF Segment, Entities
    <2> QED BY <1>1, <1>2, <2>1, <2>2 DEF Responses, TimersReleased
<1> QED BY <1>4, <1>5

\* A datagram is delivered: only a tester has a response scheduled, and only an
\* announcement of an entity is answered, with a NACK.
LEMMA DeliverStep ==
    ASSUME Segment, Responses, Flight, NEW d, Deliver(d)
    PROVE  Segment' /\ Responses' /\ Flight'
<1> DEFINE v == Verdict(d.to, d)
           rest == BagRemove(net, d)
<1>1. Harmless(d) /\ d.to \in Entities /\ d.from \in Hosts /\ open[d.to]
    BY DEF Deliver, Flight, InFlight, BagIn, Harmless, Datagrams
<1>2. Segment' /\ UNCHANGED open
    BY DEF Deliver, Segment
<1>3. d.from \in Testers \/ v \in {"ignore", "nack"}
    BY <1>1, EntityIgnored DEF Hosts
<1>4. ASSUME UNCHANGED pending PROVE Responses'
    BY <1>2, <1>4 DEF Responses, TimersReleased
<1>5. CASE v = "ignore" /\ net' = rest /\ UNCHANGED pending
    BY <1>2, <1>4, <1>5, RemoveFlight
<1>6. CASE v = "later" /\ net' = rest /\ Schedule(d.to, d.from)
    <2>1. Flight'
        BY <1>6, RemoveFlight
    <2>2. Responses'
        <3>1. CASE UNCHANGED pending
            BY <1>4, <3>1
        <3>2. CASE /\ pending' = [pending EXCEPT ![d.to] = Append(@, d.from)]
                   /\ d.to \in Edges => Len(pending[d.to]) < MaxPendingResponses
            <4> DEFINE q == Append(pending[d.to], d.from)
            <4>1. pending[d.to] \in Seq(Testers)
                BY <1>1 DEF Responses
            <4>2. q \in Seq(Testers) /\ Len(q) = Len(pending[d.to]) + 1
                BY <1>3, <1>6, <4>1, AppendForm
            <4>3. d.to \in Edges => Len(q) <= MaxPendingResponses
                BY <3>2, <4>1, <4>2, ConstantsAssumption
            <4>4. pending' = [pending EXCEPT ![d.to] = q]
                BY <3>2
            <4> HIDE DEF q
            <4> QED BY <1>1, <1>2, <4>2, <4>3, <4>4, OneResponse
        <3>3. d.to \in Edges => Len(pending[d.to]) \in Nat
            BY <1>1 DEF Responses
        <3> QED BY <1>6, <3>1, <3>2, <3>3, ConstantsAssumption DEF Schedule
    <2> QED BY <1>2, <2>1, <2>2
<1>7. CASE /\ v \notin {"ignore", "later"}
           /\ net' = BagAdd(rest, Frame(d.to, d.from, v))
           /\ UNCHANGED pending
    <2>1. v \in AllTypes
        BY <1>7, VerdictType DEF AllTypes
    <2>2. Harmless(Frame(d.to, d.from, v))
        BY <1>1, <1>3, <1>7, <2>1, FrameHarmless
    <2>3. IsABag(rest) /\ BagToSet(rest) \subseteq InFlight
        BY RemoveFromBag DEF Flight, InFlight
    <2>4. /\ IsABag(net')
          /\ BagToSet(net') = BagToSet(rest) \cup {Frame(d.to, d.from, v)}
        BY <1>7, <2>3, AddToBag
    <2>5. Flight'
        <3> HIDE DEF rest, v
        <3> QED BY <2>2, <2>3, <2>4 DEF Flight, InFlight, Harmless
    <2> QED BY <1>2, <1>4, <1>7, <2>5
<1> QED BY <1>5, <1>6, <1>7 DEF Deliver

\* A datagram is gone, or a tester sends one.
LEMMA TrafficStep ==
    ASSUME Segment, Responses, Flight,
           \/ \E d \in InFlight : Gone(d)
           \/ \E t \in Testers, e \in Entities : TesterSends(t, e)
    PROVE  Segment' /\ Responses' /\ Flight'
<1>1. Responses'
    BY DEF Gone, TesterSends, Responses, TimersReleased
<1>2. Segment'
    BY ConstantsAssumption DEF Gone, TesterSends, Segment
<1>3. Flight'
    BY RemoveFlight, AddFlight, TesterHarmless DEF Gone, TesterSends
<1> QED BY <1>1, <1>2, <1>3

\* A scheduled response is sent, or withheld.
LEMMA FireStep ==
    ASSUME Segment, Responses, Flight, NEW e \in Entities,
           NEW i \in DOMAIN pending[e], Fire(e, i)
    PROVE  Segment' /\ Responses' /\ Flight'
<1> DEFINE q == RemoveAt(pending[e], i)
           h == pending[e][i]
<1>0. pending[e] \in Seq(Testers)
    BY DEF Responses
<1>1. Segment' /\ UNCHANGED open
    BY DEF Fire, Segment
<1>2. q \in Seq(Testers) /\ Len(q) = Len(pending[e]) - 1
    BY <1>0, RemoveAtForm
<1>3. pending' = [pending EXCEPT ![e] = q]
    BY DEF Fire
<1>4. e \in Edges => open[e] /\ Len(q) <= MaxPendingResponses
    <2>1. pending[e] # <<>>
        BY <1>0
    <2>2. Len(pending[e]) \in Nat
        BY <1>0
    <2> HIDE DEF q
    <2> QED BY <1>2, <2>1, <2>2, ConstantsAssumption DEF Responses, TimersReleased
<1>5. Responses'
    <2> HIDE DEF q
    <2> QED BY <1>1, <1>2, <1>3, <1>4, OneResponse
<1>6. Flight'
    <2>1. h \in Hosts
        BY <1>0 DEF Hosts
    <2>2. Harmless(Frame(e, h, "announce"))
        BY <2>1, FrameHarmless DEF AllTypes
    <2> HIDE DEF h
    <2>3. CASE UNCHANGED net
        BY <2>3 DEF Flight, InFlight, Harmless
    <2>4. CASE net' = BagAdd(net, Frame(e, h, "announce"))
        BY <2>2, <2>4, AddFlight
    <2> QED BY <2>3, <2>4 DEF Fire, h
<1> QED BY <1>1, <1>5, <1>6

-----------------------------------------------------------------------------
(* The theorems.                                                           *)

\* The inductive invariant: types, what is under way between entities, and for
\* whom responses are scheduled.
THEOREM SegmentSafe == Spec => []SegmentInv
<1>1. Init => SegmentInv
    <2> SUFFICES ASSUME Init PROVE Segment /\ Responses /\ Flight
        BY SegmentForm
    <2>1. Segment
        BY ConstantsAssumption DEF Init, Segment
    <2>2. Responses
        BY EmptySeq, ConstantsAssumption DEF Init, Responses, TimersReleased, Entities
    <2>3. Flight
        BY NothingInBag DEF Init, Flight, InFlight
    <2> QED BY <2>1, <2>2, <2>3
<1>2. SegmentInv /\ [Next]_vars => SegmentInv'
    <2> SUFFICES ASSUME Segment /\ Responses /\ Flight, [Next]_vars
                 PROVE  (Segment /\ Responses /\ Flight)'
        BY SegmentForm, PTL
    <2>1. CASE UNCHANGED vars
        BY <2>1 DEF vars, Segment, Responses, TimersReleased, Flight, InFlight,
                    Harmless
    <2>2. CASE Next
        BY <2>2, AnnouncerStep, CloseStep, DeliverStep, TrafficStep, FireStep
           DEF Next, Network, Timer
    <2> QED BY <2>1, <2>2
<1> QED BY <1>1, <1>2, PTL DEF Spec

\* Nothing an entity sends to an entity is answered, for any number of
\* EdgeNodes and virtual ECUs, whatever testers send and however datagrams are
\* delayed and reordered; an announcement over max_payload_bytes is the one
\* exception (datagram_received of both announcers).
THEOREM SegmentInert == Spec => []Inert
<1>1. SegmentInv => Inert
    BY SegmentForm, EntityIgnored DEF Flight, Inert
<1> QED BY <1>1, SegmentSafe, PTL

\* An EdgeNode never has more than _MAX_PENDING_RESPONSES timers, and they end
\* with its listener, whoever closes it (_schedule_discovery, stop,
\* connection_lost).
THEOREM TimersBounded == Spec => []TimersInv
<1>1. SegmentInv => TimersInv
    BY DEF SegmentInv
<1> QED BY <1>1, SegmentSafe, PTL

=============================================================================
