----------------------------- MODULE TesterEcho -----------------------------
(***************************************************************************)
(* The PC tester of PcTester on the echo ECU of EchoEcu, beside other      *)
(* peers of the ECU that contend for the same addresses.  A behaviour has  *)
(* one of the casts in Casts; where the tester has no connection it takes  *)
(* no part.  What the node reads from the tester's connections is what the *)
(* tester sent, in order, and what it writes to them arrives in order      *)
(* until the network or one of the ends breaks them.                       *)
(*                                                                         *)
(* In a cast with relay the tester's node is an EdgeNode, seen from the    *)
(* tester: it grants an address as the echo ECU does, but refuses a second *)
(* one, rejects diagnostics of an address that it did not grant, relays    *)
(* ResponsePending before the answer or no answer at all, and may close a  *)
(* connection after any frame (doip_edgenode/session.py; EdgeActivation    *)
(* and EdgeExchange are its own models).                                   *)
(***************************************************************************)
EXTENDS EchoEcu, Sequences

CONSTANTS
    Own,        \* connections the tester can open
    Casts,      \* what a behaviour has: connections of the tester and of other
                \* peers, lines that are typed, addresses that peers activate
                \* and that lines may name, and an EdgeNode before the tester
    Home,       \* the configured tester_logical_addr
    Attempts,   \* attempts of a command
    MaxTyped,   \* bound: lines typed
    MaxPending  \* bound: ResponsePendings under way to the tester

ASSUME TesterAssumption ==
    /\ Own \subseteq Sessions
    /\ Casts \subseteq [own : SUBSET Own, peers : SUBSET Sessions,
                      lines : 0..MaxTyped, addrs : SUBSET Addr,
                      relay : BOOLEAN]
    /\ \A k \in Casts : k.own \cap k.peers = {}
    /\ Home \in Addr
    /\ {Attempts, MaxTyped, MaxPending} \subseteq Nat

VARIABLES tpc, job, cmd, arg, tester_addr, left, typed, act, conn, rdr, queue, closed,
          sent, late, up, down, gone,
          cast,     \* the cast of the behaviour
          broken    \* connections the network has lost

T == INSTANCE PcTester WITH Conns <- Own, Typed <- Addr, ended <- shut \cup broken

repl == <<tpc, job, cmd, arg, tester_addr, left, typed, act, sent, late>>
link == <<conn, rdr, queue, closed, up, down, gone>>
allVars == <<pc, addr, shut, want, target, event, waits, isset, registry,
             moved, repl, link, cast, broken>>

EchoInit ==
    /\ Init
    /\ T!TesterInit
    /\ cast \in Casts
    /\ tpc = "absent" <=> cast.own = {}
    /\ broken = {}

-----------------------------------------------------------------------------
(* The node's side of the tester's connections.                            *)

\* What _loop does with the frame it reads.
Serve(s, r) ==
    \/ /\ r.op = "activate"
       /\ cast.relay => addr[s] \in {None, r.addr}
       /\ ReadActivation(s, r.addr)
    \/ /\ r.op = "alive"
       /\ IF event[s] = None THEN UNCHANGED vars ELSE ReadAlive(s)
    \/ /\ r.op \in {"info", "reply"} \/ (r.op = "diag" /\ addr[s] # None)
       /\ cast.relay /\ r.op = "diag" => addr[s] = r.addr
       /\ ReadOther(s)
       /\ pc'[s] = "sending"
    \/ /\ ~cast.relay /\ r.op = "diag" /\ addr[s] = None
       /\ UNCHANGED vars

\* An EdgeNode refuses the frame and closes the connection, or relays no
\* further frame for a diagnostic request.
Refuse(s, r) ==
    /\ cast.relay
    /\ \/ r.op = "activate" /\ addr[s] \notin {None, r.addr}
       \/ r.op = "diag" /\ addr[s] # r.addr
    /\ ReadOther(s)
    /\ pc'[s] = "leaving"

GiveUp(s, r) == cast.relay /\ r.op = "reply" /\ UNCHANGED vars

PendingRoom(s) ==
    Len(SelectSeq(queue \o down[s], LAMBDA f : f.kind = "pending")) < MaxPending

\* What becomes of the request at the head: it stays while the address is
\* probed for and while an EdgeNode relays a ResponsePending, a Diagnostic
\* Message that is acknowledged leaves its reply to be written, and any other
\* request leaves the channel.
Onward(s, r) ==
    \/ pc'[s] = "probing" /\ UNCHANGED up
    \/ /\ r.op = "reply" /\ pc'[s] = "sending"
       /\ cast.relay /\ PendingRoom(s)
       /\ UNCHANGED up
    \/ /\ r.op = "diag" /\ pc'[s] = "sending"
       /\ up' = [up EXCEPT ![s][1].op = "reply"]
    \/ /\ pc'[s] # "probing"
       /\ r.op = "diag" /\ pc'[s] = "sending" => cast.relay
       /\ up' = [up EXCEPT ![s] = Tail(@)]

\* A Diagnostic Message is answered in several writes, with a drain after each.
Handle(s) ==
    /\ up[s] # <<>>
    /\ \/ /\ pc[s] = "idle"
          /\ LET r == Head(up[s]) IN Serve(s, r) \/ Refuse(s, r) \/ GiveUp(s, r)
       \/ Decide(s)
    /\ Onward(s, Head(up[s]))

\* The stream ends behind the tester's last frame, at once if the node closed
\* it; a drain fails on a connection that has ended.
Served(s) ==
    \/ Handle(s)
    \/ /\ s \in shut \/ (s \in gone \cup broken /\ up[s] = <<>>)
       /\ ReadEof(s)
       /\ up' = [up EXCEPT ![s] = <<>>]
    \/ SendDone(s) /\ pc'[s] = "idle" /\ UNCHANGED up
    \/ /\ s \in shut \cup gone \cup broken \/ cast.relay
       /\ SendDone(s) /\ pc'[s] = "closing"
       /\ up' = [up EXCEPT ![s] = <<>>]
    \/ Finish(s) /\ UNCHANGED up

\* The answer to the request r at the head of s.
Answer(s, r) ==
    CASE r.op = "activate" -> IF pc'[s] = "leaving" THEN "ra02"
                              ELSE IF registry'[r.addr] = s THEN "ra10" ELSE "ra03"
      [] r.op = "diag" -> IF Len(up'[s]) = Len(up[s]) THEN "ack" ELSE "nack"
      [] r.op = "reply" -> IF Len(up'[s]) = Len(up[s]) THEN "pending" ELSE "uds"
      [] r.op = "info" -> "info"

\* What a step of the node writes to s: an Alive Check Request of a contender
\* that begins to probe it, or its own answer.
Written(s) ==
    IF \E c \in Sessions : target[c] = None /\ target'[c] = s
    THEN <<[kind |-> "aliveReq", on |-> s, no |-> 0]>>
    ELSE IF pc[s] \in {"idle", "probing"} /\ pc'[s] \in {"sending", "leaving"}
    THEN LET r == Head(up[s])
         IN <<[kind |-> Answer(s, r), on |-> s, no |-> r.no]>>
    ELSE <<>>

Ecu(s) ==
    /\ \/ s \in cast.own /\ Served(s)
       \/ /\ s \in cast.peers /\ Step(s)
          /\ {addr'[s], want'[s]} \subseteq cast.addrs \cup {None}
          /\ UNCHANGED up
    /\ down' = [c \in Own |-> IF c \in cast.own \ (shut \cup gone \cup broken)
                              THEN down[c] \o Written(c) ELSE down[c]]
    /\ UNCHANGED <<repl, conn, rdr, queue, closed, gone, cast, broken>>

\* The network loses c, and what is in flight from some frame on.
Break(c) ==
    /\ c = conn
    /\ c \notin broken \cup shut
    /\ broken' = broken \cup {c}
    /\ \E n \in 0..Len(down[c]) :
          down' = [down EXCEPT ![c] = SubSeq(@, 1, n)]
    /\ up' = [up EXCEPT ![c] = IF pc[c] = "probing" THEN SubSeq(@, 1, 1)
                               ELSE <<>>]
    /\ UNCHANGED <<vars, repl, conn, rdr, queue, closed, gone, cast>>

\* A connection that both ends have left stands for one that the tester has
\* yet to open.
Reopen(c) ==
    /\ tpc = "connect"
    /\ c \in cast.own
    /\ rdr[c] = "ended"
    /\ Reuse(c)
    /\ rdr' = [rdr EXCEPT ![c] = "none"]
    /\ up' = [up EXCEPT ![c] = <<>>]
    /\ down' = [down EXCEPT ![c] = <<>>]
    /\ gone' = gone \ {c}
    /\ broken' = broken \ {c}
    /\ UNCHANGED <<repl, conn, queue, closed, cast>>

-----------------------------------------------------------------------------
TesterStep ==
    /\ \/ \E c \in cast.own : T!Connect(c) /\ Connect(c)
       \/ /\ UNCHANGED vars
          /\ \/ T!Progress \/ T!Quit
             \/ /\ typed < cast.lines
                /\ \E op \in T!Ops, a \in cast.addrs \cup {None} :
                      \* To name tester_addr itself is to name none.
                      a # tester_addr /\ T!Type(op, a)
    /\ UNCHANGED <<cast, broken>>

ReaderStep(c) == T!Reader(c) /\ UNCHANGED <<vars, cast, broken>>

Ended ==
    /\ tpc \in {"absent", "exit"}
    /\ \A s \in Sessions : pc[s] = "closed" \/ (s \notin cast.peers /\ pc[s] = "new")
    /\ UNCHANGED allVars

EchoNext ==
    \/ TesterStep \/ Ended
    \/ \E c \in Own : ReaderStep(c) \/ Break(c) \/ Reopen(c)
    \/ \E s \in Sessions : Ecu(s)

\* Probes, readers and the REPL task run; waits for an answer time out.  A
\* drain is taken to return, because the ECU reads or the connection ends.
EchoSpec ==
    /\ EchoInit /\ [][EchoNext]_allVars
    /\ \A s \in Sessions : WF_allVars(pc[s] = "probing" /\ Ecu(s))
    /\ \A c \in Own : WF_allVars(ReaderStep(c))
    /\ WF_allVars(T!Progress /\ UNCHANGED <<vars, cast, broken>>)

-----------------------------------------------------------------------------
(* Properties.                                                             *)

\* A frame that answers a request, and the answers that the reader of c has
\* queued or has yet to read.
IsAnswer(f) == f.kind # "aliveReq"
Due(c) == {f \in {queue[i] : i \in DOMAIN queue}
                    \cup {down[c][i] : i \in DOMAIN down[c]} : IsAnswer(f)}

\* cmd_activate waits for its answer.
Activating == tpc = "recv" /\ (job # "command" \/ cmd = "activate")

\* Tester and node stay in step.  Every queued frame came over the present
\* connection, whatever was in flight when the last one was lost (disconnect,
\* connect).  And until a command on this connection ends without its answer,
\* a command finds only answers to itself and leaves none to the next one, and
\* an activated tester speaks for the address that the node granted it, unless
\* it is asking for another (_recv, cmd_activate, cmd_diag, against the
\* handlers of ECUSession and the frames that DoIPSession relays).
InStep ==
    /\ T!TesterTypeOK
    /\ \A i \in DOMAIN queue : queue[i].on = conn
    /\ act => conn # None
    /\ conn # None /\ ~late =>
          /\ \A f \in Due(conn) : tpc \in {"recv", "recv2"} /\ f.no = sent
          /\ act /\ ~Activating => addr[conn] = tester_addr

-----------------------------------------------------------------------------
(* Why they stay in step.                                                  *)

\* The reader of the present connection is the only one that runs, and a
\* connection that was not opened yet carries nothing.  Between two answers
\* the REPL task is in a command.
LinkInv ==
    /\ conn = None <=> tpc \in {"absent", "start", "connect", "exit"}
    /\ tpc \in {"input", "run", "recv2"} => job = "command"
    /\ tpc \in {"start", "connect"} => job # "command"
    /\ tpc = "recv2" => cmd = "diag"
    /\ conn = None => queue = <<>>
    /\ conn # None => rdr[conn] # "none"
    /\ \A i \in DOMAIN queue : queue[i].on = conn /\ IsAnswer(queue[i])
    /\ \A c \in Own : /\ rdr[c] = "reading" => c = conn
                      /\ rdr[c] = "none" => up[c] = <<>> /\ down[c] = <<>>
                      /\ \A i \in DOMAIN down[c] : down[c][i].on = c

\* What the node knows of the tester: its sessions are those the tester
\* opened, and a contender among them has a Routing Activation Request in hand.
SessionInv ==
    /\ \A a \in Addr : registry[a] # None => pc[registry[a]] # "new"
    /\ \A c \in cast.own :
          /\ rdr[c] = "none" => pc[c] = "new"
          /\ pc[c] = "probing" => /\ up[c] # <<>> /\ Head(up[c]).op = "activate"
                                  /\ want[c] = Head(up[c]).addr
    /\ act => conn # None

Asks(r) == r.op # "alive"
Follows(f, g) == f.kind \in {"ack", "pending"} /\ g.kind \in {"pending", "uds"}

\* Until a command ends without its answer, what is under way on connection c
\* belongs to the command that waits, and of two such things the first is an
\* ACK or a ResponsePending and the second comes behind it.
Turn(c) ==
    /\ \A i \in DOMAIN up[c] :
          Asks(up[c][i]) =>
             /\ tpc \in {"recv", "recv2"} /\ up[c][i].no = sent
             /\ \A j \in DOMAIN up[c] : Asks(up[c][j]) => i = j
             /\ \A f \in Due(c) : f.kind \in {"ack", "pending"} /\ up[c][i].op = "reply"
    /\ \A f \in Due(c) : tpc \in {"recv", "recv2"} /\ f.no = sent
    /\ \A i, j \in DOMAIN queue : i < j => Follows(queue[i], queue[j])
    /\ \A i, j \in DOMAIN down[c] :
          i < j /\ IsAnswer(down[c][i]) /\ IsAnswer(down[c][j])
             => Follows(down[c][i], down[c][j])
    /\ \A i \in DOMAIN queue, j \in DOMAIN down[c] :
          IsAnswer(down[c][j]) => Follows(queue[i], down[c][j])
    /\ ~(tpc = "recv" /\ job = "command" /\ cmd = "diag") =>
          /\ \A f \in Due(c) : f.kind # "ack"
          /\ \A i \in DOMAIN up[c] : up[c][i].op # "diag"

\* And the node has, for connection c, the address the tester speaks for, or
\* has just granted it the one it asks for.
Known(c) ==
    /\ \A i \in DOMAIN up[c] :
          /\ Asks(up[c][i]) => (up[c][i].op = "activate" <=> Activating)
          /\ up[c][i].op = "activate" => /\ up[c][i].addr = T!Asked
                                         /\ act => addr[c] = tester_addr
    /\ \A f \in Due(c) :
          /\ f.kind \in T!Activated <=> Activating
          /\ f.kind = "ra10" => addr[c] = T!Asked
          /\ f.kind \in {"ra02", "ra03"} /\ act => addr[c] = tester_addr
    /\ act /\ ~Activating => addr[c] = tester_addr

\* Together they are inductive, beside EchoInv.
StepInv ==
    /\ T!TesterTypeOK /\ LinkInv /\ SessionInv
    /\ \A c \in Own : conn = c /\ ~late => Turn(c) /\ Known(c)

-----------------------------------------------------------------------------
(* Liveness.                                                               *)

\* A command ends, however often the connection is lost under it: it is
\* answered, timed out or given up (repl, reconnect, _recv).
CommandEnds ==
    tpc \in {"run", "recv", "recv2", "connect"} ~> tpc \in {"input", "exit"}

=============================================================================
