------------------------------ MODULE PcTester ------------------------------
(***************************************************************************)
(* The command-line tester (pc_tester/tester.py): the REPL task that sends *)
(* a command and waits for its answer, the background reader that answers  *)
(* Alive Checks and queues every other frame, and the reconnection that    *)
(* runs a command again.  The node is not part of this module: it takes    *)
(* frames from up, puts frames on down and may end a connection.           *)
(*                                                                         *)
(*   tpc  absent   no tester takes part                                    *)
(*        start    run() is about to connect                               *)
(*        input    waits for a line                                        *)
(*        run      a command begins its next attempt                       *)
(*        recv     awaits the first answer, with self.timeout              *)
(*        recv2    awaits what follows a Positive ACK, for 2 s             *)
(*        connect  reconnect() has disconnected                            *)
(*        exit     the process has ended                                   *)
(***************************************************************************)
EXTENDS Integers, Sequences

CONSTANTS
    Conns,      \* connections the tester can open
    None,
    Home,       \* tester_addr, as configured
    Typed,      \* addresses that an activate line may name
    Attempts,   \* 3, or 1 without auto_reconnect
    MaxTyped    \* bound: lines typed

VARIABLES
    tpc,      \* the await of the REPL task
    job,      \* what the answer is for: "initial" activation, "reconnect"
              \* or "command"
    cmd,      \* the command under way, or "none"
    arg,      \* the address that an activate line names, or None
    tester_addr,
    left,     \* attempts
    typed,    \* lines typed so far
    act,      \* activated
    conn,     \* the connection of _reader and _writer
    rdr,      \* the background reader of each connection
    queue,    \* _recv_queue
    closed,   \* _closed_event
    sent,     \* number of the last request sent on conn
    late,     \* a command on conn ended without its answer: a wait was given
              \* up, or a ResponsePending was taken for it
    up,       \* frames on their way to the node, by connection
    down,     \* frames on their way to the tester
    gone,     \* connections the tester has closed
    ended     \* connections the node, or the network, has ended

repl == <<tpc, job, cmd, arg, tester_addr, left, typed, act, sent, late>>
link == <<conn, rdr, queue, closed, up, down, gone>>
testerVars == <<repl, link>>

Ops == {"activate", "diag", "alive", "info"}
Activated == {"ra10", "ra03", "ra02"}  \* Routing Activation Responses
Answers == Activated \cup {"ack", "nack", "pending", "uds", "info", "aliveReq"}
Addresses == Typed \cup {Home}
\* A node may leave "reply" in the place of a request it has only acknowledged.
Requests == [op : Ops \cup {"reply"}, addr : Addresses, no : Nat]
Frames == [kind : Answers, on : Conns, no : Nat]

TesterTypeOK ==
    /\ tpc \in {"absent", "start", "input", "run", "recv", "recv2", "connect",
                "exit"}
    /\ job \in {"initial", "reconnect", "command"}
    /\ cmd \in Ops \cup {"none"}
    /\ arg \in Typed \cup {None}
    /\ tester_addr \in Addresses
    /\ left \in 0..Attempts
    /\ typed \in 0..MaxTyped
    /\ {act, closed, late} \subseteq BOOLEAN
    /\ conn \in Conns \cup {None}
    /\ rdr \in [Conns -> {"none", "reading", "ended"}]
    /\ sent \in Nat
    /\ queue \in Seq(Frames)
    /\ up \in [Conns -> Seq(Requests)]
    /\ down \in [Conns -> Seq(Frames)]
    /\ gone \subseteq Conns

TesterInit ==
    /\ tpc \in {"absent", "start"}
    /\ job = "initial"
    /\ cmd = "none"
    /\ arg = None
    /\ tester_addr = Home
    /\ left = 0
    /\ typed = 0
    /\ act = FALSE
    /\ conn = None
    /\ rdr = [c \in Conns |-> "none"]
    /\ queue = <<>>
    /\ closed = FALSE
    /\ sent = 0
    /\ late = FALSE
    /\ up = [c \in Conns |-> <<>>]
    /\ down = [c \in Conns |-> <<>>]
    /\ gone = {}

-----------------------------------------------------------------------------
(* The connection.                                                         *)

\* Mutant: disconnect() leaves the reader of the old connection running.
DisconnectReaderRuns ==
    /\ conn' = None
    /\ act' = FALSE
    /\ queue' = <<>>
    /\ gone' = gone \cup ({conn} \ {None})
    /\ UNCHANGED <<rdr, closed, down>>

\* disconnect(): the reader is cancelled and joined, the writer closed and the
\* queue emptied.  What still arrives on the connection is not read.
Disconnect ==
    /\ conn' = None
    /\ act' = FALSE
    /\ queue' = <<>>
    /\ gone' = gone \cup ({conn} \ {None})
    /\ down' = [c \in Conns |-> IF c = conn THEN <<>> ELSE down[c]]
    /\ rdr' = [c \in Conns |-> IF c = conn THEN "ended" ELSE rdr[c]]
    /\ closed' = (closed \/ conn # None)

\* The process ends, and its connection with it.
Exit ==
    /\ Disconnect
    /\ tpc' = "exit"
    /\ job' = "initial"
    /\ cmd' = "none"
    /\ arg' = None
    /\ tester_addr' = Home
    /\ left' = 0
    /\ typed' = 0
    /\ sent' = 0
    /\ late' = FALSE

\* The source address of a request: that of the line if one is named, and
\* tester_addr in every other command and when repl() activates by itself.
Asked == IF job = "command" /\ arg # None THEN arg ELSE tester_addr

\* A request is written to connection c; one to an ended connection is lost.
Transmit(c, op, n) ==
    /\ sent' = n
    /\ up' = IF c \in ended THEN up
             ELSE [up EXCEPT ![c] = Append(@, [op |-> op, addr |-> Asked,
                                               no |-> n])]

\* connect() opens connection c, one that is new.  It is followed by
\* cmd_activate, except at the start with --no-auto-activate.
Connect(c) ==
    /\ tpc \in {"start", "connect"}
    /\ rdr[c] = "none"
    /\ conn' = c
    /\ closed' = FALSE
    /\ queue' = <<>>
    /\ rdr' = [rdr EXCEPT ![c] = "reading"]
    /\ late' = FALSE
    /\ \/ /\ tpc' = "recv"
          /\ Transmit(c, "activate", 1)
          /\ UNCHANGED job
       \/ /\ tpc = "start"
          /\ tpc' = "input"
          /\ job' = "command"
          /\ sent' = 0
          /\ UNCHANGED up
    /\ UNCHANGED <<cmd, arg, tester_addr, left, typed, act, down, gone>>

ConnectFails ==
    /\ tpc \in {"start", "connect"}
    /\ Exit
    /\ UNCHANGED up

-----------------------------------------------------------------------------
(* The background reader of connection c.                                  *)

ReaderTakes(c) ==
    /\ rdr[c] = "reading"
    /\ down[c] # <<>>
    /\ down' = [down EXCEPT ![c] = Tail(@)]
    /\ IF Head(down[c]).kind = "aliveReq"
       THEN /\ up' = [up EXCEPT ![c] = Append(@, [op |-> "alive", addr |-> tester_addr,
                                                  no |-> 0])]
            /\ UNCHANGED queue
       ELSE /\ queue' = Append(queue, Head(down[c]))
            /\ UNCHANGED up
    /\ UNCHANGED <<repl, conn, rdr, closed, gone>>

\* The stream ends, or the reply to an Alive Check fails.
ReaderEnds(c) ==
    /\ rdr[c] = "reading"
    /\ down[c] # <<>> => Head(down[c]).kind = "aliveReq"
    /\ c \in ended
    /\ rdr' = [rdr EXCEPT ![c] = "ended"]
    /\ closed' = TRUE
    /\ UNCHANGED <<repl, conn, queue, up, down, gone>>

-----------------------------------------------------------------------------
(* Commands.                                                               *)

\* A line is read; one that activates may name an address.
Type(op, a) ==
    /\ tpc = "input"
    /\ typed < MaxTyped
    /\ a # None => op = "activate"
    /\ cmd' = op
    /\ arg' = a
    /\ typed' = typed + 1
    /\ left' = Attempts
    /\ tpc' = "run"
    /\ UNCHANGED <<job, tester_addr, act, sent, late, link>>

Quit ==
    /\ tpc = "input"
    /\ Exit
    /\ UNCHANGED up

\* The REPL asks for the next line.
Prompt ==
    /\ tpc' = "input"
    /\ job' = "command"
    /\ cmd' = "none"
    /\ arg' = None
    /\ left' = 0
    /\ UNCHANGED <<typed, conn, rdr, closed, gone, down>>

\* Mutant: an attempt is not counted.
ConnectionLostRetries ==
    /\ IF job = "command" /\ left > 1
       THEN /\ Disconnect
            /\ tpc' = "connect"
            /\ job' = "reconnect"
            /\ UNCHANGED <<left, cmd, arg, tester_addr, typed, sent, late>>
       ELSE Exit
    /\ UNCHANGED up

\* A command raised ConnectionResetError: repl() reconnects for another
\* attempt, or gives up; an activation of its own ends the process.
ConnectionLost ==
    /\ IF job = "command" /\ left > 1
       THEN /\ Disconnect
            /\ tpc' = "connect"
            /\ job' = "reconnect"
            /\ left' = left - 1
            /\ UNCHANGED <<cmd, arg, tester_addr, typed, sent, late>>
       ELSE Exit
    /\ UNCHANGED up

\* An attempt: cmd_activate, cmd_diag, cmd_alive, cmd_status or cmd_power up
\* to the answer.  The drain of a lost connection may raise, whether or not the
\* reader has noticed.
Run ==
    /\ tpc = "run"
    /\ \/ /\ cmd \in {"diag", "alive"} /\ ~act
          /\ Prompt
          /\ UNCHANGED <<tester_addr, act, sent, late, queue, up>>
       \/ /\ cmd = "alive" /\ act
          /\ Prompt
          /\ Transmit(conn, "alive", sent)
          /\ UNCHANGED <<tester_addr, act, late, queue>>
       \/ /\ cmd \in {"activate", "info"} \/ (cmd = "diag" /\ act)
          /\ Transmit(conn, cmd, sent + 1)
          /\ tpc' = "recv"
          /\ UNCHANGED <<job, cmd, arg, tester_addr, left, typed, act, late,
                         conn, rdr, queue, closed, down, gone>>
       \/ /\ cmd \in {"diag", "alive"} => act
          /\ conn \in ended
          /\ ConnectionLost

\* cmd_activate has its answer f; reconnect() and the start go on from it.
Activation(f) ==
    IF f.kind = "ra10" /\ job = "reconnect"
    THEN /\ act' = TRUE
         /\ tpc' = "run"
         /\ job' = "command"
         /\ queue' = Tail(queue)
         /\ UNCHANGED <<cmd, arg, tester_addr, left, typed, sent, late, conn,
                        rdr, closed, gone, down>>
    ELSE IF f.kind = "ra10" \/ job = "command"
    THEN /\ Prompt
         /\ act' = (act \/ f.kind = "ra10")
         /\ tester_addr' = IF f.kind = "ra10" THEN Asked ELSE tester_addr
         /\ late' = (late \/ f.kind = "pending")
         /\ queue' = Tail(queue)
         /\ UNCHANGED sent
    ELSE Exit

\* _recv returns the oldest queued frame, whatever it answers.  cmd_diag takes
\* one frame after an ACK, and a ResponsePending is not told from an answer.
Take ==
    /\ tpc \in {"recv", "recv2"}
    /\ queue # <<>>
    /\ IF job # "command" \/ cmd = "activate"
       THEN Activation(Head(queue))
       ELSE /\ IF /\ tpc = "recv"
                  /\ cmd = "diag"
                  /\ Head(queue).kind = "ack"
               THEN /\ tpc' = "recv2"
                    /\ UNCHANGED <<job, cmd, arg, left, typed, late, conn, rdr,
                                   closed, gone, down>>
               ELSE /\ Prompt
                    /\ late' = (late \/ Head(queue).kind = "pending")
            /\ queue' = Tail(queue)
            /\ UNCHANGED <<tester_addr, act, sent>>
    /\ UNCHANGED up

\* wait_for expires on an empty queue.  Only then is _closed_event looked at.
RecvTimeout ==
    /\ tpc \in {"recv", "recv2"}
    /\ queue = <<>>
    /\ \/ closed /\ ConnectionLost
       \/ /\ ~closed
          /\ \/ /\ job = "command"
                /\ Prompt
                /\ late' = TRUE
                /\ UNCHANGED <<tester_addr, act, sent, queue>>
             \/ job # "command" /\ Exit
          /\ UNCHANGED up

-----------------------------------------------------------------------------
Reader(c) == ReaderTakes(c) \/ ReaderEnds(c)

\* Steps the program takes by itself, once a line is typed.
Progress == Run \/ Take \/ RecvTimeout \/ ConnectFails

=============================================================================
