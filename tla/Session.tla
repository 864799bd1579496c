------------------------------ MODULE Session ------------------------------
(***************************************************************************)
(* The session of the node with the peer it connects to: MsgCommunicator   *)
(* drives TcpConnector, the handshake of MsgClient and MsgContext, and the *)
(* handler of Node::connectToPeers makes the Peer that PeerManager keeps,  *)
(* whose ping timer and delayed requests outlive the connection.           *)
(*                                                                         *)
(* One worker reads a connection at a time (module Connections); the       *)
(* connector, the timers and the tasks run on others.  The remote side     *)
(* speaks after our Version, as MsgServer does, and answers every Ping     *)
(* once and in order; what else it sends is arbitrary.  Random nonces are  *)
(* taken to differ.  Requests that are only written are left out.          *)
(***************************************************************************)
EXTENDS Naturals, Sequences

CONSTANTS MaxRetries,   \* bound: how often the address refuses and is tried again
          MaxNonce      \* bound: nonces drawn, two for each of two peers

ASSUME BoundsAssumption == MaxRetries \in Nat /\ MaxNonce \in Nat

VARIABLES
  state,      \* MsgCommunicator::_state
  known,      \* it is among Node::_peers
  starting,   \* Node::connectToPeers, which made it, still runs
  holds,      \* its _connection is set
  succeeded, gaveUp,  \* how often its two handlers were called by done()
  connector,  \* "accepted": its connection is registered and onConnect() comes next
  retries,
  conn,       \* the TcpConnection: registered in ConnectionManager or closed
  attached,   \* Connection::_context is set
  context,    \* the MsgContext, which the connection and the peers share
  reader,     \* "pipe": MsgPipe runs inside setEstablished()
  jammed,     \* the input begins with a message that MsgClient refuses
  peers,      \* PeerManager::_peers
  lastId, nonce, lastNonce,  \* Peer::_lastId, _pingNonce, the random numbers drawn
  ping,       \* Peer::_pingTimer
  asks,       \* peers with a task "To ask next portion of headers"
  pings,      \* nonces the remote side has still to answer
  trailed,    \* a message came in the same read as the Verack
  spoilt,     \* MsgPipe refused a message
  stopping,   \* Node::down() has run
  status      \* what ended the program, if anything did

communicator == <<state, known, holds, succeeded, gaveUp>>
network == <<starting, connector, retries, conn, attached, reader, jammed>>
peerState == <<peers, lastId, nonce, lastNonce, ping, asks, pings>>
marks == <<trailed, spoilt>>
vars == <<communicator, network, context, peerState, marks, stopping, status>>

MaxPeers == 2
Ids == 1..MaxPeers
States == {"INIT", "CONNECT", "SUBMITED", "ESTABLISHED", "ERROR"}

Init ==
  /\ state = "INIT" /\ known = TRUE /\ holds = FALSE /\ succeeded = 0 /\ gaveUp = 0
  /\ starting = TRUE /\ connector = "none" /\ retries = 0 /\ conn = "none" /\ attached = FALSE
  /\ context = [local |-> FALSE, remote |-> FALSE, established |-> FALSE,
                handler |-> "none", peer |-> 0]
  /\ reader = "idle" /\ jammed = FALSE
  /\ peers = {} /\ lastId = 0 /\ nonce = [p \in Ids |-> 0] /\ lastNonce = 0
  /\ ping = [p \in Ids |-> "none"] /\ asks = {} /\ pings = <<>>
  /\ trailed = FALSE /\ spoilt = FALSE /\ stopping = FALSE /\ status = "running"

-----------------------------------------------------------------------------
\* done() with an error: the handler of Node takes the communicator off its list.
Fail == gaveUp' = gaveUp + 1 /\ known' = FALSE /\ holds' = FALSE /\ UNCHANGED succeeded

\* Mutant: a step that comes too late is reported although the end was.
BadStep_Always == state' = "ERROR" /\ Fail

BadStep ==
  IF state \in {"ERROR", "ESTABLISHED"}
    THEN UNCHANGED communicator
    ELSE state' = "ERROR" /\ Fail

\* Mutant: a failed connector is forgotten.
FailConnect_Silent == UNCHANGED communicator

FailConnect == IF state = "CONNECT" THEN state' = "ERROR" /\ Fail ELSE BadStep

\* Node::connectToPeers and operator(): the connector is registered, or its
\* constructor throws; then so does done(), and nothing in main() catches it.
Start ==
  /\ state = "INIT"
  /\ \/ /\ state' = "CONNECT" /\ connector' = "waiting"
        /\ UNCHANGED <<known, holds, succeeded, gaveUp, status>>
     \/ /\ state' = "ERROR" /\ Fail /\ status' = "uncaught" /\ UNCHANGED connector
  /\ UNCHANGED <<starting, retries, conn, attached, reader, jammed, context, peerState,
                 marks, stopping>>

\* connectToPeers() is over; then Node has the one lasting reference to the communicator.
Started ==
  /\ starting /\ state # "INIT" /\ status = "running" /\ starting' = FALSE
  /\ UNCHANGED <<communicator, connector, retries, conn, attached, reader, jammed, context,
                 peerState, marks, stopping, status>>

Lives == known \/ starting

\* TcpConnector::processing.  SO_ERROR is 0 on success, and also when the timeout of
\* 15 seconds finds the socket still connecting.
ConnectorEvent ==
  /\ connector = "waiting" /\ status = "running"
  /\ \/ /\ stopping /\ connector' = "gone"
        /\ UNCHANGED <<communicator, retries, conn>>
     \/ /\ ~stopping /\ connector' = "accepted" /\ conn' = "open"
        /\ UNCHANGED <<communicator, retries>>
     \/ /\ ~stopping /\ retries < MaxRetries /\ retries' = retries + 1
        /\ UNCHANGED <<communicator, starting, connector, conn>>
     \/ /\ ~stopping /\ connector' = "gone" /\ FailConnect
        /\ UNCHANGED <<retries, conn>>
  /\ UNCHANGED <<starting, attached, reader, jammed, context, peerState, marks, stopping,
                 status>>

\* The handler of the connector, onConnected() and submit(), under one lock.
OnConnected ==
  /\ connector = "accepted" /\ status = "running"
  /\ attached' = TRUE
  /\ \/ /\ state = "CONNECT" /\ state' = "SUBMITED" /\ holds' = TRUE
        /\ connector' = "gone"
        /\ context' = [context EXCEPT !.local = TRUE]
        /\ UNCHANGED <<known, succeeded, gaveUp>>
     \/ \* submit() throws, and exceptionAtSubmit() reports it.
        /\ state = "CONNECT" /\ state' = "ERROR" /\ Fail /\ connector' = "thrown"
        /\ UNCHANGED context
  /\ UNCHANGED <<starting, retries, conn, reader, jammed, peerState, marks, stopping, status>>

\* The connector catches what done() throws and calls its error handler, which the
\* communicator may not live to see.
ConnectorCatches ==
  /\ connector = "thrown" /\ connector' = "gone" /\ status = "running"
  /\ IF Lives THEN FailConnect ELSE UNCHANGED communicator
  /\ UNCHANGED <<starting, retries, conn, attached, reader, jammed, context, peerState, marks,
                 stopping, status>>

-----------------------------------------------------------------------------
\* The connection is alive while the manager or the communicator has it.
Alive == conn = "open" \/ holds

\* MsgContext::transmit: its two assertions, and the nonces of the Pings it sends.
Transmit(sent) ==
  IF ~Alive THEN status' = "noConnection" /\ UNCHANGED pings
  ELSE IF ~attached THEN status' = "noContext" /\ UNCHANGED pings
  ELSE /\ pings' = IF conn = "open" THEN pings \o sent ELSE pings
       /\ UNCHANGED status

\* Mutant: the handler of the context stays.
NextHandler_Same == "success"

NextHandler == "protocol"

\* The success handler of Node::connectToPeers: newPeer() and initialSetup().
NewPeer ==
  /\ lastNonce < MaxNonce /\ lastId < MaxPeers
  /\ lastId' = lastId + 1 /\ lastNonce' = lastNonce + 1
  /\ peers' = peers \cup {lastId'}
  /\ nonce' = [nonce EXCEPT ![lastId'] = lastNonce']
  /\ context' = [context EXCEPT !.peer = lastId', !.handler = NextHandler]
  /\ Transmit(<<lastNonce'>>)
  /\ UNCHANGED <<ping, asks>>

\* Peer::close: PeerManager gives up the one lasting reference to the peer, and its
\* timer goes with it.
Close(p) == peers' = peers \ {p} /\ ping' = [ping EXCEPT ![p] = "none"]

\* Peer::alive.  Its timer rings once: prolong() sets no alarm after the first one
\* (module Timer).
Alarm(p) == ping' = [ping EXCEPT ![p] = IF @ = "none" THEN "armed" ELSE @]

\* Peer::pong.
Pong(p, n) ==
  IF n # nonce[p]
    THEN Close(p) /\ UNCHANGED nonce
    ELSE nonce' = [nonce EXCEPT ![p] = 0] /\ Alarm(p) /\ UNCHANGED peers

\* Protocol::handler, or the success handler for a message that comes with the
\* Verack.
Handle(kind) ==
  LET p == context.peer
  IN  IF context.handler = "success"
        THEN NewPeer
        ELSE IF stopping \/ p \notin peers
          THEN /\ status' = IF stopping THEN "noProtocol" ELSE "noPeer"
               /\ UNCHANGED <<peerState, context>>
          ELSE /\ UNCHANGED <<lastId, lastNonce, context>>
               /\ \/ /\ kind = "ping" /\ Transmit(<<>>)
                     /\ UNCHANGED <<peers, nonce, ping, asks>>
                  \/ /\ kind = "pong" /\ Pong(p, Head(pings))
                     /\ pings' = Tail(pings) /\ UNCHANGED <<asks, status>>
                  \/ /\ kind = "headers" /\ asks' = asks \cup {p}
                     /\ UNCHANGED <<peers, nonce, ping, pings, status>>

-----------------------------------------------------------------------------
\* The remote side has our Version and the connection is read.
Readable ==
  /\ conn = "open" /\ status = "running" /\ context.local
  /\ ~jammed /\ ~spoilt

\* MsgClient::processing: the Version, which is answered with a Verack, and then
\* the Verack, after which MsgContext::setEstablished goes on with what else came.
\* A message it refuses stays in front of the others until the connection's time
\* is out; so does one that comes out of turn.
ReceiveVersion ==
  /\ Readable /\ ~context.established /\ ~context.remote
  /\ context' = [context EXCEPT !.remote = TRUE]
  /\ UNCHANGED <<communicator, network, peerState, marks, stopping, status>>

ReceiveVerack ==
  /\ Readable /\ ~context.established /\ context.remote
  /\ context' = [context EXCEPT !.established = TRUE, !.handler = "success"]
  /\ reader' = "pipe"
  /\ UNCHANGED <<communicator, starting, connector, retries, conn, attached, jammed,
                 peerState, marks, stopping, status>>

ReceiveUnfit ==
  /\ Readable /\ ~context.established /\ jammed' = TRUE
  /\ UNCHANGED <<communicator, starting, connector, retries, conn, attached, reader, context,
                 peerState, marks, stopping, status>>

\* MsgPipe::processing.  Pongs answer Pings, which are sent when a turn is over.
ReceiveMessage(kind) ==
  /\ Readable /\ context.established
  /\ kind = "pong" => reader = "idle" /\ pings # <<>>
  /\ trailed' = (trailed \/ reader = "pipe")
  /\ Handle(kind)
  /\ UNCHANGED <<communicator, network, spoilt, stopping>>

\* A message it cannot use: close() and resetContext().
ReceiveBad ==
  /\ Readable /\ context.established
  /\ spoilt' = TRUE /\ attached' = FALSE
  /\ trailed' = (trailed \/ reader = "pipe")
  /\ UNCHANGED <<communicator, starting, connector, retries, conn, reader, jammed, context,
                 peerState, stopping, status>>

\* Mutant: done() gives up the connection whatever came of it.
KeepsConnection_Never(s) == FALSE

KeepsConnection(s) == s = "ESTABLISHED"

\* The end of setEstablished: onComplete() and done().
Complete ==
  /\ reader = "pipe" /\ reader' = "idle" /\ status = "running"
  /\ \/ /\ state = "SUBMITED" /\ attached
        /\ state' = "ESTABLISHED" /\ succeeded' = succeeded + 1
        /\ holds' = KeepsConnection(state')
        /\ NewPeer
        /\ UNCHANGED <<known, gaveUp>>
     \/ /\ state = "SUBMITED" /\ ~attached   \* "Bad context" is thrown
        /\ UNCHANGED <<communicator, context, peerState, status>>
  /\ UNCHANGED <<starting, connector, retries, conn, attached, jammed, marks, stopping>>

\* The connection leaves the manager: the remote side ends it, or its time is out;
\* ConnectionManager gives every connection a second when the daemon shuts down.
Leave ==
  /\ conn = "open" /\ reader = "idle" /\ status = "running"
  /\ conn' = "closed" /\ pings' = <<>>
  /\ UNCHANGED <<communicator, starting, connector, retries, attached, reader, jammed, context,
                 peers, lastId, nonce, lastNonce, ping, asks, marks, stopping, status>>

RemoteLeaves == Leave
TimeIsOut == (~context.established \/ spoilt \/ stopping) /\ Leave

-----------------------------------------------------------------------------
\* Mutant: the Ping carries the nonce of the last one.
Sent_Old(p) == <<nonce[p]>>

Sent(p) == <<nonce'[p]>>

\* The ping timer of a peer rings.
PingAlarm(p) ==
  /\ p \in peers /\ ping[p] = "armed" /\ status = "running"
  /\ IF nonce[p] # 0
       THEN Close(p) /\ UNCHANGED <<nonce, lastNonce, pings, status>>
       ELSE /\ lastNonce < MaxNonce /\ lastNonce' = lastNonce + 1
            /\ nonce' = [nonce EXCEPT ![p] = lastNonce']
            /\ ping' = [ping EXCEPT ![p] = "spent"]
            /\ Transmit(Sent(p))
            /\ UNCHANGED peers
  /\ UNCHANGED <<communicator, network, context, lastId, asks, marks, stopping>>

\* The task of ReceiveHeaders runs: AskHeaders, if the peer is still there.
AskHeaders(p) ==
  /\ p \in asks /\ asks' = asks \ {p} /\ status = "running"
  /\ IF p \in peers THEN Transmit(<<>>) ELSE UNCHANGED <<pings, status>>
  /\ UNCHANGED <<communicator, network, context, peers, lastId, nonce, lastNonce, ping,
                 marks, stopping>>

\* Daemon::shutdown calls Node::down.
Shutdown ==
  /\ ~stopping /\ stopping' = TRUE /\ status = "running" /\ ~starting
  /\ UNCHANGED <<communicator, network, context, peerState, marks, status>>

Next ==
  \/ Start \/ Started \/ ConnectorEvent \/ OnConnected \/ ConnectorCatches
  \/ ReceiveVersion \/ ReceiveVerack \/ ReceiveUnfit
  \/ \E kind \in {"ping", "pong", "headers"} : ReceiveMessage(kind)
  \/ ReceiveBad \/ Complete \/ RemoteLeaves \/ TimeIsOut
  \/ \E p \in Ids : PingAlarm(p) \/ AskHeaders(p)
  \/ Shutdown

Spec == Init /\ [][Next]_vars

\* Workers run, and the timeouts of the connector and of a handshake ring.
Fairness ==
  /\ WF_vars(Start) /\ WF_vars(Started) /\ WF_vars(ConnectorEvent) /\ WF_vars(OnConnected)
  /\ WF_vars(ConnectorCatches) /\ WF_vars(Complete) /\ WF_vars(TimeIsOut)
FairSpec == Spec /\ Fairness

-----------------------------------------------------------------------------
\* The state keeps its type; not more than two peers are ever made for a session,
\* and a communicator has its connection from submit() until it fails.
TypeOK ==
  /\ state \in States /\ known \in BOOLEAN /\ starting \in BOOLEAN /\ holds \in BOOLEAN
  /\ succeeded \in Nat /\ gaveUp \in Nat
  /\ connector \in {"none", "waiting", "accepted", "thrown", "gone"}
  /\ retries \in 0..MaxRetries /\ conn \in {"none", "open", "closed"}
  /\ attached \in BOOLEAN /\ reader \in {"idle", "pipe"} /\ jammed \in BOOLEAN
  /\ context \in [local : BOOLEAN, remote : BOOLEAN, established : BOOLEAN,
                  handler : {"none", "success", "protocol"}, peer : 0..MaxPeers]
  /\ peers \subseteq Ids /\ lastId \in 0..MaxPeers /\ lastNonce \in 0..MaxNonce
  /\ nonce \in [Ids -> 0..MaxNonce] /\ ping \in [Ids -> {"none", "armed", "spent"}]
  /\ holds <=> state \in {"SUBMITED", "ESTABLISHED"}
  /\ asks \subseteq Ids /\ pings \in Seq(0..MaxNonce)
  /\ trailed \in BOOLEAN /\ spoilt \in BOOLEAN /\ stopping \in BOOLEAN
  /\ status \in {"running", "uncaught", "noConnection", "noContext", "noPeer", "noProtocol"}

\* Safety: a communicator reports one end at most, whichever of its steps fail and
\* however late, and Node has it on its list until it reports a failure.
OneOutcome ==
  /\ succeeded + gaveUp <= 1
  /\ gaveUp = 1 <=> state = "ERROR"
  /\ known <=> gaveUp = 0

\* Safety: a session has one peer unless a message came in the same read as the
\* Verack and went to the success handler.
OnePeer == ~trailed => lastId <= 1

\* Safety of peers.  A peer may outlive its connection in the manager but not the
\* connection itself, so the first assertion of transmit() holds for pings and delayed
\* requests.  With a remote side that answers every Ping, a peer is closed only when two of
\* them share the connection, so the assertion of Protocol::handler holds without a message
\* that came with the Verack.
PeersStay ==
  /\ peers # {} => Alive
  /\ status # "noConnection"
  /\ ~trailed => peers = 1..lastId /\ status # "noPeer"

\* Liveness: an attempt to connect ends in success or failure, or its connection is
\* closed; then, over TCP, the communicator is never told.
AttemptSettles ==
  state = "CONNECT" ~>
    (succeeded + gaveUp > 0 \/ conn = "closed" \/ stopping \/ status # "running")

\* src/src/protocol/Protocol.cpp:58, assert(peer): a message of an established session
\* finds its peer.
HandlerHasPeer == status # "noPeer"
=============================================================================
