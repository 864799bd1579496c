--------------------------- MODULE SessionProofs ---------------------------
(***************************************************************************)
(* Proofs about Session: one outcome is reported, a session has one peer,  *)
(* and a peer never outlives its connection, unless a message came in the  *)
(* same read as the Verack.                                                *)
(*                                                                         *)
(* None of this is inductive alone.  That peers are never without their    *)
(* connection rests on the order of the handshake: the communicator has    *)
(* the connection before MsgContext sends the Version (Handshake).  That   *)
(* no Pong closes the one peer rests on its nonce being the only one the   *)
(* remote side has to answer (OnePing).                                    *)
(***************************************************************************)
EXTENDS Session, TLAPS

\* TypeOK in the parts that actions change together.
CommunicatorType ==
  /\ state \in States /\ known \in BOOLEAN /\ holds \in BOOLEAN
  /\ succeeded \in Nat /\ gaveUp \in Nat
  /\ holds <=> state \in {"SUBMITED", "ESTABLISHED"}

NetworkType ==
  /\ starting \in BOOLEAN
  /\ connector \in {"none", "waiting", "accepted", "thrown", "gone"}
  /\ retries \in 0..MaxRetries /\ conn \in {"none", "open", "closed"}
  /\ attached \in BOOLEAN /\ reader \in {"idle", "pipe"} /\ jammed \in BOOLEAN

ContextType ==
  context \in [local : BOOLEAN, remote : BOOLEAN, established : BOOLEAN,
               handler : {"none", "success", "protocol"}, peer : 0..MaxPeers]

PeersType ==
  /\ peers \subseteq Ids /\ lastId \in 0..MaxPeers /\ lastNonce \in 0..MaxNonce
  /\ nonce \in [Ids -> 0..MaxNonce] /\ ping \in [Ids -> {"none", "armed", "spent"}]
  /\ asks \subseteq Ids /\ pings \in Seq(0..MaxNonce)

MarksType ==
  /\ trailed \in BOOLEAN /\ spoilt \in BOOLEAN /\ stopping \in BOOLEAN
  /\ status \in {"running", "uncaught", "noConnection", "noContext", "noPeer",
                 "noProtocol"}

\* The connector reports while the communicator waits for it, and what it throws comes
\* from a communicator that has failed.
ConnectorFollows ==
  /\ connector \in {"waiting", "accepted"} => state = "CONNECT"
  /\ connector = "thrown" => state = "ERROR"

Outcomes ==
  /\ succeeded = IF state = "ESTABLISHED" THEN 1 ELSE 0
  /\ gaveUp = IF state = "ERROR" THEN 1 ELSE 0
  /\ known <=> state # "ERROR"

\* Submitted, our Version, their Version, their Verack, the handler of Node: in this
\* order.  A handshake that is over has left the success handler, or is refused.
Handshake ==
  /\ context.local => state \in {"SUBMITED", "ESTABLISHED"}
  /\ context.remote => context.local
  /\ context.established => context.remote
  /\ context.established <=> context.handler # "none"
  /\ reader = "pipe" => state = "SUBMITED" /\ context.established
  /\ state = "ESTABLISHED" => context.established
  /\ context.local /\ ~attached => spoilt
  /\ context.handler = "success" /\ reader = "idle" => spoilt

\* The context hands messages to the last peer made for it.
PeerOfContext ==
  /\ context.peer = lastId
  /\ lastId > 0 <=> context.handler = "protocol"
  /\ peers \subseteq 1..lastId

\* Without a message that came with the Verack: one peer, made when setEstablished ends.
SolePeer ==
  ~trailed => /\ lastId <= 1
              /\ peers = 1..lastId
              /\ reader = "pipe" => lastId = 0
              /\ status # "noPeer"

\* Then the only Ping without an answer is the last one of that peer, and its timer does
\* not run meanwhile.
OnePing ==
  ~trailed => /\ pings # <<>> => pings = <<nonce[1]>> /\ nonce[1] # 0 /\ lastId = 1
              /\ ping[1] = "armed" => nonce[1] = 0
              /\ lastId = 0 => ping[1] = "none"

IInv ==
  /\ CommunicatorType /\ NetworkType /\ ContextType /\ PeersType /\ MarksType
  /\ ConnectorFollows
  /\ Outcomes
  /\ Handshake
  /\ PeerOfContext
  /\ SolePeer
  /\ OnePing
  /\ status # "noConnection"

-----------------------------------------------------------------------------
\* TypeOK and its parts.
LEMMA PartsOfType ==
  TypeOK <=> /\ CommunicatorType /\ NetworkType /\ ContextType
             /\ PeersType /\ MarksType
BY Zenon DEF TypeOK, CommunicatorType, NetworkType, ContextType, PeersType, MarksType

\* done() with an error, of a communicator that has reported nothing yet.
LEMMA FailKeeps ==
  ASSUME IInv, state \in {"INIT", "CONNECT"}, state' = "ERROR", Fail
  PROVE  CommunicatorType' /\ Outcomes'
<1>1. /\ state' = "ERROR" /\ gaveUp' = gaveUp + 1 /\ succeeded' = succeeded
      /\ known' = FALSE /\ holds' = FALSE
  BY DEF Fail
<1>2. gaveUp = 0 /\ succeeded = 0
  BY DEF IInv, Outcomes
<1>3. CommunicatorType'
  <2>1. state' \in States /\ known' \in BOOLEAN /\ holds' \in BOOLEAN
    BY <1>1 DEF States
  <2>2. succeeded' \in Nat /\ gaveUp' \in Nat
    BY <1>1, <1>2
  <2>3. holds' <=> state' \in {"SUBMITED", "ESTABLISHED"}
    BY <1>1
  <2> QED BY <2>1, <2>2, <2>3 DEF CommunicatorType
<1>4. Outcomes'
  BY <1>1, <1>2 DEF Outcomes
<1> QED BY <1>3, <1>4

\* A step that leaves the communicator alone leaves its outcomes alone.
LEMMA CommunicatorStays ==
  ASSUME IInv, UNCHANGED communicator
  PROVE  CommunicatorType' /\ Outcomes'
BY DEF CommunicatorType, Outcomes, IInv, communicator

\* A connector reports a failure to a communicator that waits or has failed.
LEMMA FailConnectKeeps ==
  ASSUME IInv, FailConnect, connector \in {"waiting", "accepted", "thrown"}
  PROVE  /\ CommunicatorType' /\ Outcomes'
         /\ state \in {"CONNECT", "ERROR"} /\ state' = "ERROR"
<1>1. CASE state = "CONNECT"
  BY <1>1, FailKeeps DEF FailConnect
<1>2. CASE state # "CONNECT"
  <2>1. state = "ERROR"
    BY <1>2 DEF IInv, ConnectorFollows
  <2>2. UNCHANGED communicator
    BY <1>2, <2>1 DEF FailConnect, BadStep
  <2> QED BY <2>1, <2>2, CommunicatorStays DEF communicator
<1> QED BY <1>1, <1>2

-----------------------------------------------------------------------------
\* A communicator that cannot start fails, and nothing was there before.
LEMMA StartKeeps ==
  ASSUME IInv, Start
  PROVE  IInv'
<1> USE DEF IInv, communicator, network, peerState, marks
<1>1. CommunicatorType' /\ Outcomes'
  <2>1. CASE state' = "CONNECT" /\ UNCHANGED <<known, holds, succeeded, gaveUp>>
    BY <2>1 DEF Start, CommunicatorType, Outcomes, States
  <2>2. CASE state' = "ERROR" /\ Fail
    BY <2>2, FailKeeps DEF Start
  <2> QED BY <2>1, <2>2 DEF Start
<1>2. NetworkType' /\ ContextType' /\ PeersType' /\ MarksType'
  BY DEF Start, NetworkType, ContextType, PeersType, MarksType
<1>3. ConnectorFollows'
  BY DEF Start, Fail, CommunicatorType, ConnectorFollows
<1>4. Handshake'
  BY DEF Start, Fail, CommunicatorType, NetworkType, ContextType, MarksType,
       ConnectorFollows, Handshake
<1>5. PeerOfContext' /\ SolePeer' /\ OnePing' /\ status' # "noConnection"
  BY DEF Start, NetworkType, ContextType, PeersType, MarksType, Handshake, PeerOfContext,
       SolePeer, OnePing
<1> QED BY <1>1, <1>2, <1>3, <1>4, <1>5

\* connectToPeers() is over.
LEMMA StartedKeeps ==
  ASSUME IInv, Started
  PROVE  IInv'
<1> USE DEF IInv, communicator, network, peerState, marks
<1>1. CommunicatorType' /\ Outcomes'
  BY CommunicatorStays DEF Started
<1>2. NetworkType' /\ ContextType' /\ PeersType' /\ MarksType'
  <2>1. NetworkType'
    BY DEF Started, NetworkType
  <2>2. ContextType' /\ PeersType' /\ MarksType'
    BY DEF Started, ContextType, PeersType, MarksType
  <2> QED BY <2>1, <2>2
<1>3. ConnectorFollows'
  BY DEF Started, CommunicatorType, ConnectorFollows
<1>4. Handshake'
  BY DEF Started, CommunicatorType, NetworkType, ContextType, MarksType,
       ConnectorFollows, Handshake
<1>5. PeerOfContext' /\ SolePeer' /\ OnePing' /\ status' # "noConnection"
  BY DEF Started, NetworkType, ContextType, PeersType, MarksType, Handshake,
       PeerOfContext, SolePeer, OnePing
<1> QED BY <1>1, <1>2, <1>3, <1>4, <1>5

\* The connector waits, so the communicator is not submitted and a failure takes no
\* connection away.
LEMMA ConnectorEventKeeps ==
  ASSUME IInv, ConnectorEvent
  PROVE  IInv'
<1> USE DEF IInv, communicator, network, peerState, marks
<1>1. CommunicatorType' /\ Outcomes'
  BY CommunicatorStays, FailConnectKeeps DEF ConnectorEvent
<1>2. NetworkType' /\ ContextType' /\ PeersType' /\ MarksType'
  <2>1. NetworkType'
    BY BoundsAssumption DEF ConnectorEvent, NetworkType
  <2>2. ContextType' /\ PeersType' /\ MarksType'
    BY DEF ConnectorEvent, ContextType, PeersType, MarksType
  <2> QED BY <2>1, <2>2
<1>3. ConnectorFollows'
  BY FailConnectKeeps DEF ConnectorEvent, CommunicatorType, ConnectorFollows
<1>4. Handshake'
  BY FailConnectKeeps DEF ConnectorEvent, CommunicatorType, NetworkType, ContextType,
       MarksType, ConnectorFollows, Handshake
<1>5. PeerOfContext' /\ SolePeer' /\ OnePing' /\ status' # "noConnection"
  BY DEF ConnectorEvent, NetworkType, ContextType, PeersType, MarksType, Handshake,
       PeerOfContext, SolePeer, OnePing
<1> QED BY <1>1, <1>2, <1>3, <1>4, <1>5

\* The communicator has its connection before the context sends anything.
LEMMA OnConnectedKeeps ==
  ASSUME IInv, OnConnected
  PROVE  IInv'
<1> USE DEF IInv, communicator, network, peerState, marks
<1>1. CommunicatorType' /\ Outcomes'
  <2>1. CASE /\ state = "CONNECT" /\ state' = "SUBMITED" /\ holds' = TRUE
             /\ UNCHANGED <<known, succeeded, gaveUp>>
    BY <2>1 DEF CommunicatorType, Outcomes, States
  <2>2. CASE state = "CONNECT" /\ state' = "ERROR" /\ Fail
    BY <2>2, FailKeeps
  <2> QED BY <2>1, <2>2 DEF OnConnected
<1>2. NetworkType' /\ ContextType' /\ PeersType' /\ MarksType'
  <2>1. NetworkType'
    BY DEF OnConnected, NetworkType
  <2>2. ContextType' /\ PeersType' /\ MarksType'
    BY DEF OnConnected, ContextType, PeersType, MarksType
  <2> QED BY <2>1, <2>2
<1>3. ConnectorFollows'
  BY DEF OnConnected, Fail, CommunicatorType, ConnectorFollows
<1>4. Handshake'
  BY DEF OnConnected, Fail, CommunicatorType, NetworkType, ContextType, MarksType,
       ConnectorFollows, Handshake
<1>5. PeerOfContext' /\ SolePeer' /\ OnePing' /\ status' # "noConnection"
  BY DEF OnConnected, NetworkType, ContextType, PeersType, MarksType, Handshake,
       PeerOfContext, SolePeer, OnePing
<1> QED BY <1>1, <1>2, <1>3, <1>4, <1>5

\* What done() threw is reported to a communicator that has failed already.
LEMMA ConnectorCatchesKeeps ==
  ASSUME IInv, ConnectorCatches
  PROVE  IInv'
<1> USE DEF IInv, communicator, network, peerState, marks
<1>1. CommunicatorType' /\ Outcomes'
  BY CommunicatorStays, FailConnectKeeps DEF ConnectorCatches
<1>2. NetworkType' /\ ContextType' /\ PeersType' /\ MarksType'
  BY DEF ConnectorCatches, NetworkType, ContextType, PeersType, MarksType
<1>3. ConnectorFollows'
  BY FailConnectKeeps DEF ConnectorCatches, CommunicatorType, ConnectorFollows
<1>4. Handshake'
  BY FailConnectKeeps DEF ConnectorCatches, CommunicatorType, NetworkType, ContextType,
       MarksType, ConnectorFollows, Handshake
<1>5. PeerOfContext' /\ SolePeer' /\ OnePing' /\ status' # "noConnection"
  BY DEF ConnectorCatches, NetworkType, ContextType, PeersType, MarksType, Handshake,
       PeerOfContext, SolePeer, OnePing
<1> QED BY <1>1, <1>2, <1>3, <1>4, <1>5

\* The other side's Version, answered with a Verack.
LEMMA ReceiveVersionKeeps ==
  ASSUME IInv, ReceiveVersion
  PROVE  IInv'
<1> USE DEF IInv, communicator, network, peerState, marks
<1>1. CommunicatorType' /\ Outcomes'
  BY CommunicatorStays DEF ReceiveVersion
<1>2. NetworkType' /\ ContextType' /\ PeersType' /\ MarksType'
  BY DEF ReceiveVersion, Readable, NetworkType, ContextType, PeersType, MarksType
<1>3. ConnectorFollows'
  BY DEF ReceiveVersion, Readable, CommunicatorType, ConnectorFollows
<1>4. Handshake'
  BY DEF ReceiveVersion, Readable, CommunicatorType, NetworkType, ContextType, MarksType,
       ConnectorFollows, Handshake
<1>5. PeerOfContext' /\ SolePeer' /\ OnePing' /\ status' # "noConnection"
  BY DEF ReceiveVersion, Readable, NetworkType, ContextType, PeersType, MarksType,
       Handshake, PeerOfContext, SolePeer, OnePing
<1> QED BY <1>1, <1>2, <1>3, <1>4, <1>5

\* The Verack, which ends the handshake.
LEMMA ReceiveVerackKeeps ==
  ASSUME IInv, ReceiveVerack
  PROVE  IInv'
<1> USE DEF IInv, communicator, network, peerState, marks
<1>1. CommunicatorType' /\ Outcomes'
  BY CommunicatorStays DEF ReceiveVerack
<1>2. NetworkType' /\ ContextType' /\ PeersType' /\ MarksType'
  BY DEF ReceiveVerack, Readable, NetworkType, ContextType, PeersType, MarksType
<1>3. ConnectorFollows'
  BY DEF ReceiveVerack, Readable, CommunicatorType, ConnectorFollows
<1>4. Handshake'
  BY DEF ReceiveVerack, Readable, CommunicatorType, NetworkType, ContextType, MarksType,
       ConnectorFollows, Handshake
<1>5. PeerOfContext' /\ SolePeer' /\ OnePing' /\ status' # "noConnection"
  BY DEF ReceiveVerack, Readable, NetworkType, ContextType, PeersType, MarksType,
       Handshake, PeerOfContext, SolePeer, OnePing
<1> QED BY <1>1, <1>2, <1>3, <1>4, <1>5

\* A message of another kind before the handshake is over.
LEMMA ReceiveUnfitKeeps ==
  ASSUME IInv, ReceiveUnfit
  PROVE  IInv'
<1> USE DEF IInv, communicator, network, peerState, marks
<1>1. CommunicatorType' /\ Outcomes'
  BY CommunicatorStays DEF ReceiveUnfit
<1>2. NetworkType' /\ ContextType' /\ PeersType' /\ MarksType'
  BY DEF ReceiveUnfit, Readable, NetworkType, ContextType, PeersType, MarksType
<1>3. ConnectorFollows'
  BY DEF ReceiveUnfit, Readable, CommunicatorType, ConnectorFollows
<1>4. Handshake'
  BY DEF ReceiveUnfit, Readable, CommunicatorType, NetworkType, ContextType, MarksType,
       ConnectorFollows, Handshake
<1>5. PeerOfContext' /\ SolePeer' /\ OnePing' /\ status' # "noConnection"
  BY DEF ReceiveUnfit, Readable, NetworkType, ContextType, PeersType, MarksType,
       Handshake, PeerOfContext, SolePeer, OnePing
<1> QED BY <1>1, <1>2, <1>3, <1>4, <1>5

\* A message that the pipe cannot use.
LEMMA ReceiveBadKeeps ==
  ASSUME IInv, ReceiveBad
  PROVE  IInv'
<1> USE DEF IInv, communicator, network, peerState, marks
<1>1. CommunicatorType' /\ Outcomes'
  BY CommunicatorStays DEF ReceiveBad
<1>2. NetworkType' /\ ContextType' /\ PeersType' /\ MarksType'
  BY DEF ReceiveBad, Readable, NetworkType, ContextType, PeersType, MarksType
<1>3. ConnectorFollows'
  BY DEF ReceiveBad, Readable, CommunicatorType, ConnectorFollows
<1>4. Handshake'
  BY DEF ReceiveBad, Readable, CommunicatorType, NetworkType, ContextType, MarksType,
       ConnectorFollows, Handshake
<1>5. PeerOfContext' /\ SolePeer' /\ OnePing' /\ status' # "noConnection"
  BY DEF ReceiveBad, Readable, NetworkType, ContextType, PeersType, MarksType, Handshake,
       PeerOfContext, SolePeer, OnePing
<1> QED BY <1>1, <1>2, <1>3, <1>4, <1>5

\* A connection is left only between two reads; the communicator keeps it.
LEMMA LeaveKeeps ==
  ASSUME IInv, Leave
  PROVE  IInv'
<1> USE DEF IInv, communicator, network, peerState, marks
<1>1. CommunicatorType' /\ Outcomes'
  BY CommunicatorStays DEF Leave
<1>2. NetworkType' /\ ContextType' /\ PeersType' /\ MarksType'
  BY DEF Leave, NetworkType, ContextType, PeersType, MarksType
<1>3. ConnectorFollows'
  BY DEF Leave, CommunicatorType, ConnectorFollows
<1>4. Handshake'
  BY DEF Leave, CommunicatorType, NetworkType, ContextType, MarksType, ConnectorFollows,
       Handshake
<1>5. PeerOfContext' /\ SolePeer' /\ OnePing' /\ status' # "noConnection"
  BY DEF Leave, NetworkType, ContextType, PeersType, MarksType, Handshake, PeerOfContext,
       SolePeer, OnePing
<1> QED BY <1>1, <1>2, <1>3, <1>4, <1>5

\* The daemon stops, and Node with it.
LEMMA ShutdownKeeps ==
  ASSUME IInv, Shutdown
  PROVE  IInv'
<1> USE DEF IInv, communicator, network, peerState, marks
<1>1. CommunicatorType' /\ Outcomes'
  BY CommunicatorStays DEF Shutdown
<1>2. NetworkType' /\ ContextType' /\ PeersType' /\ MarksType'
  BY DEF Shutdown, NetworkType, ContextType, PeersType, MarksType
<1>3. ConnectorFollows'
  BY DEF Shutdown, CommunicatorType, ConnectorFollows
<1>4. Handshake'
  BY DEF Shutdown, CommunicatorType, NetworkType, ContextType, MarksType,
       ConnectorFollows, Handshake
<1>5. PeerOfContext' /\ SolePeer' /\ OnePing' /\ status' # "noConnection"
  BY DEF Shutdown, NetworkType, ContextType, PeersType, MarksType, Handshake,
       PeerOfContext, SolePeer, OnePing
<1> QED BY <1>1, <1>2, <1>3, <1>4, <1>5

-----------------------------------------------------------------------------
\* MsgContext::transmit on a connection that is there, with nonces that were drawn.
LEMMA TransmitKeeps ==
  ASSUME IInv, Alive, NEW sent \in Seq(0..MaxNonce), Transmit(sent)
  PROVE  /\ pings' \in Seq(0..MaxNonce)
         /\ pings' \in {pings, pings \o sent}
         /\ status' \in {status, "noContext"}
<1>1. pings' \in {pings, pings \o sent} /\ status' \in {status, "noContext"}
  BY DEF Transmit
<1>2. pings \in Seq(0..MaxNonce)
  BY DEF IInv, PeersType
<1>3. pings \o sent \in Seq(0..MaxNonce)
  BY <1>2
<1> QED BY <1>1, <1>2, <1>3

\* A session with peers has its connection.
LEMMA PeersAreAlive ==
  ASSUME IInv, lastId > 0
  PROVE  Alive
BY DEF IInv, CommunicatorType, Handshake, PeerOfContext, Alive

\* What newPeer() and initialSetup() leave.
LEMMA NewPeerKeeps ==
  ASSUME IInv, Alive, NewPeer
  PROVE  /\ lastId' = lastId + 1 /\ lastId' \in Ids
         /\ peers' = peers \cup {lastId'} /\ peers' \subseteq Ids
         /\ lastNonce' \in 1..MaxNonce
         /\ nonce' = [nonce EXCEPT ![lastId'] = lastNonce']
         /\ nonce' \in [Ids -> 0..MaxNonce] /\ nonce'[lastId'] # 0
         /\ context' = [context EXCEPT !.peer = lastId', !.handler = "protocol"]
         /\ ContextType' /\ PeersType'
         /\ pings' \in Seq(0..MaxNonce)
         /\ pings' \in {pings, pings \o <<lastNonce'>>}
         /\ status' \in {status, "noContext"}
         /\ UNCHANGED <<ping, asks>>
<1>1. /\ lastNonce < MaxNonce /\ lastId < MaxPeers
      /\ lastId' = lastId + 1 /\ lastNonce' = lastNonce + 1
      /\ peers' = peers \cup {lastId'}
      /\ nonce' = [nonce EXCEPT ![lastId'] = lastNonce']
      /\ context' = [context EXCEPT !.peer = lastId', !.handler = "protocol"]
      /\ Transmit(<<lastNonce'>>)
      /\ UNCHANGED <<ping, asks>>
  BY DEF NewPeer, NextHandler
<1>2. lastId' \in Ids /\ lastNonce' \in 1..MaxNonce
  BY <1>1, BoundsAssumption DEF IInv, PeersType, Ids, MaxPeers
<1>3. <<lastNonce'>> \in Seq(0..MaxNonce)
  BY <1>2
<1>4. /\ pings' \in Seq(0..MaxNonce)
      /\ pings' \in {pings, pings \o <<lastNonce'>>}
      /\ status' \in {status, "noContext"}
  BY <1>1, <1>3, TransmitKeeps
<1>5. nonce' \in [Ids -> 0..MaxNonce] /\ nonce'[lastId'] # 0 /\ peers' \subseteq Ids
  BY <1>1, <1>2 DEF IInv, PeersType
<1>6. ContextType'
  <2>1. lastId' \in 0..MaxPeers
    BY <1>2 DEF Ids, MaxPeers
  <2>2. context \in [local : BOOLEAN, remote : BOOLEAN, established : BOOLEAN,
                     handler : {"none", "success", "protocol"}, peer : 0..MaxPeers]
    BY DEF IInv, ContextType
  <2> QED BY <1>1, <2>1, <2>2 DEF ContextType
<1>7. PeersType'
  BY <1>1, <1>2, <1>4, <1>5 DEF IInv, PeersType, Ids, MaxPeers
<1> QED BY <1>1, <1>2, <1>4, <1>5, <1>6, <1>7

\* setEstablished() ends: the handler of Node is called, and the peer is made while the
\* communicator keeps the connection.
LEMMA CompleteKeeps ==
  ASSUME IInv, Complete
  PROVE  IInv'
<1> USE DEF IInv, marks
<1>1. /\ reader = "pipe" /\ reader' = "idle" /\ state = "SUBMITED"
      /\ UNCHANGED <<starting, connector, retries, conn, attached, jammed, trailed, spoilt, stopping>>
  BY DEF Complete
<1>2. CASE ~attached /\ UNCHANGED <<communicator, context, peerState, status>>
  <2>1. CommunicatorType' /\ Outcomes'
    BY <1>2, CommunicatorStays
  <2>2. NetworkType' /\ ContextType' /\ PeersType' /\ MarksType'
    BY <1>1, <1>2 DEF peerState, NetworkType, ContextType, PeersType, MarksType
  <2>3. ConnectorFollows' /\ Handshake'
    BY <1>1, <1>2 DEF communicator, ConnectorFollows, Handshake
  <2>4. PeerOfContext' /\ SolePeer' /\ OnePing' /\ status' # "noConnection"
    BY <1>1, <1>2 DEF peerState, PeerOfContext, SolePeer, OnePing
  <2> QED BY <2>1, <2>2, <2>3, <2>4
<1>3. CASE /\ attached /\ state' = "ESTABLISHED" /\ succeeded' = succeeded + 1
           /\ holds' = TRUE /\ NewPeer /\ UNCHANGED <<known, gaveUp>>
  <2>1. Alive
    BY <1>1 DEF CommunicatorType, Alive
  <2>2. /\ lastId' = lastId + 1 /\ lastId' \in Ids
        /\ peers' = peers \cup {lastId'} /\ peers' \subseteq Ids
        /\ lastNonce' \in 1..MaxNonce
        /\ nonce' = [nonce EXCEPT ![lastId'] = lastNonce']
        /\ nonce' \in [Ids -> 0..MaxNonce] /\ nonce'[lastId'] # 0
        /\ context' = [context EXCEPT !.peer = lastId', !.handler = "protocol"]
        /\ ContextType' /\ PeersType'
        /\ pings' \in Seq(0..MaxNonce)
        /\ pings' \in {pings, pings \o <<lastNonce'>>}
        /\ status' \in {status, "noContext"}
        /\ UNCHANGED <<ping, asks>>
    BY <1>3, <2>1, NewPeerKeeps
  <2>3. CommunicatorType' /\ Outcomes'
    BY <1>1, <1>3 DEF CommunicatorType, Outcomes, States
  <2>4. NetworkType'
    BY <1>1 DEF NetworkType
  <2>5. MarksType'
    BY <1>1, <2>2 DEF MarksType
  <2>6. ConnectorFollows'
    BY <1>1, <1>3 DEF ConnectorFollows
  <2>7. Handshake'
    BY <1>1, <1>3, <2>2 DEF ContextType, Handshake
  <2>8. PeerOfContext'
    BY <2>2 DEF ContextType, PeersType, PeerOfContext
  <2>9. SolePeer'
    BY <1>1, <2>2 DEF SolePeer
  <2>10. OnePing'
    <3> SUFFICES ASSUME ~trailed
                 PROVE  /\ pings' # <<>> => pings' = <<nonce'[1]>> /\ nonce'[1] # 0 /\ lastId' = 1
                        /\ ping'[1] # "armed" /\ lastId' # 0
      BY <1>1 DEF OnePing
    <3>1. lastId = 0 /\ lastId' = 1 /\ pings = <<>>
      BY <1>1, <2>2 DEF SolePeer, OnePing
    <3>2. nonce'[1] = lastNonce' /\ <<>> \o <<lastNonce'>> = <<lastNonce'>>
      BY <2>2, <3>1 DEF PeersType
    <3>3. ping'[1] # "armed"
      BY <2>2, <3>1 DEF OnePing
    <3> QED BY <2>2, <3>1, <3>2, <3>3
  <2>11. status' # "noConnection"
    BY <2>2
  <2> QED BY <2>2, <2>3, <2>4, <2>5, <2>6, <2>7, <2>8, <2>9, <2>10, <2>11
<1> QED BY <1>1, <1>2, <1>3 DEF Complete, KeepsConnection

\* A message goes to the success handler only in the read of the Verack; any other finds
\* the peer, and the Pong of a sole peer has the nonce that peer waits for.
LEMMA ReceiveMessageKeeps ==
  ASSUME IInv, NEW kind \in {"ping", "pong", "headers"}, ReceiveMessage(kind)
  PROVE  IInv'
<1> DEFINE p == context.peer
<1> USE DEF IInv, communicator, network
<1>1. /\ conn = "open" /\ context.established /\ ~spoilt
      /\ kind = "pong" => reader = "idle" /\ pings # <<>>
      /\ trailed' \in BOOLEAN /\ (trailed' <=> trailed \/ reader = "pipe")
      /\ Handle(kind)
      /\ UNCHANGED <<communicator, network, spoilt, stopping>>
  BY DEF ReceiveMessage, Readable, MarksType
<1>2. CommunicatorType' /\ Outcomes' /\ NetworkType' /\ ConnectorFollows'
  BY <1>1, CommunicatorStays DEF NetworkType, ConnectorFollows
<1>3. CASE context.handler = "success"
  <2>1. Alive /\ NewPeer /\ reader = "pipe" /\ trailed'
    BY <1>1, <1>3 DEF Alive, Handle, Handshake, NetworkType
  <2>2. /\ lastId' = lastId + 1 /\ lastId' \in Ids
        /\ peers' = peers \cup {lastId'} /\ peers' \subseteq Ids
        /\ lastNonce' \in 1..MaxNonce
        /\ nonce' \in [Ids -> 0..MaxNonce]
        /\ context' = [context EXCEPT !.peer = lastId', !.handler = "protocol"]
        /\ ContextType' /\ PeersType'
        /\ pings' \in Seq(0..MaxNonce)
        /\ status' \in {status, "noContext"}
        /\ UNCHANGED <<ping, asks>>
    BY <2>1, NewPeerKeeps
  <2>3. MarksType'
    BY <1>1, <2>2 DEF MarksType
  <2>4. Handshake'
    BY <1>1, <2>2 DEF ContextType, Handshake
  <2>5. PeerOfContext'
    BY <2>2 DEF ContextType, PeersType, PeerOfContext
  <2> QED BY <1>2, <2>1, <2>2, <2>3, <2>4, <2>5 DEF SolePeer, OnePing
<1>4. CASE context.handler # "success"
  <2>1. context.handler = "protocol" /\ lastId > 0 /\ p = lastId /\ lastId \in Nat
    BY <1>1, <1>4 DEF Handshake, PeerOfContext, ContextType, PeersType
  <2>2. ~trailed' => lastId = 1 /\ peers = {1} /\ ~trailed
    BY <1>1, <2>1 DEF SolePeer
  <2>3. CASE /\ status' = IF stopping THEN "noProtocol" ELSE "noPeer"
             /\ stopping \/ p \notin peers
             /\ UNCHANGED <<peerState, context>>
    <3>1. ContextType' /\ PeersType' /\ MarksType'
      <4>1. ContextType' /\ PeersType'
        BY <2>3 DEF peerState, ContextType, PeersType
      <4>2. MarksType'
        BY <1>1, <2>3 DEF MarksType
      <4> QED BY <4>1, <4>2
    <3>2. Handshake' /\ PeerOfContext'
      BY <1>1, <2>3 DEF peerState, Handshake, PeerOfContext
    <3>3. SolePeer' /\ OnePing' /\ status' # "noConnection"
      BY <1>1, <2>1, <2>2, <2>3 DEF peerState, SolePeer, OnePing
    <3> QED BY <1>2, <3>1, <3>2, <3>3
  <2>4. CASE ~stopping /\ p \in peers /\ UNCHANGED <<lastId, lastNonce, context>>
    <3>1. Alive /\ p \in Ids /\ Handshake'
      BY <1>1, <2>1, <2>4, PeersAreAlive DEF PeersType, Handshake
    <3>2. CASE kind = "ping" /\ Transmit(<<>>) /\ UNCHANGED <<peers, nonce, ping, asks>>
      <4>1. pings' = pings /\ status' \in {status, "noContext"}
        <5>1. <<>> \in Seq(0..MaxNonce) /\ pings \o <<>> = pings
          BY DEF PeersType
        <5> QED BY <3>1, <3>2, <5>1, TransmitKeeps
      <4>2. ContextType' /\ PeersType' /\ MarksType'
        BY <1>1, <2>4, <3>2, <4>1 DEF ContextType, PeersType, MarksType
      <4>3. PeerOfContext' /\ SolePeer' /\ OnePing' /\ status' # "noConnection"
        BY <1>1, <2>2, <2>4, <3>2, <4>1 DEF PeerOfContext, SolePeer, OnePing
      <4> QED BY <1>2, <3>1, <4>2, <4>3
    <3>3. CASE /\ kind = "pong" /\ Pong(p, Head(pings)) /\ pings' = Tail(pings)
               /\ UNCHANGED <<asks, status>>
      <4>1. pings \in Seq(0..MaxNonce) /\ pings # <<>> /\ Tail(pings) \in Seq(0..MaxNonce)
        BY <1>1, <3>3 DEF PeersType
      <4>2. /\ peers' \subseteq peers
            /\ nonce' \in [Ids -> 0..MaxNonce]
            /\ ping' \in [Ids -> {"none", "armed", "spent"}]
        <5>1. CASE Close(p) /\ UNCHANGED nonce
          BY <5>1 DEF Close, PeersType
        <5>2. CASE nonce' = [nonce EXCEPT ![p] = 0] /\ Alarm(p) /\ UNCHANGED peers
          BY <3>1, <5>2, BoundsAssumption DEF Alarm, PeersType
        <5>3. IF Head(pings) # nonce[p]
                THEN Close(p) /\ UNCHANGED nonce
                ELSE nonce' = [nonce EXCEPT ![p] = 0] /\ Alarm(p) /\ UNCHANGED peers
          BY <3>3 DEF Pong
        <5> QED BY <5>1, <5>2, <5>3
      <4>3. ContextType' /\ PeersType' /\ MarksType'
        BY <1>1, <2>4, <3>3, <4>1, <4>2 DEF ContextType, PeersType, MarksType
      <4>4. PeerOfContext'
        BY <2>4, <4>2 DEF PeerOfContext
      <4>5. ASSUME ~trailed'
            PROVE  peers' = peers /\ pings' = <<>> /\ nonce'[1] = 0
        <5>1. pings = <<nonce[1]>> /\ p = 1
          BY <2>1, <2>2, <4>1, <4>5 DEF OnePing
        <5>2. Head(pings) = nonce[p] /\ Tail(pings) = <<>>
          BY <5>1
        <5> QED BY <3>3, <5>1, <5>2 DEF Pong, PeersType, Ids, MaxPeers
      <4>6. SolePeer' /\ OnePing' /\ status' # "noConnection"
        BY <1>1, <2>2, <2>4, <3>3, <4>5 DEF SolePeer, OnePing
      <4> QED BY <1>2, <3>1, <4>3, <4>4, <4>6
    <3>4. CASE /\ kind = "headers" /\ asks' = asks \cup {p}
               /\ UNCHANGED <<peers, nonce, ping, pings, status>>
      <4>1. ContextType' /\ PeersType' /\ MarksType'
        BY <1>1, <2>4, <3>1, <3>4 DEF ContextType, PeersType, MarksType
      <4>2. PeerOfContext' /\ SolePeer' /\ OnePing' /\ status' # "noConnection"
        BY <1>1, <2>2, <2>4, <3>4 DEF PeerOfContext, SolePeer, OnePing
      <4> QED BY <1>2, <3>1, <4>1, <4>2
    <3> QED BY <1>1, <1>4, <2>4, <3>2, <3>3, <3>4 DEF Handle
  <2> QED BY <1>1, <1>4, <2>3, <2>4 DEF Handle
<1> QED BY <1>3, <1>4

\* The timer of a sole peer rings when its last Ping is answered: it never closes it.
LEMMA PingAlarmKeeps ==
  ASSUME IInv, NEW p \in Ids, PingAlarm(p)
  PROVE  IInv'
<1> USE DEF IInv, communicator, network, marks
<1>1. /\ p \in peers /\ ping[p] = "armed"
      /\ UNCHANGED <<communicator, network, context, lastId, asks, marks, stopping>>
  BY DEF PingAlarm
<1>2. CommunicatorType' /\ Outcomes' /\ NetworkType' /\ ConnectorFollows' /\ Handshake'
  BY <1>1, CommunicatorStays DEF NetworkType, ConnectorFollows, Handshake
<1>3. lastId > 0 /\ lastId \in Nat /\ Alive
  BY <1>1, PeersAreAlive DEF PeersType, PeerOfContext
<1>4. ~trailed => lastId = 1 /\ peers = {1} /\ p = 1 /\ nonce[p] = 0 /\ pings = <<>>
  BY <1>1, <1>3 DEF SolePeer, OnePing
<1>5. CASE nonce[p] # 0 /\ Close(p) /\ UNCHANGED <<nonce, lastNonce, pings, status>>
  <2>1. ContextType' /\ PeersType' /\ MarksType'
    BY <1>1, <1>5 DEF Close, ContextType, PeersType, MarksType
  <2>2. PeerOfContext'
    BY <1>1, <1>5 DEF Close, PeerOfContext
  <2>3. SolePeer' /\ OnePing' /\ status' # "noConnection"
    BY <1>1, <1>4, <1>5 DEF SolePeer, OnePing
  <2> QED BY <1>2, <2>1, <2>2, <2>3
<1>6. CASE /\ lastNonce < MaxNonce /\ lastNonce' = lastNonce + 1
           /\ nonce' = [nonce EXCEPT ![p] = lastNonce']
           /\ ping' = [ping EXCEPT ![p] = "spent"]
           /\ Transmit(Sent(p)) /\ UNCHANGED peers
  <2>1. lastNonce' \in 1..MaxNonce /\ nonce'[p] = lastNonce'
    BY <1>6, BoundsAssumption DEF PeersType
  <2>2. Sent(p) = <<lastNonce'>> /\ <<lastNonce'>> \in Seq(0..MaxNonce)
    BY <2>1 DEF Sent
  <2>3. /\ pings' \in Seq(0..MaxNonce)
        /\ pings' \in {pings, pings \o <<lastNonce'>>}
        /\ status' \in {status, "noContext"}
    BY <1>3, <1>6, <2>2, TransmitKeeps
  <2>4. ContextType' /\ PeersType' /\ MarksType'
    BY <1>1, <1>6, <2>1, <2>3 DEF ContextType, PeersType, MarksType
  <2>5. PeerOfContext' /\ SolePeer' /\ status' # "noConnection"
    BY <1>1, <1>6, <2>3 DEF PeerOfContext, SolePeer
  <2>6. OnePing'
    <3> SUFFICES ASSUME ~trailed
                 PROVE  /\ pings' # <<>> => pings' = <<nonce'[1]>> /\ nonce'[1] # 0 /\ lastId' = 1
                        /\ ping'[1] # "armed" /\ lastId' # 0
      BY <1>1 DEF OnePing
    <3>1. <<>> \o <<lastNonce'>> = <<lastNonce'>>
      OBVIOUS
    <3> QED BY <1>1, <1>4, <1>6, <2>1, <2>3, <3>1 DEF PeersType
  <2> QED BY <1>2, <2>4, <2>5, <2>6
<1> QED BY <1>5, <1>6 DEF PingAlarm

\* A delayed request of a peer that is still there has its connection.
LEMMA AskHeadersKeeps ==
  ASSUME IInv, NEW p \in Ids, AskHeaders(p)
  PROVE  IInv'
<1> USE DEF IInv, communicator, network, marks
<1>1. /\ asks' = asks \ {p}
      /\ UNCHANGED <<communicator, network, context, peers, lastId, nonce, lastNonce, ping,
                     marks, stopping>>
      /\ IF p \in peers THEN Transmit(<<>>) ELSE UNCHANGED <<pings, status>>
  BY DEF AskHeaders
<1>2. CommunicatorType' /\ Outcomes' /\ NetworkType' /\ ConnectorFollows' /\ Handshake'
  BY <1>1, CommunicatorStays DEF NetworkType, ConnectorFollows, Handshake
<1>3. pings' = pings /\ status' \in {status, "noContext"}
  <2>1. <<>> \in Seq(0..MaxNonce) /\ pings \o <<>> = pings
    BY DEF PeersType
  <2>2. p \in peers => Alive
    BY PeersAreAlive DEF PeersType, PeerOfContext
  <2> QED BY <1>1, <2>1, <2>2, TransmitKeeps
<1>4. ContextType' /\ PeersType' /\ MarksType'
  BY <1>1, <1>3 DEF ContextType, PeersType, MarksType
<1>5. PeerOfContext' /\ SolePeer' /\ OnePing' /\ status' # "noConnection"
  BY <1>1, <1>3 DEF PeerOfContext, SolePeer, OnePing
<1> QED BY <1>2, <1>4, <1>5

-----------------------------------------------------------------------------
\* The inductive invariant of a session holds in every reachable state.
THEOREM Invariance == Spec => []IInv
<1>1. Init => IInv
  <2> SUFFICES ASSUME Init PROVE IInv
    OBVIOUS
  <2>1. CommunicatorType /\ ContextType /\ MarksType
    <3>1. CommunicatorType /\ MarksType
      BY DEF Init, CommunicatorType, States, MarksType
    <3>2. ContextType
      BY DEF Init, ContextType, MaxPeers
    <3> QED BY <3>1, <3>2
  <2>2. NetworkType /\ PeersType
    <3>1. starting \in BOOLEAN /\ attached \in BOOLEAN /\ jammed \in BOOLEAN
      BY DEF Init
    <3>2. /\ connector \in {"none", "waiting", "accepted", "thrown", "gone"}
          /\ retries \in 0..MaxRetries /\ conn \in {"none", "open", "closed"}
          /\ reader \in {"idle", "pipe"}
      BY BoundsAssumption DEF Init
    <3>3. PeersType
      BY BoundsAssumption DEF Init, PeersType, MaxPeers
    <3> QED BY <3>1, <3>2, <3>3 DEF NetworkType
  <2>3. ConnectorFollows /\ Outcomes /\ Handshake
    BY DEF Init, ConnectorFollows, Outcomes, Handshake
  <2>4. PeerOfContext /\ SolePeer /\ OnePing /\ status # "noConnection"
    BY DEF Init, PeerOfContext, SolePeer, OnePing, Ids, MaxPeers
  <2> QED BY <2>1, <2>2, <2>3, <2>4 DEF IInv
<1>2. IInv /\ [Next]_vars => IInv'
  <2> SUFFICES ASSUME IInv, [Next]_vars PROVE IInv'
    OBVIOUS
  <2>1. CASE UNCHANGED vars
    BY <2>1 DEF vars, communicator, network, peerState, marks, IInv, CommunicatorType,
         NetworkType, ContextType, PeersType, MarksType, ConnectorFollows, Outcomes,
         Handshake, PeerOfContext, SolePeer, OnePing
  <2>2. CASE Start \/ Started \/ ConnectorEvent \/ OnConnected \/ ConnectorCatches
    BY <2>2, StartKeeps, StartedKeeps, ConnectorEventKeeps, OnConnectedKeeps,
       ConnectorCatchesKeeps
  <2>3. CASE ReceiveVersion \/ ReceiveVerack \/ ReceiveUnfit \/ ReceiveBad \/ Complete
    BY <2>3, ReceiveVersionKeeps, ReceiveVerackKeeps, ReceiveUnfitKeeps, ReceiveBadKeeps,
       CompleteKeeps
  <2>4. CASE RemoteLeaves \/ TimeIsOut \/ Shutdown
    BY <2>4, LeaveKeeps, ShutdownKeeps DEF RemoteLeaves, TimeIsOut
  <2> QED BY <2>1, <2>2, <2>3, <2>4, ReceiveMessageKeeps, PingAlarmKeeps, AskHeadersKeeps
          DEF Next
<1> QED BY <1>1, <1>2, PTL DEF Spec

\* The session and its peers keep their type; the communicator has its connection from
\* submit() until it fails.
THEOREM TypeCorrect == Spec => []TypeOK
<1>1. IInv => TypeOK
  BY PartsOfType DEF IInv
<1> QED BY <1>1, Invariance, PTL

\* A communicator reports one end at most, whichever of its steps fail and however late.
THEOREM OneOutcomeAlways == Spec => []OneOutcome
<1>1. IInv => OneOutcome
  BY DEF IInv, CommunicatorType, Outcomes, OneOutcome
<1> QED BY <1>1, Invariance, PTL

\* A session has one peer unless a message came in the same read as the Verack.
THEOREM OnePeerAlways == Spec => []OnePeer
<1>1. IInv => OnePeer
  BY DEF IInv, SolePeer, OnePeer
<1> QED BY <1>1, Invariance, PTL

\* A peer never outlives its connection: Pings and delayed requests find it.  A sole peer
\* is never closed, so every message finds it.
THEOREM PeersAlwaysStay == Spec => []PeersStay
<1>1. IInv => PeersStay
  <2> SUFFICES ASSUME IInv PROVE PeersStay
    OBVIOUS
  <2>1. ASSUME peers # {} PROVE lastId > 0
    <3>1. PICK p \in peers : p \in 1..lastId
      BY <2>1 DEF IInv, PeerOfContext
    <3> QED BY <3>1 DEF IInv, PeersType
  <2> QED BY <2>1, PeersAreAlive DEF IInv, SolePeer, PeersStay
<1> QED BY <1>1, Invariance, PTL

=============================================================================
