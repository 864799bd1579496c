---------------------------- MODULE MCTransports ----------------------------
(* What runs over a connection, checked by one run: the session of the node   *)
(* (of which Session.tla has the variables), the bytes of its messages, a     *)
(* server for HTTP and one for websockets, and a request to another server.   *)
(* "part" says which of them is looked at; the others stand still.  The       *)
(* parts other than the session share their variables.                        *)
EXTENDS Session

VARIABLES
  part,
  said,                   \* what the other side says: requests, frames, messages, a response
  pipelined, sent, wire, fin, link,
  writing, mixed,
  outcome, stage, handlers, answered, early, wakes, answer, raced, ending

pipeVars == <<writing, mixed>>
requestVars == <<outcome, stage, handlers, answered, early, wakes, answer, raced, ending>>
linkVars == <<said, pipelined, sent, wire, fin, link, pipeVars, requestVars>>
transportVars == <<part, vars, linkVars>>

-----------------------------------------------------------------------------
\* Two requests of every kind, over selectors that are prefixes of each other or only
\* share their first letters.
Q(k, s, p) == [kind |-> k, sizes |-> s, path |-> p, throws |-> FALSE]
SomeRequests ==
  {Q("GET", <<>>, <<"/", "a", "b", "c">>), Q("LENGTH", <<3>>, <<"/", "a", "a", "b">>),
   Q("CHUNKED", <<2, 1>>, <<"/", "a">>), Q("CLOSE", <<2>>, <<"/", "a">>),
   Q("BAD", <<>>, <<"/", "a">>), Q("UNREADABLE", <<>>, <<"/", "a">>),
   Q("LENGTH", <<1>>, <<"/", "c">>),
   [Q("GET", <<>>, <<"/", "a">>) EXCEPT !.throws = TRUE], Q("LENGTH", <<0>>, <<"/", "b">>)}
Http == INSTANCE HttpServer WITH
  requests <- said, conn <- link,
  Dialogs <- {<<q, r>> : q \in SomeRequests, r \in SomeRequests},
  Handlers <- {<<"/", "a">>, <<"/", "a", "b">>, <<"/", "a", "a", "c">>, <<"/", "a", "a", "a", "a">>},
  Letters <- <<"/", "a", "b", "c">>

\* A request of each kind, too long ones too, and three frames of every kind.
Upgrade(k, n) == [kind |-> k, lines |-> n]
F(o, n, s) == [op |-> o, more |-> n, size |-> s, throws |-> FALSE]
SomeFrames ==
  {F("text", 0, 2), F("binary", 2, 3), F("ping", 1, 1), F("close", 0, 1), F("pong", 0, 0),
   [F("text", 1, 2) EXCEPT !.throws = TRUE]}
SomeUpgrades ==
  {Upgrade(k, 2) : k \in {"policy", "method", "refused", "nobody"}} \cup
  {Upgrade("unreadable", 1), Upgrade("good", 4), Upgrade("good", 6)}
Web == INSTANCE WebSocket WITH
  dialog <- said, conn <- link, MaxLines <- 3, MinBytes <- 2,
  Dialogs <- [request : {Upgrade("good", 2)}, frames : [1..3 -> SomeFrames]] \cup
             [request : SomeUpgrades, frames : {<<F("text", 0, 2)>>}]

\* Messages of every size from none, one that is refused for each reason, and one whose
\* handler throws.
Msg(c, n) == [command |-> c, size |-> n, magic |-> TRUE, parses |-> TRUE, throws |-> FALSE]
SomeMessages ==
  {Msg("version", 2), Msg("version", 4), Msg("getaddr", 0), Msg("unknown", 0),
   [Msg("version", 3) EXCEPT !.parses = FALSE],
   [Msg("addr", 1) EXCEPT !.parses = FALSE], [Msg("verack", 1) EXCEPT !.throws = TRUE],
   [Msg("ping", 1) EXCEPT !.magic = FALSE]}
Pipe == INSTANCE MsgPipe WITH
  messages <- said, conn <- link, Messages <- SomeMessages, MaxSent <- 3, Writers <- {1, 2},
  HeaderSize <- 2, VersionSizes <- {2, 3}

Request == INSTANCE Request WITH
  request <- said, conn <- link, state <- outcome, connector <- stage, stopping <- ending,
  Requests <-
    [kind : {"http"}, tls : BOOLEAN, code : {200, 500}, form : {"LENGTH", "CHUNKED", "CLOSE"},
     sizes : {<<>>, <<2>>, <<1, 2>>}]
    \cup [kind : {"ws"}, tls : BOOLEAN, code : {101, 400}, form : {"LENGTH"}, sizes : {<<>>}]

-----------------------------------------------------------------------------
\* A session that has failed at once, so that no fair action of it is enabled.
NoSession ==
  /\ state = "ERROR" /\ known = FALSE /\ holds = FALSE /\ succeeded = 0 /\ gaveUp = 1
  /\ starting = FALSE /\ connector = "none" /\ retries = 0 /\ conn = "none" /\ attached = FALSE
  /\ context = [local |-> FALSE, remote |-> FALSE, established |-> FALSE,
                handler |-> "none", peer |-> 0]
  /\ reader = "idle" /\ jammed = FALSE
  /\ peers = {} /\ lastId = 0 /\ nonce = [p \in Ids |-> 0] /\ lastNonce = 0
  /\ ping = [p \in Ids |-> "none"] /\ asks = {} /\ pings = <<>>
  /\ trailed = FALSE /\ spoilt = FALSE /\ stopping = FALSE /\ status = "uncaught"
NoDialog == pipelined = FALSE /\ sent = 0
NoFin == fin = FALSE
NoPipe == writing = 0 /\ mixed = FALSE
NoRequest ==
  /\ outcome = "none" /\ stage = "none" /\ handlers = FALSE /\ answered = FALSE
  /\ early = FALSE /\ wakes = 0 /\ answer = <<>> /\ raced = FALSE /\ ending = FALSE

TransportsInit ==
  \/ /\ part = "session" /\ Init
     /\ NoDialog /\ NoFin /\ NoPipe /\ NoRequest /\ said = 0 /\ wire = 0 /\ link = 0
  \/ part = "http" /\ Http!Init /\ NoSession /\ NoPipe /\ NoRequest
  \/ part = "web" /\ Web!Init /\ NoSession /\ NoFin /\ NoPipe /\ NoRequest
  \/ part = "pipe" /\ Pipe!Init /\ NoSession /\ NoDialog /\ NoFin /\ NoRequest
  \/ part = "request" /\ Request!Init /\ NoSession /\ NoDialog /\ NoPipe

TransportsNext ==
  /\ UNCHANGED part
  /\ \/ part = "session" /\ Next /\ UNCHANGED linkVars
     \/ part = "http" /\ Http!Next /\ UNCHANGED <<vars, pipeVars, requestVars>>
     \/ part = "web" /\ Web!Next /\ UNCHANGED <<vars, fin, pipeVars, requestVars>>
     \/ part = "pipe" /\ Pipe!Next /\ UNCHANGED <<vars, pipelined, sent, fin, requestVars>>
     \/ part = "request" /\ Request!Next /\ UNCHANGED <<vars, pipelined, sent, pipeVars>>

\* The fairness of Session and that of Request, whose actions other parts do not know.
TransportsFairness ==
  /\ Fairness
  /\ WF_(Request!vars)(part = "request" /\ (Request!Accept \/ Request!FailConnect \/ Request!Interrupt))
  /\ WF_(Request!vars)(part = "request" /\ Request!OnConnected)
  /\ WF_(Request!vars)(part = "request" /\ Request!End)

TransportsSpec == TransportsInit /\ [][TransportsNext]_transportVars /\ TransportsFairness

-----------------------------------------------------------------------------
\* What the other side sends is served as it was sent: HttpServer.tla, WebSocket.tla and
\* MsgPipe.tla say of requests, frames and messages what that means.
ServedAsSent ==
  /\ part = "http" => Http!ServedAsSent
  /\ part = "web" => Web!FramesAsSent
  /\ part = "pipe" => Pipe!HandedOnAsSent
AnswerIsWhole == part = "request" => Request!AnswerIsWhole
RequestSettles == (part = "request" /\ Request!Unsettled) ~> Request!Settled
\* MsgPipe.cpp checks the checksum of a message; MsgPipe.tla says what that must mean.
GarbledIsRefused == part = "pipe" => Pipe!GarbledIsRefused
=============================================================================
