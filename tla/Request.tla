------------------------------ MODULE Request ------------------------------
(***************************************************************************)
(* A request of this program to another server: HttpRequestExecutor with   *)
(* HttpClient, and WsCommunicator with WsClient, over TcpConnection or     *)
(* SslConnection.  The task that makes the request sleeps until done()     *)
(* wakes it.                                                               *)
(*                                                                         *)
(* Both classes hold their mutex from onConnected() to the end of          *)
(* submit(), so CONNECTED and SUBMIT are not seen by others.               *)
(***************************************************************************)
EXTENDS Naturals, Sequences, SequencesExt

CONSTANT Requests
\* [kind, tls, code, form, sizes]: "http" or "ws", whether it goes over TLS, and the
\* response: its status, "LENGTH", "CHUNKED" or "CLOSE" and the sizes of its parts.  A
\* response to "ws" has code 101 only with the headers and the key that are expected.

VARIABLES
  request, state,
  connector,   \* "connecting"; "accepted" before onConnect(); "gone"
  conn,        \* the connection with its context
  handlers,    \* its handlers are set
  wire, fin,   \* what the server has sent and is not read yet; whether it has closed
  answered, early,  \* the server has answered; it closed before the end of its answer
  wakes,       \* calls of done()
  answer,      \* HttpRequestExecutor::_answer
  raced,       \* the connection ended before the connector had set its handlers
  stopping     \* Daemon::shutingdown()

task == <<state, wakes, answer>>
server == <<wire, fin, answered, early>>
vars == <<request, task, connector, conn, handlers, server, raced, stopping>>

Items(t, n) == [i \in 1..n |-> t]
From(s, n) == SubSeq(s, n, Len(s))
Whole == FlattenSeq([i \in DOMAIN request.sizes |-> Items("byte", request.sizes[i])])
Total == Len(Whole)
Chunk(n) == <<[size |-> n]>> \o Items("byte", n) \o <<"crlf">>
Text ==
  <<"head">> \o (IF request.form = "CHUNKED"
                   THEN FlattenSeq([i \in DOMAIN request.sizes |-> Chunk(request.sizes[i])])
                        \o Chunk(0)
                   ELSE Whole)

Closed == [open |-> FALSE, buf |-> <<>>, response |-> FALSE, body |-> <<>>, noRead |-> FALSE,
           established |-> FALSE]

Init ==
  /\ request \in Requests /\ state = "INIT" /\ connector = "none" /\ conn = Closed
  /\ handlers = FALSE /\ wire = <<>> /\ fin = FALSE /\ answered = FALSE /\ early = FALSE
  /\ wakes = 0 /\ answer = <<>> /\ raced = FALSE /\ stopping = FALSE

-----------------------------------------------------------------------------
\* done() throws: whoever called it does nothing more.
Settle(s) == state' = s /\ wakes' = wakes + 1

Final == {"ERROR", "COMPLETE", "ESTABLISHED"}
BadStep == IF state \in Final THEN UNCHANGED task ELSE Settle("ERROR") /\ UNCHANGED answer

\* Mutant: only what was asked for meanwhile is reported.
FailProcessing_Silent == UNCHANGED task

FailProcessing ==
  IF handlers /\ state = "SUBMITED" THEN Settle("ERROR") /\ UNCHANGED answer
  ELSE IF handlers THEN BadStep
  ELSE UNCHANGED task

\* Mutant: an executor that has its answer takes it again at the end of the connection.
HttpComplete_Again(c) ==
  IF state \in {"COMPLETE", "SUBMITED"} /\ c.response /\ request.code = 200
    THEN Settle("COMPLETE") /\ answer' = c.body
    ELSE BadStep

\* HttpRequestExecutor::onComplete().
HttpComplete(c) ==
  IF state = "COMPLETE" THEN UNCHANGED task
  ELSE IF state # "SUBMITED" THEN BadStep
  ELSE IF ~c.response \/ request.code # 200
    THEN Settle("ERROR") /\ answer' = IF c.response THEN c.body ELSE answer
  ELSE Settle("COMPLETE") /\ answer' = c.body

WsComplete == IF state = "SUBMITED" THEN Settle("ESTABLISHED") /\ UNCHANGED answer ELSE UNCHANGED task

-----------------------------------------------------------------------------
\* operator(): the name may be unknown or the connection refused at once.
Start ==
  /\ state = "INIT"
  /\ \/ state' = "CONNECT" /\ connector' = "connecting" /\ UNCHANGED <<wakes, answer>>
     \/ Settle("ERROR") /\ UNCHANGED <<connector, answer>>
  /\ UNCHANGED <<request, conn, handlers, server, raced, stopping>>

\* TcpConnector::processing(): a connection is registered before its handlers are set.
Accept ==
  /\ connector = "connecting" /\ ~stopping
  /\ connector' = "accepted" /\ conn' = [Closed EXCEPT !.open = TRUE]
  /\ UNCHANGED <<request, task, handlers, server, raced, stopping>>

FailConnect ==
  /\ connector = "connecting" /\ ~stopping
  /\ connector' = "gone"
  /\ IF state = "CONNECT" THEN Settle("ERROR") /\ UNCHANGED answer ELSE BadStep
  /\ UNCHANGED <<request, conn, handlers, server, raced, stopping>>

\* While the program ends a connector is only removed.
Interrupt ==
  /\ connector = "connecting" /\ stopping
  /\ connector' = "gone"
  /\ UNCHANGED <<request, task, conn, handlers, server, raced, stopping>>

\* onConnected() and submit().
OnConnected ==
  /\ connector = "accepted"
  /\ connector' = "gone"
  /\ IF state = "CONNECT"
       THEN state' = "SUBMITED" /\ handlers' = TRUE /\ UNCHANGED <<wakes, answer>>
       ELSE BadStep /\ UNCHANGED handlers
  /\ UNCHANGED <<request, conn, server, raced, stopping>>

-----------------------------------------------------------------------------
\* The server answers, with all or a part; it closes when it likes.
Respond ==
  /\ state = "SUBMITED" /\ conn.open /\ ~answered /\ ~fin
  /\ \E n \in 0..Len(Text) : wire' = SubSeq(Text, 1, n) /\ early' = (n < Len(Text))
  /\ answered' = TRUE
  /\ UNCHANGED <<request, task, connector, conn, handlers, fin, raced, stopping>>

ServerCloses ==
  /\ conn.open /\ ~fin
  /\ fin' = TRUE /\ early' = (early \/ ~answered)
  /\ UNCHANGED <<request, task, connector, conn, handlers, wire, answered, raced, stopping>>

-----------------------------------------------------------------------------
\* HttpClient::processing(); "complete" when it calls onComplete().
Wait(c) == [c |-> c, complete |-> FALSE]
Ready(c) == [c |-> c, complete |-> TRUE]

RECURSIVE Chunks(_)
Chunks(c) ==
  LET n == c.buf[1].size
      d == [c EXCEPT !.body = @ \o SubSeq(c.buf, 2, n + 1), !.buf = From(@, n + 3)]
  IN  IF c.buf = <<>> \/ Len(c.buf) < n + 2 THEN Wait(c)
      ELSE IF n = 0 THEN Ready(d)
      ELSE IF c.noRead THEN Wait(d)
      ELSE Chunks(d)

HttpBody(c) ==
  LET len == IF Total < Len(c.buf) THEN Total ELSE Len(c.buf)
      d == IF Len(c.body) < Total
             THEN [c EXCEPT !.body = @ \o SubSeq(c.buf, 1, len), !.buf = From(@, len + 1)]
           ELSE c
      all == [c EXCEPT !.body = @ \o c.buf, !.buf = <<>>]
  IN  CASE request.form = "LENGTH" -> [c |-> d, complete |-> Len(d.body) >= Total]
        [] request.form = "CHUNKED" -> Chunks(c)
        [] request.form = "CLOSE" -> [c |-> all, complete |-> c.noRead]

TakeHead(c) == [c EXCEPT !.response = TRUE, !.buf = Tail(@)]
HttpClient(c) ==
  IF c.response THEN HttpBody(c) ELSE IF c.buf = <<>> THEN Wait(c) ELSE HttpBody(TakeHead(c))

\* WsClient::processing(); "complete" when the session is established.
WsClient(c) ==
  LET d == IF c.response \/ c.buf = <<>> THEN c ELSE TakeHead(c)
  IN  IF d.response /\ request.code = 101 /\ ~d.established
        THEN Ready([d EXCEPT !.established = TRUE]) ELSE Wait(d)

Client(c) == IF request.kind = "http" THEN HttpClient(c) ELSE WsClient(c)
Complete(c) == IF request.kind = "http" THEN HttpComplete(c) ELSE WsComplete

\* The next n bytes, and whether their end is seen with them.  TcpConnection calls the
\* transport only when there is something in its buffer; SslConnection calls onComplete()
\* at the end, which WsCommunicator has no handler for.
Read(n) ==
  /\ conn.open /\ ~conn.noRead
  /\ \E last \in BOOLEAN :
       LET c == [conn EXCEPT !.buf = @ \o SubSeq(wire, 1, n), !.noRead = last]
           r == IF c.buf = <<>> THEN Wait(c) ELSE Client(c)
           atEnd == request.tls /\ last /\ request.kind = "http"
       IN  /\ last => fin /\ n = Len(wire)
           /\ n = 0 => last
           /\ conn' = r.c
           /\ IF handlers /\ (r.complete \/ atEnd) THEN Complete(r.c) ELSE UNCHANGED task
           /\ raced' = (raced \/ ~handlers)
  /\ wire' = From(wire, n + 1)
  /\ UNCHANGED <<request, connector, handlers, fin, answered, early, stopping>>

\* The time is out, or epoll reports an error: SslConnection calls onError(), TcpConnection
\* only goes.
End ==
  /\ conn.open
  /\ conn' = [conn EXCEPT !.open = FALSE]
  /\ IF request.tls THEN FailProcessing ELSE UNCHANGED task
  /\ raced' = (raced \/ ~handlers)
  /\ UNCHANGED <<request, connector, handlers, server, stopping>>

Shutdown ==
  /\ ~stopping
  /\ stopping' = TRUE
  /\ UNCHANGED <<request, task, connector, conn, handlers, server, raced>>

Next ==
  \/ Start \/ Accept \/ FailConnect \/ Interrupt \/ OnConnected \/ Respond \/ ServerCloses
  \/ (\E n \in 0..Len(wire) : Read(n)) \/ End \/ Shutdown

Spec == Init /\ [][Next]_vars

\* Connectors and connections have a time to live, after which the dispatcher hands them to
\* a worker (module Connections); the worker that accepted a connection goes on.
Fairness ==
  /\ WF_vars(Accept \/ FailConnect \/ Interrupt) /\ WF_vars(OnConnected)
  /\ WF_vars(End)

-----------------------------------------------------------------------------
\* A chunk that is not the last and is read after the end of the connection is known ends
\* the response, even if the others have been read too.
Cut == early \/ (request.form = "CHUNKED" /\ conn.noRead)

\* The task is woken at most once, and as soon as the request is settled; the answer of a
\* request that completes is the body of the response, if that was not cut.
AnswerIsWhole ==
  /\ wakes = IF state \in Final THEN 1 ELSE 0
  /\ state = "COMPLETE" /\ ~Cut => answer = Whole /\ request.code = 200
  /\ state = "ESTABLISHED" => request.code = 101

\* Over TLS every request is settled in the end, unless the program is shut down or the
\* connection ends before its handlers are set.
Unsettled == state = "CONNECT" /\ request.tls
Settled == state \in Final \/ stopping \/ raced
RequestSettles == Unsettled ~> Settled
=============================================================================
