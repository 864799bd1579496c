------------------------------ MODULE MsgPipe ------------------------------
(***************************************************************************)
(* The messages of a connection as bytes: MsgContext::transmit() of the    *)
(* sending side, called by several threads, and on the receiving side      *)
(* MsgServer::processing() until the session is established and            *)
(* MsgPipe::processing() from then on.  Bytes come in pieces.              *)
(*                                                                         *)
(* A byte is [m, i], the i-th of message m.  A header is written in one    *)
(* step here and a payload in another, in truth one step for each field.   *)
(***************************************************************************)
EXTENDS Naturals, Sequences, SequencesExt

CONSTANTS
  Messages,    \* what may be sent: records [command, size, magic, parses, throws]
  MaxSent,     \* bound: messages sent
  Writers,     \* threads that call transmit()
  HeaderSize,  \* bytes of a header: 24
  VersionSizes \* MIN_MESSAGE_SIZE..MAX_MESSAGE_SIZE of Version: 94..351

\* "parses" says whether Unserialize() of the message ends without an exception, "throws"
\* whether the handler, or what it applies, ends with one.

VARIABLES
  messages,   \* the messages sent, in the order of their headers
  writing,    \* for each writer the message whose payload comes next, or 0
  mixed,      \* two calls of transmit() have overlapped
  wire,       \* bytes under way
  conn        \* the receiving TcpConnection with its MsgContext

vars == <<messages, writing, mixed, wire, conn>>

Header(m) == [i \in 1..HeaderSize |-> [m |-> m, i |-> i]]
Payload(m) == [i \in 1..messages[m].size |-> [m |-> m, i |-> HeaderSize + i]]
From(s, n) == SubSeq(s, n, Len(s))

Init ==
  /\ messages = <<>> /\ writing = [w \in Writers |-> 0] /\ mixed = FALSE /\ wire = <<>>
  /\ \E server \in BOOLEAN :
       conn = [server |-> server, established |-> ~server, buf |-> <<>>, handed |-> <<>>,
               ttl |-> "none", closed |-> FALSE, context |-> TRUE, gone |-> FALSE]

-----------------------------------------------------------------------------
\* MsgContext::transmit(): the header, and then the payload.
TransmitHeader(w, message) ==
  /\ writing[w] = 0 /\ Len(messages) < MaxSent
  /\ messages' = Append(messages, message)
  /\ writing' = [writing EXCEPT ![w] = Len(messages')]
  /\ mixed' = (mixed \/ \E v \in Writers : writing[v] # 0)
  /\ wire' = wire \o Header(Len(messages'))
  /\ UNCHANGED conn

TransmitPayload(w) ==
  /\ writing[w] # 0
  /\ wire' = wire \o Payload(writing[w])
  /\ writing' = [writing EXCEPT ![w] = 0]
  /\ UNCHANGED <<messages, mixed, conn>>

-----------------------------------------------------------------------------
\* The header that the buffer begins with.  What is no header has no magic number; that
\* other bytes look like one is left out.
StartsWithHeader(c) == c.buf[1].i = 1
At(c) == messages[c.buf[1].m]
GoodMagic(c) == StartsWithHeader(c) /\ At(c).magic
Complete(c) == Len(c.buf) >= HeaderSize + At(c).size
Body(c) == SubSeq(c.buf, HeaderSize + 1, HeaderSize + At(c).size)
Known(c) == At(c).command # "unknown"

\* connection->close() takes what has been read; the context goes, and the connection
\* after 50 ms.
Refuse(c) == [c EXCEPT !.closed = TRUE, !.context = FALSE, !.buf = <<>>, !.ttl = "50 ms"]

\* Whether Unserialize() of the payload ends well: "parses" says so of bytes that nobody
\* sent as one message.
Readable(c, parses) == IF Body(c) = Payload(c.buf[1].m) THEN At(c).parses ELSE parses

AfterPayload(c) == From(c.buf, HeaderSize + At(c).size + 1)

\* The loop of MsgPipe::processing().  The checksum of the header is compared with the one
\* in the buffer, which is where it was read from.
RECURSIVE Pipe(_, _)
Pipe(c, parses) ==
  LET d == [c EXCEPT !.handed = Append(@, [m |-> c.buf[1].m, body |-> Body(c)]),
                     !.buf = AfterPayload(c)]
  IN  IF Len(c.buf) < HeaderSize
        THEN [c EXCEPT !.ttl = IF c.buf = <<>> THEN "900 s" ELSE "10 s"]
      ELSE IF ~GoodMagic(c) THEN Refuse(c)
      ELSE IF ~Complete(c) THEN [c EXCEPT !.ttl = "900 s"]
      ELSE IF ~Known(c) \/ ~Readable(c, parses) THEN Refuse(c)
      ELSE IF At(c).throws THEN d
      ELSE Pipe(d, parses)

\* MsgServer::processing(): the first message has to be a Version.  What is refused stays
\* in the buffer, and the connection open, until its time is over.  Of the Version only the
\* header is taken before it is read, and before the pipe begins.  What Unserialize() throws
\* leaves the connection as it is then; until Node::up() has bound its handler, which it
\* does after the transport is enabled, there is none.
Server(c, parses, bound) ==
  LET d == [c EXCEPT !.context = TRUE]
      refused == [d EXCEPT !.context = FALSE, !.ttl = "50 ms"]
      past == From(c.buf, HeaderSize + 1)
  IN  IF Len(c.buf) < HeaderSize THEN [d EXCEPT !.ttl = "5 s"]
      ELSE IF ~GoodMagic(c) \/ At(c).command # "version" THEN refused
      ELSE IF At(c).size \notin VersionSizes THEN [d EXCEPT !.ttl = "50 ms"]
      ELSE IF ~Complete(c) THEN [d EXCEPT !.ttl = "5 s"]
      ELSE IF ~Readable(c, parses) THEN [d EXCEPT !.buf = past]
      ELSE IF ~bound THEN [refused EXCEPT !.buf = past]
      ELSE Pipe([d EXCEPT !.established = TRUE, !.buf = past], parses)

\* TcpConnection::readFromSocket() with the next n bytes.  The pipe has been told to close
\* and its context is gone: it throws at what epoll had reported before.
Read(n) ==
  /\ ~conn.gone /\ n \in 1..Len(wire)
  /\ wire' = From(wire, n + 1)
  /\ LET c == [conn EXCEPT !.buf = @ \o SubSeq(wire, 1, n)]
     IN  \E parses, bound \in BOOLEAN :
           conn' = IF c.established /\ ~c.context THEN c
                   ELSE IF c.established THEN Pipe(c, parses)
                   ELSE Server(c, parses, bound)
  /\ UNCHANGED <<messages, writing, mixed>>

TimeIsOut ==
  /\ conn.ttl # "none" /\ ~conn.gone
  /\ conn' = [conn EXCEPT !.gone = TRUE, !.closed = TRUE]
  /\ UNCHANGED <<messages, writing, mixed, wire>>

Next ==
  \/ \E w \in Writers : (\E message \in Messages : TransmitHeader(w, message)) \/ TransmitPayload(w)
  \/ \E n \in 1..Len(wire) : Read(n)
  \/ TimeIsOut

Spec == Init /\ [][Next]_vars

-----------------------------------------------------------------------------
Good(m) ==
  LET r == messages[m] IN r.magic /\ r.parses /\ r.command # "unknown"
Bad(m) == m \in DOMAIN messages /\ ~Good(m)

\* What is in the buffer is not a complete message.
Waits(c) == Len(c.buf) < HeaderSize \/ (StartsWithHeader(c) /\ ~Complete(c))

\* A connection that the node opened gets from transmissions that do not overlap just what
\* was sent, message by message, up to the first that is refused, after which nothing more
\* is handed on; and a connection that it accepted gets nothing, for the payload of the
\* Version is taken for the next header.
HandedOnAsSent ==
  /\ conn.server /\ ~mixed => conn.handed = <<>> /\ (conn.established => ~conn.context)
  /\ ~conn.server /\ ~mixed =>
       /\ \A i \in DOMAIN conn.handed : conn.handed[i] = [m |-> i, body |-> Payload(i)]
       /\ \A i \in DOMAIN conn.handed : Good(i)
       /\ ~conn.context => Bad(Len(conn.handed) + 1)
       /\ conn.context => Waits(conn) \/ \E i \in DOMAIN conn.handed : messages[i].throws

\* The checksum of a header is that of its payload: a message is handed on only with the
\* payload that was sent with its header, also when two threads write at once.
GarbledIsRefused ==
  \A i \in DOMAIN conn.handed : conn.handed[i].body = Payload(conn.handed[i].m)
=============================================================================
