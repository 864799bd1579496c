----------------------------- MODULE WebSocket -----------------------------
(***************************************************************************)
(* One websocket connection of a server: WsServer::processing() answers    *)
(* the request to upgrade, and from then on WsPipe::processing() takes     *)
(* frames from the buffer, which fills in pieces.                          *)
(*                                                                         *)
(* The bytes are items [t, f]: "line" and "end" of the request and "policy"*)
(* for "<policy-file-request/>" (f = 0); "start", "more" and "byte" of     *)
(* frame f, whose header is as long as its start says.                     *)
(***************************************************************************)
EXTENDS Integers, Sequences, SequencesExt

CONSTANTS
  Dialogs,   \* what a client may send: [request, frames]
  MinBytes,  \* bytes from which on the method is looked at: 23, those of a policy request
  MaxLines   \* lines of a request that are still read, 4 KB

\* A request is [kind, lines]: "good", "policy", "method" (not GET or POST at all), "refused"
\* (POST, or without the headers of an upgrade), "unreadable" or "nobody" (no handler for its
\* path).  A frame is [op, more, size, throws]: more bytes of length and mask in its header,
\* size bytes of data, and what its handler does.

VARIABLES
  dialog, pipelined,   \* what the client sends, and whether it waits for no answer
  sent,                \* frames sent; -1 before the request
  wire,                \* bytes under way
  conn                 \* the TcpConnection with its WsContext

vars == <<dialog, pipelined, sent, wire, conn>>

Items(t, f, n) == [i \in 1..n |-> [t |-> t, f |-> f]]
From(s, n) == SubSeq(s, n, Len(s))
Frame(f) == dialog.frames[f]
Data(f) == Items("byte", f, Frame(f).size)

Text(f) ==
  IF f > 0 THEN Items("start", f, 2) \o Items("more", f, Frame(f).more) \o Data(f)
  ELSE IF dialog.request.kind = "policy" THEN Items("policy", 0, MinBytes)
  ELSE Items("line", 0, dialog.request.lines) \o Items("end", 0, 1)

Init ==
  /\ dialog \in Dialogs /\ pipelined \in BOOLEAN /\ sent = -1 /\ wire = <<>>
  /\ conn = [buf |-> <<>>, transport |-> "server", context |-> FALSE, established |-> FALSE,
             frame |-> 0, data |-> <<>>, log |-> <<>>, ttl |-> "none",
             closed |-> FALSE, gone |-> FALSE]

-----------------------------------------------------------------------------
Tell(c, what, f, data) == [c EXCEPT !.log = Append(@, [what |-> what, f |-> f, data |-> data])]
\* resetContext(), and the 50 ms a connection is given after it.
Drop(c) == [c EXCEPT !.context = FALSE, !.established = FALSE, !.frame = 0, !.data = <<>>,
                     !.ttl = "50 ms"]
\* connection->close() empties the buffer.
Close(c) == [Drop(c) EXCEPT !.closed = TRUE, !.buf = <<>>]
Done(c) == [c |-> c, threw |-> FALSE]

resetFrame(c) == [c EXCEPT !.frame = 0, !.data = <<>>]

\* The header of the next frame, once all of it is there.
ReadHeader(c) ==
  LET f == c.buf[1].f
      headerSize == 2 + Frame(f).more
  IN  IF Len(c.buf) < 2 \/ Len(c.buf) < headerSize
        THEN [c EXCEPT !.ttl = IF c.buf = <<>> THEN "900 s" ELSE "60 s"]
        ELSE [c EXCEPT !.frame = f, !.buf = From(@, headerSize + 1)]

\* As many bytes are taken as the whole frame has, if they are there, however many of them
\* have been taken before.
ReadData(c) ==
  LET size == Frame(c.frame).size
      len == IF size < Len(c.buf) THEN size ELSE Len(c.buf)
  IN  [c EXCEPT !.data = @ \o SubSeq(c.buf, 1, len), !.buf = From(@, len + 1)]

\* The loop of WsPipe::processing().  A frame whose handler throws is not reset.
RECURSIVE Pipe(_)
Pipe(c) ==
  LET h == IF c.frame = 0 THEN ReadHeader(c) ELSE c
      d == ReadData(h)
      frame == Frame(d.frame)
      e == [d EXCEPT !.ttl = "900 s"]
  IN  IF h.frame = 0 THEN Done(h)
      ELSE IF Len(d.data) < frame.size THEN Done([d EXCEPT !.ttl = "60 s"])
      ELSE IF frame.op \in {"text", "binary"} THEN
        IF frame.throws THEN [c |-> Tell(e, "threw", e.frame, e.data), threw |-> TRUE]
        ELSE Pipe(resetFrame(Tell(e, "handled", e.frame, e.data)))
      ELSE IF frame.op = "ping" THEN Pipe(resetFrame(Tell(e, "pong", e.frame, e.data)))
      ELSE IF frame.op = "close" THEN Done(Close(Tell(e, "bye", e.frame, e.data)))
      ELSE Done(Close(Tell(e, "unsupported", e.frame, e.data)))

\* WsServer::processing().  What it refuses it leaves in the buffer, so that it is refused
\* again when more comes; what the first frames throw is answered as a bad request.
Server(c) ==
  LET r == dialog.request
      d == [c EXCEPT !.context = TRUE]
      ends == {i \in DOMAIN c.buf : c.buf[i].t = "end"}
      end == CHOOSE i \in ends : TRUE
      upgraded == [Tell(d, "101", 0, <<>>) EXCEPT !.buf = From(@, end + 1),
                     !.established = TRUE, !.transport = "pipe"]
      p == Pipe(upgraded)
      enough == Len(c.buf) >= MinBytes
  IN  IF enough /\ c.buf[1].t = "policy"
        THEN Close(Tell([d EXCEPT !.buf = From(@, MinBytes + 1)], "policy", 0, <<>>))
      ELSE IF enough /\ (r.kind = "method" \/ c.buf[1].t # "line")
        THEN Close(Tell(d, "400", 0, <<>>))
      ELSE IF ends = {} /\ Len(c.buf) < MaxLines THEN [d EXCEPT !.ttl = "5 s"]
      ELSE IF ends = {} THEN Drop(Tell(d, "400", 0, <<>>))
      ELSE IF end > MaxLines + 1 THEN Drop(Tell([d EXCEPT !.buf = From(@, end)], "400", 0, <<>>))
      ELSE IF r.kind \in {"method", "unreadable"} \/ end <= r.lines
        THEN Drop(Tell([d EXCEPT !.buf = From(@, end + 1)], "400", 0, <<>>))
      ELSE IF r.kind = "refused" THEN Drop(Tell(d, "400", 0, <<>>))
      ELSE IF r.kind = "nobody" THEN Drop(Tell(d, "404", 0, <<>>))
      ELSE IF p.threw THEN Drop(Tell(p.c, "400", 0, <<>>))
      ELSE p.c

-----------------------------------------------------------------------------
\* A client that is not pipelined waits until the server has said something of the last.
Send ==
  /\ sent < Len(dialog.frames) /\ ~conn.closed
  /\ pipelined \/ sent = -1 \/ \E i \in DOMAIN conn.log : conn.log[i].f = sent
  /\ sent' = sent + 1 /\ wire' = wire \o Text(sent + 1)
  /\ UNCHANGED <<dialog, pipelined, conn>>

\* TcpConnection::readFromSocket(): once the context is gone the pipe throws.
Read(n) ==
  /\ ~conn.gone /\ n \in 1..Len(wire)
  /\ LET c == [conn EXCEPT !.buf = @ \o SubSeq(wire, 1, n)]
     IN  conn' = IF c.transport = "server" THEN Server(c)
                 ELSE IF c.context THEN Pipe(c).c
                 ELSE c
  /\ wire' = From(wire, n + 1)
  /\ UNCHANGED <<dialog, pipelined, sent>>

TimeIsOut ==
  /\ conn.ttl # "none" /\ ~conn.gone
  /\ conn' = [conn EXCEPT !.gone = TRUE, !.closed = TRUE]
  /\ UNCHANGED <<dialog, pipelined, sent, wire>>

Next == Send \/ (\E n \in 1..Len(wire) : Read(n)) \/ TimeIsOut

Spec == Init /\ [][Next]_vars

-----------------------------------------------------------------------------
Entry(i) == conn.log[i]
Answer(f) ==
  CASE Frame(f).op \in {"text", "binary"} -> IF Frame(f).throws THEN "threw" ELSE "handled"
    [] Frame(f).op = "ping" -> "pong"
    [] Frame(f).op = "close" -> "bye"
    [] OTHER -> "unsupported"

\* Whatever the pieces in which they come, the frames of a client that waits for each answer
\* are handled in their order, once each and with their own data, up to one whose handler
\* throws; after Close and what is not supported nothing is; and the session is upgraded
\* only for a good request, and before any frame.
FramesAsSent ==
  /\ \A i \in DOMAIN conn.log :
       /\ Entry(i).f > 0 => \E j \in 1..(i - 1) : Entry(j).what = "101"
       /\ Entry(i).what = "101" => i = 1 /\ dialog.request.kind = "good"
       /\ Entry(i).what \in {"bye", "unsupported"} => i = Len(conn.log)
  /\ ~pipelined =>
       \A i \in DOMAIN conn.log :
         Entry(i).f > 0 /\ (\A j \in 1..(i - 1) : Entry(j).what # "threw") =>
               /\ Entry(i).f = i - 1
               /\ Entry(i).what = Answer(i - 1) /\ Entry(i).data = Data(i - 1)
=============================================================================
