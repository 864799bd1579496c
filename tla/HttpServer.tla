----------------------------- MODULE HttpServer -----------------------------
(***************************************************************************)
(* HttpServer::processing() on one connection: requests come in pieces, as *)
(* TcpConnection reads them; each call takes from the buffer what it can,  *)
(* and the HttpContext of the connection keeps what is still unfinished.   *)
(*                                                                         *)
(* The bytes are items [t, r, n]: "line" and "end" of the head of request  *)
(* r, "byte" of a body, "size" (of n) and "crlf" around a chunk.           *)
(***************************************************************************)
EXTENDS Integers, Sequences, SequencesExt

CONSTANTS
  Dialogs,    \* sequences of requests that a client may send
  Handlers,   \* the selectors that have a handler, sequences of letters
  Letters     \* the letters of paths, in their order (a sequence)

\* A request is [kind, sizes, path, throws]: kind is "GET", "LENGTH" or "CHUNKED" or
\* "CLOSE" (a POST of that form; "CLOSE" has no length and ends with the connection) or
\* "BAD" (another method) or "UNREADABLE" (HttpRequest cannot parse its head); sizes are those
\* of its parts; throws says what its handler does.

VARIABLES
  requests, pipelined,  \* the dialog, and whether the client waits for no answer
  sent,                 \* requests that have been sent
  wire, fin,            \* bytes under way, and whether the client's end follows them
  conn                  \* the connection with its HttpContext

vars == <<requests, pipelined, sent, wire, fin, conn>>

Item(t, r, n) == [t |-> t, r |-> r, n |-> n]
Bytes(r, n) == [i \in 1..n |-> Item("byte", r, 0)]
Chunk(r, n) == <<Item("size", r, n)>> \o Bytes(r, n) \o <<Item("crlf", r, 0)>>

\* What a client puts on the wire for a request.
Text(r) ==
  LET q == requests[r]
      part(n) == IF q.kind = "CHUNKED" THEN Chunk(r, n) ELSE Bytes(r, n)
  IN  <<Item("line", r, 0), Item("end", r, 0)>>
      \o FlattenSeq([i \in DOMAIN q.sizes |-> part(q.sizes[i])])
      \o (IF q.kind = "CHUNKED" THEN Chunk(r, 0) ELSE <<>>)

Total(r) == FoldSeq(LAMBDA n, sum : n + sum, 0, requests[r].sizes)

-----------------------------------------------------------------------------
\* getHandler() and the order of std::map.
Rank(c) == CHOOSE i \in DOMAIN Letters : Letters[i] = c
RECURSIVE Less(_, _)
Less(a, b) ==
  b # <<>> /\ \/ a = <<>>
              \/ Rank(a[1]) < Rank(b[1])
              \/ a[1] = b[1] /\ Less(Tail(a), Tail(b))

\* Mutant: the greatest selector up to the subject is the only one that is looked at.
getHandler_Once(subject) ==
  LET below == {h \in Handlers : ~Less(subject, h)}
      i == CHOOSE h \in below : \A g \in below : ~Less(h, g)
  IN  IF below # {} /\ IsPrefix(i, subject) THEN {i} ELSE {}

\* The greatest selector up to the subject is its handler's, if it is a prefix of it; if
\* not, the subject is cut to one letter less than they could share.
RECURSIVE getHandler(_)
getHandler(subject) ==
  LET below == {h \in Handlers : ~Less(subject, h)}
      i == CHOOSE h \in below : \A g \in below : ~Less(h, g)
      len == IF Len(subject) < Len(i) THEN Len(subject) ELSE Len(i)
  IN  IF below = {} THEN {}
      ELSE IF IsPrefix(i, subject) THEN {i}
      ELSE IF len <= 1 THEN {}
      ELSE getHandler(SubSeq(subject, 1, len - 1))

-----------------------------------------------------------------------------
From(s, n) == SubSeq(s, n, Len(s))
Reply(c, code, by) ==
  [c EXCEPT !.log = Append(@, [r |-> c.req, code |-> code, body |-> c.body, by |-> by])]
\* An answer after which the connection is given 50 ms.
Close(c, code) == [Reply(c, code, {}) EXCEPT !.ttl = TRUE]
Stop(c) == [more |-> FALSE, c |-> c]
Reset(c) == [c EXCEPT !.req = 0, !.body = <<>>]

\* The head of a request: what does not start with a method that is known is refused and
\* stays in the buffer, and so does a head that cannot be parsed.  (The limit of 4096 bytes
\* and the answer 100 to "Expect" are left out.)
Head_(c) ==
  LET ends == {i \in DOMAIN c.buf : c.buf[i].t = "end"}
      end == CHOOSE i \in ends : \A j \in ends : i <= j
      known == c.buf[1].t = "line" /\ requests[c.buf[1].r].kind # "BAD"
  IN  IF c.buf = <<>> THEN Stop(c)
      ELSE IF ~known THEN Stop(Close(c, 400))
      ELSE IF ends = {} THEN Stop(c)
      ELSE IF requests[c.buf[1].r].kind = "UNREADABLE" THEN Stop(Close(c, 400))
      ELSE [more |-> TRUE, c |-> [c EXCEPT !.req = c.buf[1].r, !.buf = From(@, end + 1)]]

\* A body with a length: as much is taken as the whole body has, if it is there, however
\* much of it has been taken before.
Length(c) ==
  LET total == Total(c.req)
      len == IF total < Len(c.buf) THEN total ELSE Len(c.buf)
      d == IF Len(c.body) < total
             THEN [c EXCEPT !.body = @ \o SubSeq(c.buf, 1, len), !.buf = From(@, len + 1)]
           ELSE c
  IN  [more |-> Len(d.body) >= total, c |-> d]

\* A chunked body.  strcmp() finds the end of a chunk only when no byte follows it in the
\* memory behind the buffer; lucky says whether it does when nothing else has come.
RECURSIVE Chunks(_, _)
Chunks(c, lucky) ==
  LET n == c.buf[1].n
      d == [c EXCEPT !.body = @ \o SubSeq(c.buf, 2, n + 1), !.buf = From(@, n + 3)]
  IN  IF c.buf = <<>> THEN Stop(c)
      ELSE IF c.buf[1].t # "size" THEN Stop(Close(c, 400))
      ELSE IF Len(c.buf) < n + 2 THEN Stop(c)
      ELSE IF Len(c.buf) > n + 2 \/ ~lucky THEN Stop(Close(c, 400))
      ELSE IF n = 0 THEN [more |-> TRUE, c |-> d]
      ELSE IF c.noRead THEN Stop(Close(d, 400))
      ELSE Chunks(d, lucky)

\* A body that ends with the connection.
Rest(c) == [more |-> c.noRead, c |-> [c EXCEPT !.body = @ \o c.buf, !.buf = <<>>]]

\* The handler of a request that is complete; after it has thrown the connection goes on.
Handle(c) ==
  LET q == requests[c.req]
      by == getHandler(q.path)
      d == Reply(c, IF q.throws THEN 500 ELSE 200, by)
  IN  IF by = {} THEN Stop(Reset(Close(c, 404)))
      ELSE [more |-> TRUE, c |-> Reset([d EXCEPT !.ttl = @ \/ q.throws])]

\* The loop of processing().
RECURSIVE processing(_, _)
processing(c, lucky) ==
  LET h == IF c.req = 0 THEN Head_(c) ELSE [more |-> TRUE, c |-> c]
      b == CASE requests[h.c.req].kind = "GET" -> h
             [] requests[h.c.req].kind = "LENGTH" -> Length(h.c)
             [] requests[h.c.req].kind = "CHUNKED" -> Chunks(h.c, lucky)
             [] requests[h.c.req].kind = "CLOSE" -> Rest(h.c)
      r == Handle(b.c)
  IN  IF ~h.more THEN h.c
      ELSE IF ~b.more THEN b.c
      ELSE IF ~r.more THEN r.c
      ELSE processing(r.c, lucky)

-----------------------------------------------------------------------------
Init ==
  /\ requests \in Dialogs /\ pipelined \in BOOLEAN
  /\ sent = 0 /\ wire = <<>> /\ fin = FALSE
  /\ conn = [buf |-> <<>>, req |-> 0, body |-> <<>>, log |-> <<>>,
             ttl |-> FALSE, noRead |-> FALSE, closed |-> FALSE]

Answered == {conn.log[i].r : i \in DOMAIN conn.log}

\* The client sends its next request, and after the last one it may end its side.
Send ==
  /\ sent < Len(requests) /\ ~conn.closed
  /\ pipelined \/ (1..sent) \subseteq Answered
  /\ sent' = sent + 1 /\ wire' = wire \o Text(sent + 1)
  /\ UNCHANGED <<requests, pipelined, fin, conn>>

End ==
  /\ sent = Len(requests) /\ ~fin
  /\ fin' = TRUE
  /\ UNCHANGED <<requests, pipelined, sent, wire, conn>>

\* TcpConnection::readFromSocket() with the next n bytes; it calls processing() only when
\* the buffer has something, so that an end that comes alone goes unseen.
Read(n) ==
  /\ ~conn.closed /\ ~conn.noRead
  /\ n > 0 \/ (fin /\ wire = <<>>)
  /\ \E last \in BOOLEAN, lucky \in BOOLEAN :
       LET c == [conn EXCEPT !.buf = @ \o SubSeq(wire, 1, n), !.noRead = last]
       IN  /\ last => fin /\ n = Len(wire)
           /\ n = 0 => last
           /\ conn' = IF c.buf = <<>> THEN c ELSE processing(c, lucky)
  /\ wire' = From(wire, n + 1)
  /\ UNCHANGED <<requests, pipelined, sent, fin>>

\* The short time to live is over.
Expire ==
  /\ conn.ttl /\ ~conn.closed
  /\ conn' = [conn EXCEPT !.closed = TRUE]
  /\ UNCHANGED <<requests, pipelined, sent, wire, fin>>

Next == Send \/ End \/ (\E n \in 0..Len(wire) : Read(n)) \/ Expire

Spec == Init /\ [][Next]_vars

-----------------------------------------------------------------------------
Served == SelectSeq(conn.log, LAMBDA a : a.code \in {200, 500})
Whole(r) == FlattenSeq([i \in DOMAIN requests[r].sizes |-> Bytes(r, requests[r].sizes[i])])
Selectors(r) == {h \in Handlers : IsPrefix(h, requests[r].path)}
Longest(r) == {h \in Selectors(r) : \A g \in Selectors(r) : Len(g) <= Len(h)}

\* Whatever the pieces in which they come, the requests of a client that waits for each
\* answer reach the handler with the longest selector that is a prefix of their path, in
\* their order, once each, every one with its own body; 404 is answered when there is no
\* such handler, and 400 only when a request has another method or is chunked.
ServedAsSent ==
  ~pipelined =>
    /\ \A i \in DOMAIN Served :
         Served[i].body = Whole(Served[i].r) /\ Served[i].by = Longest(Served[i].r)
    /\ \A i, j \in DOMAIN Served : i < j => Served[i].r < Served[j].r
    /\ \A i \in DOMAIN conn.log :
         /\ conn.log[i].code = 404 => Selectors(conn.log[i].r) = {}
         /\ conn.log[i].code = 400 =>
              \E r \in 1..sent : requests[r].kind \in {"BAD", "UNREADABLE", "CHUNKED"}

=============================================================================
