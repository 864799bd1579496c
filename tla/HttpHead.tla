------------------------------ MODULE HttpHead ------------------------------
(***************************************************************************)
(* The heads of requests and responses under src/lib/primitive/src/        *)
(* transport/http: what HttpResponse and HttpRequestExecutor write and     *)
(* HttpRequest and HttpResponse read.  A symbol is a character that the    *)
(* readers know, or a word of others; a number is one symbol.  The length  *)
(* of the shortest response line is left out: what is written is longer.   *)
(***************************************************************************)
EXTENDS Integers, SequencesExt, TLC

CONSTANT
  Spelled   \* words with the same letters as another: the upper-case form of each

Crlf == <<"CR", "LF">>
Blank == {" ", "TAB"}
\* isToken() of HttpHelper.hpp: no separator and no control character.
Special == {"(", ")", "/", ",", ";", ":", "?", "="} \cup Blank
IsToken(x) == x \notin Special \cup {"CR", "LF"}
Upper(x) == IF x \in DOMAIN Spelled THEN Spelled[x] ELSE x

\* What atoi() makes of a symbol: no number is 0.
Numbers == [n \in 0..599 |-> ToString(n)]
Number(x) == IF x \in Range(Numbers) THEN CHOOSE n \in 0..599 : Numbers[n] = x ELSE 0

\* How many symbols from the first on are in a set, and what is left without them.
Run(s, In(_)) ==
  LET out == {i \in DOMAIN s : ~In(s[i])} IN IF out = {} THEN Len(s) ELSE Min(out) - 1
From(s, i) == SubSeq(s, i, Len(s))
Trimmed(s) == From(s, Run(s, LAMBDA x : x \in Blank) + 1)

\* The places where a line ends.
Ends(s) == {i \in 1..Len(s) - 1 : s[i] = "CR" /\ s[i + 1] = "LF"}

-----------------------------------------------------------------------------
Failed == [ok |-> FALSE]
NoHeaders == [ok |-> TRUE, headers |-> <<>>, length |-> -1]

\* A line that begins with a blank goes on with the value before it, of which the length
\* was taken already.  A request puts the names in upper case.
ReadHeader(h, line, upper) ==
  LET name == Run(line, IsToken)
      raised == [i \in 1..name |-> Upper(line[i])]
      value == Trimmed(From(line, name + 2))
      last == Len(h.headers)
  IN  IF ~h.ok THEN h
      ELSE IF last > 0 /\ line[1] \in Blank
        THEN [h EXCEPT !.headers[last][2] = @ \o <<" ">> \o Trimmed(line)]
      ELSE IF Len(line) = name \/ line[name + 1] # ":" THEN Failed
      ELSE [ok |-> TRUE,
            headers |-> Append(h.headers, <<IF upper THEN raised ELSE SubSeq(line, 1, name), value>>),
            length |-> IF raised = <<"CONTENT-LENGTH">>
                         THEN IF value = <<>> THEN 0 ELSE Number(value[1]) ELSE h.length]

\* parseHeaders(): the lines up to an empty one.
ReadHeaders(s, upper) ==
  LET ends == SelectSeq([i \in DOMAIN s |-> i], LAMBDA i : i \in Ends(s))
      lines == [k \in DOMAIN ends |->
                  SubSeq(s, IF k = 1 THEN 1 ELSE ends[k - 1] + 2, ends[k] - 1)]
      empty == {k \in DOMAIN lines : lines[k] = <<>>}
  IN  IF empty = {} THEN Failed
      ELSE FoldLeft(LAMBDA h, line : ReadHeader(h, line, upper), NoHeaders,
                    SubSeq(lines, 1, Min(empty) - 1))

\* getHeader(): of several with a name the one that came first.  A request puts the name
\* that is asked for in upper case too.
GetHeader(headers, name) ==
  LET of == SelectSeq(headers, LAMBDA p : p[1] = name) IN IF of = <<>> THEN <<>> ELSE of[1][2]
OfRequest(headers, name) == GetHeader(headers, [i \in DOMAIN name |-> Upper(name[i])])

\* ifTransferEncoding(): the items between commas, blanks included.
Codings(value) ==
  {c \in {"chunked", "gzip"} :
     \E i \in DOMAIN value :
       /\ value[i] = c
       /\ i > 1 => value[i - 1] = ","
       /\ i < Len(value) => value[i + 1] = ","}

-----------------------------------------------------------------------------
\* Any character may stand between the protocol and the code, and any white space after
\* the code, the end of the line included; the message goes up to the next CR.
ReadResponse(s) ==
  LET after == From(s, 6)
      stop == Run(after, LAMBDA x : x # "CR")
      rest == From(after, stop + 3)
      head == ReadHeaders(rest, FALSE)
  IN  IF \/ Ends(s) = {} \/ s[1] # "HTTP/" \/ s[2] \notin {"1.0", "1.1"}
         \/ Number(s[4]) \notin 100..599 \/ s[5] \notin Blank \cup {"CR", "LF"}
         \/ stop = Len(after) \/ after[stop + 2] # "LF" \/ ~head.ok
        THEN Failed
      ELSE [ok |-> TRUE, code |-> Number(s[4]), message |-> SubSeq(after, 1, stop),
            headers |-> head.headers, length |-> head.length]

\* parseRequestLine() and the headers; Host becomes the host of the address, port and all.
ReadRequest(s) ==
  LET uri == Run(From(s, 3), LAMBDA x : x \notin {" ", "CR"})
      after == From(s, 3 + uri)
      head == ReadHeaders(From(after, 6), TRUE)
      host == {i \in DOMAIN head.headers : head.headers[i][1] = <<"HOST">>}
  IN  IF \/ Ends(s) = {} \/ s[1] \notin {"GET", "POST"} \/ s[2] \notin Blank
         \/ Len(after) < 5 \/ after[2] # "HTTP/" \/ after[3] \notin {"1.0", "1.1"}
         \/ SubSeq(after, 4, 5) # Crlf \/ ~head.ok
        THEN Failed
      ELSE [ok |-> TRUE, method |-> s[1], uri |-> SubSeq(s, 3, 2 + uri),
            host |-> IF host = {} THEN <<>> ELSE head.headers[Max(host)][2],
            headers |-> head.headers, length |-> head.length]

-----------------------------------------------------------------------------
Removed(headers, name) == SelectSeq(headers, LAMBDA p : p[1] # name)

\* HttpResponse(status, message): a code that is none becomes 500, and a message there is
\* always.
Made(code, text) ==
  LET good == code \in 100..599
  IN  [code |-> IF good THEN code ELSE 500,
       message |-> IF ~good THEN <<"Internal", " ", "server", " ", "error", ":", " ", "bad">>
                   ELSE IF text # <<>> THEN text ELSE <<"phrase">>,
       headers |-> <<<<<<"Connection">>, <<"Keep-Alive">>>>>>, close |-> FALSE]

\* operator<< of a header: one without a name or a value is left out, one that is unique or
\* "Connection" takes the place of those before.
Give(r, h) ==
  LET connection == h.name = <<"Connection">>
      before == IF h.unique \/ connection THEN Removed(r.headers, h.name) ELSE r.headers
  IN  [r EXCEPT !.headers = IF h.name = <<>> \/ h.value = <<>> THEN @
                            ELSE Append(before, <<h.name, h.value>>),
                !.close = @ \/ (connection /\ h.value = <<"Close">>)]

\* operator>>.  The headers of a name stay together; their order among other names has no
\* meaning.
Line(name, value) == <<name, ":", " ">> \o value \o Crlf
WriteResponse(r, body, old) ==
  <<"HTTP/", IF old THEN "1.0" ELSE "1.1", " ", Numbers[r.code], " ">> \o r.message \o Crlf \o
  (IF r.code = 100 THEN <<>>
   ELSE Line("Server", <<"name">>) \o Line("Date", <<"day", ",", " ", "time">>)
          \o (IF body = 0 THEN <<>> ELSE Line("Content-Length", <<Numbers[body]>>))
          \o FlattenSeq([i \in DOMAIN r.headers |->
                           r.headers[i][1] \o <<":", " ">> \o r.headers[i][2] \o Crlf]))
  \o Crlf

\* submit() of HttpRequestExecutor.
WriteRequest(q) ==
  <<q.method, " ">> \o q.uri \o <<" ", "HTTP/", "1.1">> \o Crlf
    \o Line("Host", q.host) \o Line("Connection", <<"Close">>)
    \o (IF q.method # "POST" THEN <<>>
        ELSE Line("Content-Length", <<Numbers[q.body]>>)
               \o (IF q.type = <<>> THEN <<>> ELSE Line("Content-Type", q.type)))
    \o Crlf

-----------------------------------------------------------------------------
\* The values of a name in their order, without the blanks in front of them and as one line.
ValuesOf(headers, name) ==
  LET of == SelectSeq(headers, LAMBDA p : p[1] = name)
  IN  [i \in DOMAIN of |-> Trimmed(SelectSeq(of[i][2], LAMBDA x : x \notin {"CR", "LF"}))]

\* Safety of a response: the other side reads the code, the message, the length of the body
\* and every value of every header that were written, each name with its values in their
\* order, and splits the codings of the body where they were joined.
ResponseComesBack(v) ==
  LET r == FoldLeft(Give, Made(v.code, v.message), v.headers)
      read == ReadResponse(WriteResponse(r, v.body, v.old))
  IN  /\ read.ok /\ read.code = r.code /\ read.message = r.message
      /\ r.code # 100 =>
           /\ read.length = (IF v.body = 0 THEN -1 ELSE v.body)
           /\ \A i \in DOMAIN r.headers :
                LET name == r.headers[i][1]
                IN  ValuesOf(read.headers, name) = ValuesOf(r.headers, name)
           /\ \A i \in DOMAIN v.headers :
                v.headers[i].value = <<"gzip", ",", "chunked">> =>
                  Codings(GetHeader(read.headers, v.headers[i].name)) = {"gzip", "chunked"}

\* Safety of a request: the server reads the method, the address, the host and the length
\* that were written, and finds a header however its name is spelled.
RequestComesBack(q) ==
  LET read == ReadRequest(WriteRequest(q))
  IN  /\ read.ok /\ read.method = q.method /\ read.uri = q.uri /\ read.host = q.host
      /\ read.length = (IF q.method = "POST" THEN q.body ELSE -1)
      /\ \A name \in {<<"Connection">>, <<"connection">>} :
           OfRequest(read.headers, name) = <<"Close">>
      /\ q.method = "POST" => OfRequest(read.headers, <<"Content-Type">>) = q.type

HeadComesBack(v) == IF "method" \in DOMAIN v THEN RequestComesBack(v) ELSE ResponseComesBack(v)
=============================================================================
