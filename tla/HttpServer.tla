------------------------------ MODULE HttpServer ------------------------------
(***************************************************************************)
(* lotta::http: Request::readBuffer, Headers, Response and the             *)
(* Server::msgCallback that puts them together, for one connection.        *)
(*                                                                         *)
(* Text is a sequence of words: the separators SP, CRLF and ":", the names *)
(* of methods, and others.  VERSION is a supported version after its five  *)
(* characters "HTTP/".  The network cuts what the client sends in segments *)
(* between any two words, and a read takes one segment.                    *)
(*                                                                         *)
(* A version line shorter than "HTTP/" is undefined behaviour: the process *)
(* may die of it, or answer as it does to other bad requests.              *)
(***************************************************************************)
EXTENDS Naturals, Sequences, FiniteSets, SequencesExt, TLC

CONSTANTS
  Characters,           \* of each word, how many
  Methods,              \* the methods there are
  Routes,               \* keys of routes_, <<method, path>>
  Requests,             \* requests a client may send: [method, path, headers, body]
  Malformed,            \* texts it may send that are no requests
  Outcomes,             \* of a route: [bodies, status], what it sets
  MaxMessages,          \* bound: messages a client sends
  MaxReads              \* bound: segments that are read

VARIABLES
  wire,                 \* words sent by the client that have not been read
  inBuf,                \* inBuf of the connection
  open,                 \* shutdown() was not called
  out,                  \* words sent to the client
  sent,                 \* messages the client has sent
  reads,                \* segments read
  crashed,              \* has the process died?
  responses,            \* history: status and body of each response
  lastRead              \* history: the last read and what came of it

vars == <<wire, inBuf, open, out, sent, reads, crashed, responses, lastRead>>

CRLF == <<"CRLF">>
SP == <<"SP">>
COLON == <<":", "SP">>

-----------------------------------------------------------------------------
(* Buffer::retrieveUntil: nothing, if the delimiter is not there. *)

Find(text, delim) ==
  LET found == {i \in 1 .. Len(text) : IsPrefix(delim, SubSeq(text, i, Len(text)))}
  IN IF found = {} THEN 0 ELSE CHOOSE i \in found : \A j \in found : i <= j

RetrieveUntil(buf, delim) ==
  LET i == Find(buf, delim)
  IN IF i = 0
       THEN [slice |-> <<>>, rest |-> buf]
       ELSE [slice |-> SubSeq(buf, 1, i - 1), rest |-> SubSeq(buf, i + Len(delim), Len(buf))]

(* Headers: keys and values in the order in which they came. *)
Get(headers, key) ==
  LET i == SelectInSeq(headers, LAMBDA h : h[1] = key)
  IN IF i = 0 THEN <<>> ELSE headers[i][2]

SetAppends(headers, key, val) == Append(headers, <<key, val>>)   \* mutant: no search for the key
Set(headers, key, val) ==
  LET i == SelectInSeq(headers, LAMBDA h : h[1] = key)
  IN IF i = 0 THEN Append(headers, <<key, val>>) ELSE [headers EXCEPT ![i][2] = val]

-----------------------------------------------------------------------------
(* Request::readBuffer *)

(* BadRequestException; the headers read so far stay in the request. *)
BadRequest(headers, rest) ==
  [ok |-> FALSE, wild |-> FALSE, method |-> <<>>, path |-> <<>>, headers |-> headers,
   body |-> <<>>, rest |-> rest]

RECURSIVE ReadHeaders(_, _)
ReadHeaders(buf, headers) ==
  LET line == RetrieveUntil(buf, CRLF)
      colon == Find(line.slice, COLON)
      key == SubSeq(line.slice, 1, colon - 1)
      val == SubSeq(line.slice, colon + 2, Len(line.slice))
  IN IF line.slice = <<>> THEN [ok |-> TRUE, headers |-> headers, rest |-> line.rest]
     ELSE IF colon = 0 THEN BadRequest(headers, line.rest)
     ELSE ReadHeaders(line.rest, Append(headers, <<key, val>>))

(* The body is all that is left. *)
BodyToCRLF(rest) == RetrieveUntil(rest, CRLF).slice      \* mutant: it ends with the line
Body(rest) == rest

(* Of a line shorter than "HTTP/", n - 5 wraps around, and the warning     *)
(* about the version that this cannot be reads so many bytes.              *)
TooShort(line) == FoldLeft(LAMBDA n, w : n + Characters[w], 0, line) < 5

ReadBuffer(buf) ==
  LET method == RetrieveUntil(buf, SP)
      path == RetrieveUntil(method.rest, SP)
      version == RetrieveUntil(path.rest, CRLF)
      headers == ReadHeaders(version.rest, <<>>)
  IN IF method.slice \notin Methods THEN BadRequest(<<>>, method.rest)
     ELSE IF path.slice = <<>> THEN BadRequest(<<>>, path.rest)
     ELSE IF version.slice # <<"VERSION">>
       THEN [BadRequest(<<>>, version.rest) EXCEPT !.wild = TooShort(version.slice)]
     ELSE IF ~headers.ok THEN headers
     ELSE [ok |-> TRUE, wild |-> FALSE, method |-> method.slice, path |-> path.slice,
           headers |-> headers.headers, body |-> Body(headers.rest), rest |-> <<>>]

-----------------------------------------------------------------------------
(* Response *)

NewResponse ==
  [status |-> <<"200">>,
   headers |-> <<<<<<"Connection">>, <<"Keep-Alive">>>>, <<<<"Content-Length">>, <<"0">>>>>>,
   body |-> <<>>]

SetBody(response, body) ==
  [response EXCEPT !.body = body,
                   !.headers = Set(@, <<"Content-Length">>, <<ToString(Len(body))>>)]

HeaderText(headers) ==
  FlattenSeq([i \in DOMAIN headers |-> headers[i][1] \o COLON \o headers[i][2] \o CRLF])

Text(response) ==
  <<"HTTP/1.1", "SP">> \o response.status \o CRLF \o HeaderText(response.headers)
    \o CRLF \o response.body

-----------------------------------------------------------------------------
RequestText(r) ==
  r.method \o SP \o r.path \o SP \o <<"VERSION">> \o CRLF \o HeaderText(r.headers)
    \o CRLF \o r.body

Init ==
  /\ wire = <<>> /\ inBuf = <<>>
  /\ open = TRUE
  /\ out = <<>>
  /\ sent = 0 /\ reads = 0 /\ crashed = FALSE
  /\ responses = <<>>
  /\ lastRead = [before |-> <<>>, text |-> <<>>, request |-> BadRequest(<<>>, <<>>), clean |-> TRUE]

(* The client *)
Send(text) ==
  /\ sent < MaxMessages
  /\ sent' = sent + 1
  /\ wire' = wire \o text
  /\ UNCHANGED <<inBuf, open, out, reads, crashed, responses, lastRead>>

(* msgCallback: the exceptions give the status 400 and 404; a route sets   *)
(* the body some times, and the status, or throws one itself.              *)
Respond(request, outcome) ==
  IF ~request.ok THEN [NewResponse EXCEPT !.status = <<"400">>]
  ELSE IF <<request.method, request.path>> \notin Routes
         THEN [NewResponse EXCEPT !.status = <<"404">>]
  ELSE [FoldLeft(SetBody, NewResponse, outcome.bodies) EXCEPT !.status = outcome.status]

AsksToCloseLast(request) ==             \* mutant: the last header counts
  request.headers # <<>> /\ Last(request.headers) = <<<<"Connection">>, <<"close">>>>
AsksToClose(request) == Get(request.headers, <<"Connection">>) = <<"close">>

MsgCallback(buf, outcome) ==
  LET request == ReadBuffer(buf)
      response == Respond(request, outcome)
  IN /\ inBuf' = request.rest
     /\ IF open
          THEN /\ out' = out \o Text(response)
               /\ responses' = Append(responses, [status |-> response.status, body |-> response.body])
          ELSE UNCHANGED <<out, responses>>
     /\ open' = (open /\ ~AsksToClose(request))

(* handleRead: one segment *)
Read(n, outcome) ==
  /\ ~crashed
  /\ reads < MaxReads /\ reads' = reads + 1
  /\ n \in 1 .. Len(wire)
  /\ LET text == SubSeq(wire, 1, n) IN
       /\ \/ MsgCallback(inBuf \o text, outcome) /\ UNCHANGED crashed
          \/ /\ ReadBuffer(inBuf \o text).wild
             /\ crashed' = TRUE
             /\ UNCHANGED <<inBuf, open, out, responses>>
       /\ lastRead' = [before |-> inBuf, text |-> text,
                       request |-> ReadBuffer(inBuf \o text),
                       clean |-> lastRead.clean /\ \E r \in Requests : text = RequestText(r)]
  /\ wire' = SubSeq(wire, n + 1, Len(wire))
  /\ UNCHANGED sent

Done == (crashed \/ reads = MaxReads \/ wire = <<>>) /\ sent = MaxMessages /\ UNCHANGED vars

Next ==
  \/ \E r \in Requests : Send(RequestText(r))
  \/ \E text \in Malformed : Send(text)
  \/ \E n \in 1 .. Len(wire), outcome \in Outcomes : Read(n, outcome)
  \/ Done

Spec == Init /\ [][Next]_vars

-----------------------------------------------------------------------------
(* As long as each read took one whole request, the parser has found that  *)
(* request, the last one too, with its headers in order and its whole      *)
(* body, nothing is left in the buffer to spoil the next, and the process  *)
(* lives (request.cc:17-80).                                               *)
WholeRequestsUnderstood ==
  lastRead.clean =>
    /\ ~crashed /\ inBuf = <<>>
    /\ lastRead.text # <<>> =>
         \E r \in Requests :
           /\ lastRead.text = RequestText(r)
           /\ lastRead.request.ok
           /\ \A f \in {"method", "path", "headers", "body"} : lastRead.request[f] = r[f]

(* The connection is shut down after the response to a request that asks   *)
(* for it, by the first Connection header it has, and not before           *)
(* (server.cc:63-66, headers.h:20-25, tcp_connection.cc:97-99).            *)
ClosedAsAsked ==
  [][open /\ reads' # reads /\ lastRead'.clean =>
       /\ Len(responses') = Len(responses) + 1
       /\ \E r \in Requests :
            /\ lastRead'.text = RequestText(r)
            /\ open' = ~(\E i \in DOMAIN r.headers :
                           /\ r.headers[i] = <<<<"Connection">>, <<"close">>>>
                           /\ \A j \in 1 .. i - 1 : r.headers[j][1] # <<"Connection">>)]_vars

(* A client that takes from the stream what Content-Length announces finds *)
(* each response where it starts, whatever was read and routed             *)
(* (response.cc:15-30).                                                    *)
Announced(headers) ==
  CHOOSE n \in 0 .. 9 : <<ToString(n)>> = Get(headers, <<"Content-Length">>)

RECURSIVE Received(_)
Received(text) ==
  IF text = <<>> \/ Head(text) # "HTTP/1.1" THEN <<>>
  ELSE LET status == RetrieveUntil(text, CRLF)
           head == ReadHeaders(status.rest, <<>>)
           length == Announced(head.headers)
       IN <<[status |-> SubSeq(status.slice, 3, 3), body |-> SubSeq(head.rest, 1, length)]>>
            \o Received(SubSeq(head.rest, length + 1, Len(head.rest)))

ResponsesSeparable == Received(out) = responses
=============================================================================
