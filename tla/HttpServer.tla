----------------------------- MODULE HttpServer -----------------------------
(***************************************************************************)
(* One connection of the HTTP server, from the bytes of a request to the   *)
(* bytes of its response (onRecv of net/TcpServer.cpp, http/HttpServer.cpp,*)
(* http/Servlet.cpp, http/HttpResponse.h and .cpp).  It composes the       *)
(* client (HttpTest), the buffer that receives (Buffer), the parser        *)
(* (HttpRequest) and the sending side (TcpConnection).                     *)
(*                                                                         *)
(* Nothing in src sets the connection's keepAlive_: it carries one request.*)
(***************************************************************************)
EXTENDS HttpRequest, TcpConnection, HttpTest, FiniteSets

CONSTANTS
  Requests,   \* the well-formed requests
  Malformed,  \* texts that are no requests
  Servlets,   \* the registered servlets: pattern :> [kind, type, content]
  Files,      \* the files under resource: path :> content
  MaxPieces   \* bound on the pieces a request arrives in

(* The symbols the server writes of its own, and those a decoded text may  *)
(* have.                                                                   *)
Words ==
  {UpperDigits[d] : d \in 1 .. 16} \cup DOMAIN CodeOf \cup Versions
  \cup {"CR", "LF", "byte", "200", "400", "404", "content-type", "content-length",
        "connection", "Close", "set-cookie", "sessionid", "Max-Age", "<h1>", "</h1>",
        "HAHA", "what?", "application/octet-stream", "text/html", "text/plain",
        "image/jpeg", "image/png", ""}

NoRequest == [method |-> "none"]

ASSUME HttpAssumption ==
  /\ Words \subseteq Byte /\ Symbol = Byte
  /\ ChunkDigits \in Nat /\ MaxLine \in Nat /\ MaxHeader \in Nat
  /\ \A c \in Requests : /\ c # NoRequest
                        /\ RequestText(c) \in Seq(Byte) /\ c.tail \in Seq(Byte)
  /\ Malformed \subseteq Seq(Byte)
  /\ \A p \in DOMAIN Servlets : /\ Servlets[p].kind \in {"append", "set"}
                               /\ Servlets[p].type \in Byte
                               /\ Servlets[p].content \in Seq(Byte)
  /\ \A p \in DOMAIN Files : Files[p] \in Seq(Byte)
  /\ <<"/">> \notin DOMAIN Files  \* it is a directory

VARIABLES
  client,     \* the request that is sent, or NoRequest
  wire,       \* its text and what follows it
  sent, read, \* how much of wire the client has sent and the server has read
  pieces,     \* the pieces sent
  context     \* the connection's context is set

clientvars == <<client, wire, sent, pieces>>
hvars == <<buf, moved, phase, req, verdict, cvars, clientvars, read, context>>

HInit ==
  /\ Init /\ CInit
  /\ phase = "wait" /\ verdict = "none" /\ req = NewRequest /\ context = FALSE
  /\ \/ client \in Requests /\ wire = RequestText(client) \o client.tail
     \/ client = NoRequest /\ wire \in Malformed
  /\ sent = 0 /\ read = 0 /\ pieces = 0

(* A piece is seen only while recv runs, or waits to be called.            *)
ClientSends ==
  /\ phase \in {"wait", "recv"} /\ ~gone
  /\ sent' \in IF pieces + 1 < MaxPieces THEN sent + 1 .. Len(wire) ELSE {Len(wire)} \ {sent}
  /\ pieces' = pieces + 1
  /\ UNCHANGED <<buf, moved, phase, req, verdict, cvars, client, wire, read, context>>

-----------------------------------------------------------------------------
(* EPOLLIN: onRecv calls recv.                                             *)
OnRecv ==
  /\ phase = "wait" /\ read < sent /\ ~gone
  /\ phase' = "recv"
  /\ UNCHANGED <<buf, moved, req, verdict, cvars, clientvars, read, context>>

(* Socket::recv: one iteration of its loop.                                *)
Recv ==
  LET n == Least(sent - read, WritableBytes(buf) + Stack)
  IN /\ phase = "recv" /\ read < sent
     /\ ReadFd(SubSeq(wire, read + 1, read + n))
     /\ read' = read + n
     /\ UNCHANGED <<phase, req, verdict, cvars, clientvars, context>>

(* The loop ends with the end of the stream: the connection is closed.     *)
RecvCloses ==
  /\ phase = "recv" /\ read = sent /\ gone
  /\ phase' = "out" /\ link' = "closed"
  /\ UNCHANGED <<buf, moved, req, verdict, len, sender, file, room, got, owed, gone,
                 clientvars, read, context>>

\* Mutant: every piece starts a request of its own.
RequestOfAlways == NewRequest

(* The request in the connection's context.                                *)
RequestOf == IF context THEN req ELSE NewRequest

(* The loop ends with EAGAIN: onMessage.                                   *)
OnMessage ==
  /\ phase = "recv" /\ read = sent /\ ~gone
  /\ phase' = "parse"
  /\ req' = RequestOf /\ context' = TRUE
  /\ UNCHANGED <<buf, moved, verdict, cvars, clientvars, read>>

Parse == ParseRequest /\ UNCHANGED <<cvars, clientvars, read, context>>

-----------------------------------------------------------------------------
(* fnmatch, for patterns of symbols and "*".                               *)
Matches(pattern, path) ==
  LET m[i \in 0 .. Len(pattern), j \in 0 .. Len(path)] ==
        IF i = 0 THEN j = 0
        ELSE IF pattern[i] = "*" THEN \E k \in 0 .. j : m[i - 1, k]
        ELSE j > 0 /\ pattern[i] = path[j] /\ m[i - 1, j - 1]
  IN m[Len(pattern), Len(path)]

DefaultServlet == [kind |-> "default", type |-> "", content |-> <<>>]

\* Mutant: a pattern goes before the exact name.
FindMatchAny(path) ==
  LET matching == {p \in DOMAIN Servlets : Matches(p, path)}
  IN IF matching # {} THEN {Servlets[p] : p \in matching} ELSE {DefaultServlet}

(* The exact name, any pattern that matches, or the default.               *)
FindMatch(path) ==
  LET matching == {p \in DOMAIN Servlets : Matches(p, path)}
  IN IF path \in DOMAIN Servlets THEN {Servlets[path]}
     ELSE IF matching # {} THEN {Servlets[p] : p \in matching}
     ELSE {DefaultServlet}

-----------------------------------------------------------------------------
(* A response: what HttpResponse keeps.                                    *)
NewResponse ==
  [version |-> req.version, status |-> "200", type |-> "application/octet-stream",
   close |-> FALSE, cookie |-> <<>>, body |-> <<>>, file |-> <<>>, clears |-> FALSE]

HtmlTypes == {".html", ".htm"}
Ext2HttpContentType == TableOf(
  {<<e, "text/html">> : e \in HtmlTypes}
  \cup {<<".txt", "text/plain">>, <<".jpg", "image/jpeg">>, <<".png", "image/png">>})
ExtensionOf(path) == IF path = <<>> THEN "" ELSE path[Len(path)]

basePage(status, content) == <<"<h1>", status, "</h1>", content>>

Page(resp, content) ==
  [resp EXCEPT !.type = "text/html", !.body = @ \o basePage(resp.status, content)]

(* The default servlet: the error page, a file, or a page that says why    *)
(* not.                                                                    *)
Default(resp, path) ==
  LET p == IF path = <<"/">> THEN <<"/", "index", ".html">> ELSE path
  IN IF resp.status = "400" THEN Page(resp, "HAHA")
     ELSE IF p \notin DOMAIN Files THEN Page([resp EXCEPT !.status = "404"], "HAHA")
     ELSE IF ExtensionOf(p) \in DOMAIN Ext2HttpContentType
       THEN [resp EXCEPT !.type = Ext2HttpContentType[ExtensionOf(p)],
                         !.body = <<>>, !.file = Files[p]]
     ELSE Page(resp, "what?")

(* A servlet that is registered: it appends to the body, or sets it, which *)
(* empties the sender buffer.                                              *)
Handled(servlet, resp, path) ==
  CASE servlet.kind = "default" -> Default(resp, path)
    [] servlet.kind = "append" ->
         [resp EXCEPT !.type = servlet.type, !.body = @ \o servlet.content]
    [] servlet.kind = "set" ->
         [resp EXCEPT !.type = servlet.type, !.body = servlet.content, !.clears = TRUE]

(* The constructor of HttpCookie leaves maxAge_ as it was in memory: none  *)
(* to be seen, or any number.                                              *)
LeftInMemory == {0, 12}

(* beforeServlet: the session's id goes back in a cookie.                  *)
beforeServlet(resp) ==
  IF req.cookie.sessionId = <<>> THEN {resp}
  ELSE {[resp EXCEPT !.cookie = CookieText(
            [NoCookie EXCEPT !.map = Put(EmptyMap, toLowers(<<"SESSIONID">>), req.cookie.sessionId),
                             !.maxAge = n])] : n \in LeftInMemory}

\* Mutant: the length of the body, when a file follows.
ContentLengthOfBody(resp) == Len(resp.body)

ContentLength(resp) == Len(resp.body \o resp.file)

(* ~HttpResponse: the head, and the body that is no file.                  *)
ResponseText(resp) ==
  <<resp.version, " ", resp.status>> \o CRLF
  \o <<"content-type", ":", resp.type>> \o CRLF
  \o <<"content-length", ":">> \o Decimal(ContentLength(resp)) \o CRLF
  \o (IF resp.close THEN <<"connection", ":", "Close">> \o CRLF ELSE <<>>)
  \o (IF resp.cookie = <<>> THEN <<>>
      ELSE <<"set-cookie", ":">> \o resp.cookie \o CRLF)
  \o CRLF \o resp.body

(* AGAIN: the response is made before the verdict is looked at, and its    *)
(* destructor writes it all the same.                                      *)
AnswerAgain ==
  /\ phase = "respond" /\ verdict = "AGAIN"
  /\ Respond(ResponseText(NewResponse), <<>>, FALSE)
  /\ phase' = "wait"
  /\ UNCHANGED <<link, buf, moved, req, verdict, clientvars, read, context>>

(* OK or BAD: the dispatcher, the response, and EPOLLOUT.                  *)
Dispatch ==
  LET fresh == [NewResponse EXCEPT !.status = IF verdict = "BAD" THEN "400" ELSE @,
                                   !.close = (verdict = "BAD")]
  IN /\ phase = "respond" /\ verdict # "AGAIN"
     /\ \E servlet \in FindMatch(req.url.path), prepared \in beforeServlet(fresh) :
          LET resp == Handled(servlet, prepared, req.url.path)
          IN Respond(ResponseText(resp), resp.file, resp.clears)
     /\ phase' = "out" /\ link' = "armed" /\ context' = FALSE
     /\ UNCHANGED <<buf, moved, req, verdict, clientvars, read>>

(* Writability and hang up, once the loop waits for this connection.       *)
Send ==
  /\ \/ HangUp /\ phase \in {"wait", "out"}
     \/ OnSend \/ SendBuffer \/ SendFile \/ SendReturns
  /\ UNCHANGED <<buf, moved, phase, req, verdict, clientvars, read, context>>

(* The client reads all that was sent, or closes.                          *)
ClientEnd ==
  /\ \/ ClientReads /\ room' = Room
     \/ ClientCloses
  /\ UNCHANGED <<buf, moved, phase, req, verdict, clientvars, read, context>>

ServerStep ==
  OnRecv \/ Recv \/ RecvCloses \/ OnMessage \/ Parse \/ AnswerAgain \/ Dispatch \/ Send

HNext == ClientSends \/ ServerStep \/ ClientEnd

(* A loop of the server that goes round without getting anywhere, or a     *)
(* server that has ended.                                                  *)
Stuck ==
  \/ /\ phase = "parts" /\ ~PartsDone(req.body, req.multipart)
     /\ PartStep(req.body, req.boundary, req.multipart) = req.multipart
  \/ phase = "parse" /\ AtHeaderEnd(req, view) /\ StoulThrows(req)

(* The server has something to do: ENABLED <<ServerStep>>_hvars.           *)
Busy ==
  \/ phase = "wait" /\ (read < sent \/ gone) /\ link # "closed"
  \/ phase \in {"recv", "parse", "decode", "parts", "respond"} /\ ~Stuck
  \/ phase = "out" /\ (link = "sending" \/ (link = "armed" /\ (room > 0 \/ gone)))

(* The loop goes on (weak fairness of ServerStep, its enabling condition   *)
(* written out); the client sends its request and reads the response.      *)
HSpec ==
  /\ HInit /\ [][HNext]_hvars
  /\ []<>~Busy \/ []<><<ServerStep>>_hvars
  /\ WF_hvars(ClientSends) /\ WF_hvars(ClientEnd /\ ~gone')

-----------------------------------------------------------------------------
Complete == client # NoRequest /\ read >= Len(RequestText(client))

(* What the parser made of a request.                                      *)
Understood(r) ==
  [method |-> r.method, version |-> r.version, scheme |-> r.url.scheme,
   hostName |-> r.url.hostName, port |-> r.url.port, path |-> r.url.path,
   query |-> r.url.query, keepAlive |-> r.keepAlive, cookie |-> r.cookie.map,
   sessionId |-> r.cookie.sessionId, body |-> r.body, form |-> r.form,
   json |-> r.json, parts |-> r.multipart.form, files |-> r.multipart.files]

(* A request that is accepted says what the client meant, in whatever      *)
(* pieces and through whatever codings it came (HttpRequest.cpp:27-397,    *)
(* against the generator of HttpTest.cpp).                                 *)
UnderstoodAsMeant ==
  phase = "respond" /\ verdict = "OK" => client # NoRequest /\ Understood(req) = Meant(client)

(* Only texts that are no request are refused.                             *)
RefusesOnlyMalformed == phase = "respond" /\ verdict = "BAD" => client = NoRequest

(* The parser never waits for more once the whole request is in the buffer *)
(* (the client would wait for its answer for ever).                        *)
WaitsOnlyForMissing == phase = "respond" /\ verdict = "AGAIN" => ~Complete

(* The parser consumes the request and nothing behind it: what is left in  *)
(* the buffer is what was read beyond the request's end.                   *)
StopsAtTheEnd ==
  phase = "respond" /\ verdict = "OK"
    => view = SubSeq(wire, Len(RequestText(client)) + 1, read)

(* The last response in what the client got.                               *)
LastAnswer ==
  LET starts == {i \in DOMAIN got : got[i] \in Versions}
  IN From(got, CHOOSE i \in starts : \A j \in starts : j <= i)
Status == LastAnswer[3]
Body == From(LastAnswer, Find(LastAnswer, CRLF \o CRLF) + 4)
Announced ==
  LET length == From(LastAnswer, Find(LastAnswer, <<"content-length", ":">>) + 2)
  IN SubSeq(length, 1, Find(length, CRLF) - 1)

Ended == link = "closed" /\ ~gone

(* The client gets the page it asked for: a refusal for what is no         *)
(* request, the servlet of that very name, a file, or 404                  *)
(* (Servlet.cpp:20-66, 107-121; HttpServer.cpp:25-51).                     *)
AnswerMatchesRequest ==
  Ended =>
    IF client = NoRequest THEN Status = "400"
    ELSE /\ client.path \in DOMAIN Servlets => Body = Servlets[client.path].content
         /\ client.path \in DOMAIN Files \ DOMAIN Servlets => Status = "200"
         /\ Status = "404" => client.path \notin DOMAIN Servlets \cup DOMAIN Files

(* The announced length is that of the body that follows the head, be it   *)
(* text or a file, before a connection that ends (HttpResponse.cpp:25-33). *)
AnswerIsFramed == Ended => Announced = Decimal(Len(Body))

(* A request gets one response, not one for every piece it arrives in      *)
(* ("not complete, read on", TcpServer.cpp:219-222).                       *)
OneAnswer == Cardinality({i \in DOMAIN owed : owed[i] \in Versions}) <= 1

(* Every request is answered, and every text that is none is refused       *)
(* (HttpServer.cpp:11-56), unless the client closes first.                 *)
EveryRequestIsAnswered == <>(gone \/ (phase = "out" /\ link = "closed"))

=============================================================================
