---------------------------- MODULE HttpRequest -----------------------------
(***************************************************************************)
(* The incremental request parser (http/HttpRequest.cpp).  It reads the    *)
(* connection's buffer, of which any part of the request may have arrived, *)
(* consumes what it has understood and keeps the rest of its progress in   *)
(* the request.  One action is one iteration of one of its loops; what the *)
(* iteration does is a function of the request, r, and of the readable     *)
(* text, v.                                                                *)
(***************************************************************************)
EXTENDS Buffer, HttpMultiPart

CONSTANTS
  JsonOf(_),    \* the document a text holds (Json)
  NoJson,       \* nullptr, for a text that is none
  MaxLine,      \* max_requestLine_len_, in symbols
  MaxHeader,    \* max_requestHeader_len_, in symbols
  ChunkDigits   \* chunk_size_str_limit

VARIABLES
  phase,        \* where the connection's loop is; "parse", "decode" and "parts"
                \* are inside parseRequest
  req,          \* the HttpRequest
  verdict       \* the RET_STATE parseRequest returned last

NewRequest ==
  [state |-> "CHECK_REQUESTLINE", method |-> "none", url |-> NoUrl,
   version |-> "HTTP/1.0", header |-> [map |-> EmptyMap, length |-> 0],
   keepAlive |-> FALSE, compressed |-> FALSE, contentType |-> "none",
   hasContentLength |-> FALSE, contentLength |-> 0,
   hasTransferEncoding |-> FALSE, chunked |-> FALSE,
   cookie |-> NoCookie, chunkedState |-> "NO_LEN", chunkSize |-> 0,
   body |-> <<>>, form |-> EmptyMap, json |-> NoJson,
   boundary |-> <<>>, multipart |-> MultiPart]

\* Mutant: the last byte is left out.
viewButLast == SubSeq(buf.bytes, buf.read + 1, buf.write - 1)

(* What is readable.                                                       *)
view == Content(buf)

Verdicts == {"BAD", "AGAIN", "OK"}

(* What an iteration did: the request after it, how much it retrieved, and *)
(* what comes next, a loop or the end of parseRequest with a verdict.      *)
Did(r, retrieved, next) == [req |-> r, retrieved |-> retrieved, next |-> next]
Ends(r, v) == Did(r, 0, v)

\* Mutant: what follows an accepted request is thrown away.
DoesAndClears(did) ==
  /\ req' = did.req
  /\ IF did.next \in Verdicts
       THEN /\ verdict' = did.next /\ phase' = "respond"
            /\ IF did.next = "OK" THEN RetrieveAll ELSE UNCHANGED <<buf, moved>>
       ELSE /\ phase' = did.next /\ UNCHANGED verdict
            /\ IF phase = "parse" THEN Retrieve(did.retrieved) ELSE UNCHANGED <<buf, moved>>

(* The effect on the state.                                                *)
Does(did) ==
  /\ req' = did.req
  /\ IF did.next \in Verdicts
       THEN verdict' = did.next /\ phase' = "respond" /\ UNCHANGED <<buf, moved>>
       ELSE /\ phase' = did.next /\ UNCHANGED verdict
            /\ IF phase = "parse" THEN Retrieve(did.retrieved) ELSE UNCHANGED <<buf, moved>>

-----------------------------------------------------------------------------
(* What the request line says; ok is FALSE for every BAD_REQUEST.          *)
Methods == {"GET", "POST", "HEAD"}
Versions == {"HTTP/1.0", "HTTP/1.1", "HTTP/2.0"}

RequestLine(line) ==
  LET target == From(line, 3)
      space == Find(target, <<" ">>)
      url == HttpUrl(SubSeq(target, 1, space - 1))
      version == From(target, space + 1)
  IN IF line # <<>> /\ line[1] \in Methods /\ space > 0 /\ url.ok
        /\ \E v \in Versions : version = <<v>>
       THEN [ok |-> TRUE, method |-> line[1], url |-> url, version |-> version[1]]
       ELSE [ok |-> FALSE]

(* The words that begin with 'G', 'P' or 'H'.                              *)
MayBecomeALine == Methods \cup Versions \cup {"PUT", "Path", "HttpOnly"}

(* A line up to its end at place end, with the CRLF.                       *)
Consumed(end) == end + 1

\* Mutant: the limit is on the line only.
LineTooLongItself == Find(view, CRLF) > MaxLine

(* The limit is on all that is readable, the line and what follows it.     *)
LineTooLong == ReadableBytes(buf) > MaxLine

parseRequestLine(r, v) ==
  LET end == Find(v, CRLF)
      line == RequestLine(SubSeq(v, 1, end - 1))
  IN IF end = 0
       THEN Ends(r, IF v # <<>> /\ v[1] \notin MayBecomeALine THEN "BAD" ELSE "AGAIN")
     ELSE IF ~line.ok THEN Ends(r, "BAD")
     ELSE Did([r EXCEPT !.state = "CHECK_HEADER", !.method = line.method,
                        !.url = line.url, !.version = line.version],
              Consumed(end), "parse")

AtLine(r) == r.state = "CHECK_REQUESTLINE"

ParseRequestLine ==
  /\ phase = "parse" /\ AtLine(req)
  /\ Does(IF LineTooLong THEN Ends(req, "BAD") ELSE parseRequestLine(req, view))

-----------------------------------------------------------------------------
Field(r, name) == Get(r.header.map, <<name>>, <<>>)
HasField(r, name) == <<name>> \in DOMAIN r.header.map

parseKeepAlive(r) ==
  IF HasField(r, "connection")
    THEN toLowers(Field(r, "connection")) = <<"keep-alive">>
    ELSE r.version # "HTTP/1.0"

ContentTypeOf == TableOf(
  {<<"application/x-www-form-urlencoded", "URLENCODED">>,
   <<"multipart/form-data", "MULTIPART">>, <<"text/plain", "PLAIN">>,
   <<"text/html", "HTML">>, <<"application/json", "JSON">>})

(* The comparisons are with the beginning of the value.                    *)
parseContentType(r) ==
  LET value == toLowers(Field(r, "content-type"))
  IN IF ~HasField(r, "content-type") THEN "none"
     ELSE IF value # <<>> /\ value[1] \in DOMAIN ContentTypeOf THEN ContentTypeOf[value[1]]
     ELSE "UNKNOW"

parseAcceptEncoding(r) == Find(Field(r, "accept-encoding"), <<"gzip">>) > 0

parseCookies(r) == HttpCookie(Field(r, "cookie"))

(* stoul of the value, which is 0 without the field.                       *)
parseContentLength(r) == NumberIn(10, LeadingDigits(Field(r, "content-length")))

parseTransferEncoding(r) == toLowers(Field(r, "transfer-encoding")) = <<"chunked">>

(* What the end of the header sets.                                        *)
WithHeader(r) ==
  [r EXCEPT !.state = "CHECK_CONTENT",
            !.keepAlive = parseKeepAlive(r),
            !.compressed = parseAcceptEncoding(r),
            !.contentType = parseContentType(r),
            !.cookie = parseCookies(r),
            !.hasContentLength = HasField(r, "content-length"),
            !.contentLength = parseContentLength(r),
            !.hasTransferEncoding = HasField(r, "transfer-encoding"),
            !.chunked = parseTransferEncoding(r)]

AtHeaderEnd(r, v) == r.state = "CHECK_HEADER" /\ StartsWith(v, CRLF)

(* stoul throws, and ends the program, for a value without digits.         *)
StoulThrows(r) ==
  HasField(r, "content-length") /\ LeadingDigits(Field(r, "content-length")) = <<>>

parseHeaderEnd(r, v) == Did(WithHeader(r), 2, "parse")

ParseHeaderEnd ==
  /\ phase = "parse" /\ AtHeaderEnd(req, view) /\ ~StoulThrows(req)
  /\ Does(parseHeaderEnd(req, view))

(* One line of the header, or what stops the loop before it.               *)
AtHeaderLine(r, v) == r.state = "CHECK_HEADER" /\ ~StartsWith(v, CRLF)

parseHeaderLine(r, v) ==
  LET end == Find(v, CRLF)
      line == SubSeq(v, 1, end - 1)
  IN IF v # <<>> /\ r.header.length > MaxHeader THEN Ends(r, "BAD")
     ELSE IF end = 0 THEN Ends(r, "AGAIN")
     ELSE IF Find(line, <<":">>) = 0 THEN Ends(r, "BAD")
     ELSE Did([r EXCEPT !.header = AddField(@, FieldName(line), FieldValue(line))],
              Consumed(end), "parse")

ParseHeaderLine ==
  phase = "parse" /\ AtHeaderLine(req, view) /\ Does(parseHeaderLine(req, view))

-----------------------------------------------------------------------------
AtContent(r) == r.state = "CHECK_CONTENT"
AtChunk(r, state) ==
  AtContent(r) /\ r.hasTransferEncoding /\ r.chunked /\ r.chunkedState = state

(* The size of a chunk is looked for in the first ChunkDigits+2 symbols, so*)
(* a longer one is waited for instead of refused.                          *)
parseChunkSize(r, v) ==
  LET window == SubSeq(v, 1, IF Len(v) < ChunkDigits + 2 THEN Len(v) ELSE ChunkDigits + 2)
      end == Find(window, CRLF)
      size == hexString2Int(SubSeq(v, 1, end - 1))
  IN IF end = 0 THEN Ends(r, "AGAIN")
     ELSE IF size = -1 THEN Ends(r, "BAD")
     ELSE Did([r EXCEPT !.chunkSize = size,
                        !.chunkedState = IF size = 0 THEN "DONE" ELSE "NO_DATA"],
              Consumed(end), "parse")

ParseChunkSize ==
  phase = "parse" /\ AtChunk(req, "NO_LEN") /\ Does(parseChunkSize(req, view))

ChunkIsMissing(r, v) == Len(v) < r.chunkSize + 2

parseChunkData(r, v) ==
  IF ChunkIsMissing(r, v) THEN Ends(r, "AGAIN")
  ELSE IF ~StartsWith(From(v, r.chunkSize + 1), CRLF) THEN Ends(r, "BAD")
  ELSE Did([r EXCEPT !.body = @ \o SubSeq(v, 1, r.chunkSize), !.chunkedState = "NO_LEN"],
           r.chunkSize + 2, "parse")

ParseChunkData ==
  phase = "parse" /\ AtChunk(req, "NO_DATA") /\ Does(parseChunkData(req, view))

parseLastChunk(r, v) ==
  IF Len(v) < 2 THEN Ends(r, "AGAIN")
  ELSE IF ~StartsWith(v, CRLF) THEN Ends(r, "BAD")
  ELSE Did(r, 2, "decode")

ParseLastChunk ==
  phase = "parse" /\ AtChunk(req, "DONE") /\ Does(parseLastChunk(req, view))

AtSizedBody(r) == AtContent(r) /\ ~r.hasTransferEncoding /\ r.hasContentLength

BodyIsMissing(r, v) == r.contentLength > Len(r.body) + Len(v)

(* A body of a given length is taken at once.                              *)
parseSizedBody(r, v) ==
  LET size == r.contentLength - Len(r.body)
  IN IF BodyIsMissing(r, v) THEN Ends(r, "AGAIN")
     ELSE Did([r EXCEPT !.body = @ \o SubSeq(v, 1, size)], size, "decode")

ParseSizedBody ==
  phase = "parse" /\ AtSizedBody(req) /\ Does(parseSizedBody(req, view))

(* No length: nothing is read after the header of a GET or HEAD; another   *)
(* coding than chunked and a POST without a length are refused.            *)
AtNoBody(r) ==
  /\ AtContent(r)
  /\ ~(r.hasTransferEncoding /\ r.chunked)
  /\ r.hasTransferEncoding \/ ~r.hasContentLength

parseNoBody(r) ==
  IF ~r.hasTransferEncoding /\ r.method \in {"GET", "HEAD"}
    THEN Ends([r EXCEPT !.state = "CHECK_DONE"], "OK")
    ELSE Ends(r, "BAD")

ParseNoBody == phase = "parse" /\ AtNoBody(req) /\ Does(parseNoBody(req))

-----------------------------------------------------------------------------
(* The content, once it is complete, by its type.  A multipart body that   *)
(* is longer than the closing delimiter must end with it.                  *)
ClosingDelimiter(r) == <<"-", "-">> \o r.boundary \o <<"-", "-">> \o CRLF
EndsWith(s, t) == Len(t) <= Len(s) /\ From(s, Len(s) - Len(t) + 1) = t

decodeContent(r) ==
  LET form(urldecode) == parseKeyValue(r.body, <<"=">>, <<"&">>, EmptyMap, urldecode)
  IN Ends([r EXCEPT
             !.state = "CHECK_DONE",
             !.form = IF r.contentType \in {"URLENCODED", "PLAIN"}
                        THEN form(r.contentType = "URLENCODED") ELSE @,
             !.json = IF r.contentType = "JSON" THEN JsonOf(r.body) ELSE @], "OK")

IsMultipart(r) == r.contentType = "MULTIPART"

DecodeContent == phase = "decode" /\ ~IsMultipart(req) /\ Does(decodeContent(req))

Unterminated(r) ==
  Len(r.body) > Len(ClosingDelimiter(r)) /\ ~EndsWith(r.body, ClosingDelimiter(r))

decodeMultipart(r) == IF Unterminated(r) THEN Ends(r, "AGAIN") ELSE Did(r, 0, "parts")

DecodeMultipart == phase = "decode" /\ IsMultipart(req) /\ Does(decodeMultipart(req))

(* One iteration of HttpMultiPart::parse, or its end.                      *)
decodePart(r) ==
  IF PartsDone(r.body, r.multipart) THEN Ends([r EXCEPT !.state = "CHECK_DONE"], "OK")
  ELSE Did([r EXCEPT !.multipart = PartStep(r.body, r.boundary, @)], 0, "parts")

DecodePart == phase = "parts" /\ Does(decodePart(req))

ParseRequest ==
  \/ ParseRequestLine \/ ParseHeaderEnd \/ ParseHeaderLine
  \/ ParseChunkSize \/ ParseChunkData \/ ParseLastChunk
  \/ ParseSizedBody \/ ParseNoBody
  \/ DecodeContent \/ DecodeMultipart \/ DecodePart

=============================================================================
