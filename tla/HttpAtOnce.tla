----------------------------- MODULE HttpAtOnce -----------------------------
(***************************************************************************)
(* The parser on a text that is all there from the start, as a function:   *)
(* no pieces, no buffer, no limit on what is readable at once.             *)
(***************************************************************************)
EXTENDS HttpServer

CONSTANT Enough  \* iterations in which the parser is done with any of the texts

ASSUME EnoughAssumption == Enough \in Nat

(* What an iteration of parseRequest does in phase p to request r, in      *)
(* front of the text v (HttpRequest.cpp:27-58).                            *)
Iteration(p, r, v) ==
  IF p = "decode" THEN IF IsMultipart(r) THEN decodeMultipart(r) ELSE decodeContent(r)
  ELSE IF p = "parts" THEN decodePart(r)
  ELSE IF AtLine(r) THEN parseRequestLine(r, v)
  ELSE IF AtHeaderEnd(r, v)
    THEN IF StoulThrows(r) THEN Did(r, 0, p) ELSE parseHeaderEnd(r, v)
  ELSE IF AtHeaderLine(r, v) THEN parseHeaderLine(r, v)
  ELSE IF AtChunk(r, "NO_LEN") THEN parseChunkSize(r, v)
  ELSE IF AtChunk(r, "NO_DATA") THEN parseChunkData(r, v)
  ELSE IF AtChunk(r, "DONE") THEN parseLastChunk(r, v)
  ELSE IF AtSizedBody(r) THEN parseSizedBody(r, v)
  ELSE parseNoBody(r)

(* The parser's progress: at is what it has consumed of the text.          *)
Progress(p, r, at) == [phase |-> p, req |-> r, at |-> at]

After(text, c) ==
  LET did == Iteration(c.phase, c.req, From(text, c.at + 1))
  IN IF c.phase \in Verdicts THEN c
     ELSE Progress(did.next, did.req, c.at + did.retrieved)

(* The progress after n iterations.                                        *)
Parsed(text, n) ==
  LET progress[k \in 0 .. n] ==
        IF k = 0 THEN Progress("parse", NewRequest, 0) ELSE After(text, progress[k - 1])
  IN progress[n]

-----------------------------------------------------------------------------
(* A request that arrives at once is understood: it fits into the limits,  *)
(* and the parser stops at its end with what the client meant.             *)
RequestAtOnce(c) ==
  LET text == RequestText(c)
      end == Parsed(text, Enough)
  IN /\ Len(text \o c.tail) <= MaxLine
     /\ end.phase = "OK" /\ end.at = Len(text)
     /\ Understood(end.req) = Meant(c)
     /\ end.req.header.length <= MaxHeader

(* What is no request is not accepted.                                     *)
MalformedAtOnce(text) == Parsed(text, Enough).phase \in {"BAD", "AGAIN"}

UnderstoodAtOnce ==
  /\ \A c \in Requests : RequestAtOnce(c)
  /\ \A text \in Malformed : MalformedAtOnce(text)

-----------------------------------------------------------------------------
(* Answers that can be told apart: a head without an end of a line inside  *)
(* one, and no version but the one an answer begins with.  The servlets and*)
(* the files are the programmer's, a session's id is the request's.        *)
HeadSymbol == Byte \ (Versions \cup {"CR"})
BodySymbol == Byte \ Versions

PlainServlets ==
  /\ \A p \in DOMAIN Servlets : /\ Servlets[p].type \in HeadSymbol
                               /\ Servlets[p].content \in Seq(BodySymbol)
  /\ \A p \in DOMAIN Files : Files[p] \in Seq(BodySymbol)

PlainSessions ==
  /\ \A c \in Requests : Meant(c).sessionId \in Seq(HeadSymbol)
  /\ \A text \in Malformed, n \in 0 .. Enough :
       Parsed(text, n).req.cookie.sessionId \in Seq(HeadSymbol)

PlainAnswers == PlainServlets /\ PlainSessions

=============================================================================
