------------------------------ MODULE HttpTest ------------------------------
(***************************************************************************)
(* A client of the server, after the generator of the self test            *)
(* (http/HttpTest.cpp): what it means to ask for, the text it sends for it *)
(* and what a server must understand.                                      *)
(*                                                                         *)
(* A request is a record: method; scheme ("none" for a path without host), *)
(* host, port, path and query (pairs) of the url; version; fields, the     *)
(* header fields that are only carried; cookie (pairs); ctype, the content *)
(* type; coding, how the body's end is told ("none", "length", "chunked"); *)
(* cuts, the sizes of the chunks but the last; pairs, doc or text, what    *)
(* the body holds; tail, what the client sends behind the request.         *)
(***************************************************************************)
EXTENDS HttpText

CONSTANTS
  JsonText(_, _)  \* a JSON document as text, in a layout (Json)

(* genRandomKVStrs, without the separator at the end.                      *)
KVStrs(pairs, join, split, urlencode) ==
  Joined([i \in DOMAIN pairs |->
            IF urlencode THEN urlEncode(pairs[i][1]) \o join \o urlEncode(pairs[i][2])
                         ELSE pairs[i][1] \o join \o pairs[i][2]], split)

(* create_random_RequestLine.                                              *)
RequestLineText(r) ==
  <<r.method, " ">>
  \o (IF r.scheme = "none" THEN <<>>
      ELSE <<r.scheme, ":", "/", "/">> \o r.host
           \o (IF r.port = <<>> THEN <<>> ELSE <<":">> \o r.port))
  \o r.path
  \o (IF r.query = <<>> THEN <<>> ELSE <<"?">> \o KVStrs(r.query, <<"=">>, <<"&">>, TRUE))
  \o <<" ", r.version>> \o CRLF

(* The content of the body, by its type; a document may also be given as   *)
(* text.                                                                   *)
Payload(r) ==
  CASE r.ctype = "application/x-www-form-urlencoded" -> KVStrs(r.pairs, <<"=">>, <<"&">>, TRUE)
    [] r.ctype = "text/plain" -> KVStrs(r.pairs, <<"=">>, <<"&">>, FALSE)
    [] r.ctype = "application/json" /\ r.text = <<>> -> JsonText(r.doc, r.layout)
    [] OTHER -> r.text

(* The chunks of the content: the sizes in cuts, what is left, and a last, *)
(* empty one.                                                              *)
ChunkText(text) == int2HexString(Len(text)) \o CRLF \o text \o CRLF

CutChunk(c, size) ==
  IF size >= Len(c.left) THEN c
  ELSE [out |-> c.out \o ChunkText(SubSeq(c.left, 1, size)), left |-> From(c.left, size + 1)]

Chunks(text, cuts) ==
  LET after[k \in 0 .. Len(cuts)] ==
        IF k = 0 THEN [out |-> <<>>, left |-> text] ELSE CutChunk(after[k - 1], cuts[k])
      c == after[Len(cuts)]
  IN c.out \o (IF c.left = <<>> THEN <<>> ELSE ChunkText(c.left)) \o <<"0">> \o CRLF \o CRLF

(* create_random_RequestBody.                                              *)
BodyText(r) ==
  CASE r.coding = "chunked" -> Chunks(Payload(r), r.cuts)
    [] r.coding = "length" -> Payload(r)
    [] OTHER -> <<>>

(* create_random_RequestHeader.                                            *)
HeaderText(r) ==
  LET cookie == IF r.cookie = <<>> THEN <<>>
                ELSE << <<"Cookie">>, Joined([i \in DOMAIN r.cookie |->
                          r.cookie[i][1] \o <<"=">> \o r.cookie[i][2]], <<";", " ">>) >>
      ctype == IF r.ctype = "none" THEN <<>> ELSE << <<"Content-Type">>, <<r.ctype>> >>
      coding == CASE r.coding = "length" ->
                       << <<"Content-Length">>, Decimal(Len(Payload(r))) >>
                  [] r.coding = "chunked" -> << <<"Transfer-Encoding">>, <<"chunked">> >>
                  [] OTHER -> <<>>
      field(f) == IF f = <<>> THEN <<>> ELSE f[1] \o <<":", " ">> \o f[2] \o CRLF
  IN Joined([i \in DOMAIN r.fields |-> field(r.fields[i])], <<>>)
     \o field(cookie) \o field(ctype) \o field(coding) \o CRLF

RequestText(r) == RequestLineText(r) \o HeaderText(r) \o BodyText(r)

-----------------------------------------------------------------------------
(* The pairs as a map; the last value of a key stands.                     *)
MapOf(pairs) ==
  LET upto[i \in 0 .. Len(pairs)] ==
        IF i = 0 THEN EmptyMap ELSE Put(upto[i - 1], pairs[i][1], pairs[i][2])
  IN upto[Len(pairs)]

(* The names of cookies have no case.                                      *)
SessionKey == <<"sessionid">>
Cookies(r) ==
  MapOf([i \in DOMAIN r.cookie |-> <<toLowers(r.cookie[i][1]), r.cookie[i][2]>>])
HasBody(r) == r.coding # "none"

(* What the client asked for, in the words of the parser.                  *)
Meant(r) ==
  [method |-> r.method, version |-> r.version, scheme |-> r.scheme,
   hostName |-> r.host, port |-> r.port, path |-> r.path, query |-> MapOf(r.query),
   keepAlive |-> IF \E i \in DOMAIN r.fields : r.fields[i][1] = <<"Connection">>
                   THEN \E i \in DOMAIN r.fields : r.fields[i] = << <<"Connection">>, <<"Keep-Alive">> >>
                   ELSE r.version # "HTTP/1.0",
   cookie |-> [k \in DOMAIN Cookies(r) \ {SessionKey} |-> Cookies(r)[k]],
   sessionId |-> Get(Cookies(r), SessionKey, <<>>),
   body |-> IF HasBody(r) THEN Payload(r) ELSE <<>>,
   form |-> IF HasBody(r) THEN MapOf(r.pairs) ELSE EmptyMap,
   json |-> r.doc,
   parts |-> IF HasBody(r) /\ r.ctype = "multipart/form-data" THEN r.parts ELSE EmptyMap,
   files |-> IF HasBody(r) /\ r.ctype = "multipart/form-data" THEN r.files ELSE EmptyMap]

=============================================================================
