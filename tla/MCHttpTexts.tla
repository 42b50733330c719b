------------------------------ MODULE MCHttpTexts ---------------------------
(* Requests of every method, content type and coding, and texts that are   *)
(* no requests, for HttpServer.                                            *)
EXTENDS HttpServer, Json

Get0 ==
  [method |-> "GET", scheme |-> "none", host |-> <<>>, port |-> <<>>, path |-> <<"/">>,
   query |-> <<>>, version |-> "HTTP/1.1", fields |-> <<>>, cookie |-> <<>>,
   ctype |-> "none", coding |-> "none", cuts |-> <<>>, pairs |-> <<>>,
   doc |-> Null, layout |-> "RAW", text |-> <<>>, parts |-> EmptyMap,
   files |-> EmptyMap, tail |-> <<>>]

Post == [Get0 EXCEPT !.method = "POST", !.path = <<"/", "s">>, !.version = "HTTP/1.0"]

Hosted == [Get0 EXCEPT !.scheme = "http", !.host = <<"h">>, !.port = <<"8", "0">>,
                       !.path = <<"/", "a", ".html">>]

Gets ==
  {[Get0 EXCEPT !.tail = <<"G", "CR">>],
   [Get0 EXCEPT !.method = "HEAD", !.path = <<"/", "s", "/", "x">>,
                !.fields = << << <<"Connection">>, <<"Close">> >> >>],
   [Get0 EXCEPT !.path = <<"/", "none">>, !.version = "HTTP/1.0",
                !.query = << << <<"k">>, <<" ", "%">> >>, << <<"l">>, <<>> >> >>,
                !.fields = << << <<"Connection">>, <<"Keep-Alive">> >> >>],
   [Hosted EXCEPT !.query = << << <<"k">>, <<"+">> >> >>],
   [Get0 EXCEPT !.path = <<"/", "b">>,
                !.cookie = << << <<"u">>, <<"v">> >>, << <<"SESSIONID">>, <<"i", "d">> >> >>]}

Forms ==
  {[Post EXCEPT !.ctype = t, !.coding = c, !.cuts = <<2>>,
                !.pairs = << << <<"k">>, <<"v">> >>, << <<"k">>, <<"w">> >>, << <<"l">>, <<"x">> >> >>] :
     t \in {"text/plain", "application/x-www-form-urlencoded"}, c \in {"length", "chunked"}}

Minus12 == Node("Integer", <<"-", "1", "2">>)
Half == Node("Double", <<"5", ".", "5", "0", "0", "0", "0", "0">>)
Quoted == Node("String", <<"TAB", "q", "\\">>)
Document ==
  JsonObject(<< <<"a">>, <<"b">> >>,
             <<JsonArray(<<Minus12, JsonArray(<<>>)>>), Quoted>>)

Documents ==
  {[Post EXCEPT !.ctype = "application/json", !.coding = "length", !.doc = Document, !.layout = f] :
     f \in {"RAW", "SPACE", "NEWLINE"}}

(* The same kinds of values, as other programs print them.                 *)
Foreign ==
  {[Post EXCEPT !.ctype = "application/json", !.coding = "chunked", !.cuts = <<3, 1>>,
                !.text = d[1], !.doc = d[2]] :
     d \in {<<<<"[", "\"", "\\", "u", "0", "0", "4", "1", "\"", " ", ",", "null", "]">>,
             JsonArray(<<Node("String", <<"A">>), Node("Null", <<>>)>>)>>,
            <<<<"BOM", "\"", "\\", "u", "D", "8", "3", "D", "\\", "u", "D", "E", "0", "2", "\"">>,
             Node("String", <<"240", "159", "152", "130">>)>>,
            <<<<"{", " ", "\"", "a", "\"", "LF", ":", "2", "1", "4", "7", "4", "8", "3", "6", "4", "8", "}">>,
             JsonObject(<< <<"a">> >>, <<Node("Double", <<"2", "1", "4", "7", "4", "8", "3", "6", "4", "8", ".">>)>>)>>}}

(* A field, and a file: with an empty boundary, the only one the parser    *)
(* knows.                                                                  *)
Uploads ==
  {[Post EXCEPT !.ctype = "multipart/form-data", !.coding = "length",
      !.text = <<"-", "-", "CR", "LF", "Content-Disposition", ":", " ", "form-data", ";", " ",
                 "name", "=", "\"", "n", "\"", "CR", "LF", "CR", "LF", "d",
                 "CR", "LF", "-", "-", "-", "-", "CR", "LF">>,
      !.parts = (<<"n">> :> <<"d">>)],
   [Post EXCEPT !.ctype = "multipart/form-data", !.coding = "length",
      !.text = <<"-", "-", "CR", "LF", "Content-Disposition", ":", " ", "form-data", ";", " ",
                 "name", "=", "\"", "n", "\"", ";", " ", "filename", "=", "\"", "f", "\"", "CR", "LF",
                 "Content-Type", ":", " ", "text/plain", "CR", "LF", "CR", "LF", "d",
                 "CR", "LF", "-", "-", "-", "-", "CR", "LF">>,
      !.files = (<<"n">> :> <<Part(<<"n">>, <<"f">>, <<"text/plain">>, <<"d">>)>>)]}

(* An upload as a browser sends it.                                        *)
MCUpload ==
  {[Post EXCEPT !.coding = "length",
      !.fields = << << <<"Content-Type">>,
                       <<"multipart/form-data", ";", " ", "boundary", "=", "B">> >> >>,
      !.text = <<"-", "-", "B", "CR", "LF", "Content-Disposition", ":", " ", "form-data", ";", " ",
                 "name", "=", "\"", "n", "\"", "CR", "LF", "CR", "LF", "d",
                 "CR", "LF", "-", "-", "B", "-", "-", "CR", "LF">>]}

MCRequests == Gets \cup Forms \cup Documents \cup Foreign \cup Uploads

Line == <<"GET", " ", "/", " ", "HTTP/1.1", "CR", "LF">>
PostLine == <<"POST", " ", "/", " ", "HTTP/1.1", "CR", "LF">>
MCMalformed ==
  {<<"x", " ">>,
   <<"PUT", " ", "/", " ", "HTTP/1.1", "CR", "LF">>,
   <<"GET", " ", "/", " ", "HTTP/3.0", "CR", "LF">>,
   <<"GET", " ", "CR", "LF">>,
   <<"GET", " ">> \o [i \in 1 .. MaxLine |-> "/"],
   Line \o <<"k", ":">> \o [i \in 1 .. MaxHeader |-> "v"] \o CRLF \o <<"l">>,
   Line \o <<"Cookie", "CR", "LF">>,
   PostLine \o CRLF,
   PostLine \o <<"Transfer-Encoding", ":", "gzip">> \o CRLF \o CRLF,
   PostLine \o <<"Transfer-Encoding", ":", "chunked">> \o CRLF \o CRLF \o <<"g">> \o CRLF,
   PostLine \o <<"Transfer-Encoding", ":", "chunked">> \o CRLF \o CRLF
     \o <<"1">> \o CRLF \o <<"x", "y">> \o CRLF}

MCServlets ==
  (<<"/", "s">> :> [kind |-> "set", type |-> "application/json", content |-> <<"J", "1">>])
  @@ (<<"/", "s", "*">> :> [kind |-> "append", type |-> "text/html", content |-> <<"P">>])
MCFiles ==
  (<<"/", "index", ".html">> :> <<"i", "n", "d", "e", "x">>) @@ (<<"/", "a", ".html">> :> <<"a">>)
  @@ (<<"/", "b">> :> <<"raw">>)

MCByte == STRING
MCJsonText(doc, layout) == toString(doc, layout, 0)
=============================================================================
