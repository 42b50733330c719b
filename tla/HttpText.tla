------------------------------ MODULE HttpText ------------------------------
(***************************************************************************)
(* The text codecs of the HTTP server as operators: url encoding, URLs,    *)
(* key-value pairs, header fields, cookies and numbers                     *)
(* (base/EncodeUtil.cpp, base/util.cpp, http/HttpUrl.cpp,                  *)
(* http/HttpUtil.cpp, http/HttpHeader.h, http/HttpCookie.cpp).             *)
(*                                                                         *)
(* A text is a sequence of symbols.  A symbol is a character the code      *)
(* looks at on its own (CR, LF, space, separators, digits), or a word it   *)
(* only compares as a whole ("GET", "HTTP/1.1", "Content-Length", a name). *)
(* A length counts symbols.                                                *)
(***************************************************************************)
EXTENDS Integers, SequencesExt

CRLF == <<"CR", "LF">>

From(s, i) == SubSeq(s, i, Len(s))

(* std::string_view::find: the first place of t in s; 0 for npos.          *)
Find(s, t) ==
  LET hits == {i \in 1 .. Len(s) - Len(t) + 1 : SubSeq(s, i, i + Len(t) - 1) = t}
  IN IF hits = {} THEN 0 ELSE CHOOSE i \in hits : \A j \in hits : i <= j

StartsWith(s, t) == Len(t) <= Len(s) /\ SubSeq(s, 1, Len(t)) = t

(* find_first_not_of(" ").                                                 *)
SkipSpaces(s) ==
  LET rest == {i \in DOMAIN s : s[i] # " "}
  IN IF rest = {} THEN <<>> ELSE From(s, CHOOSE i \in rest : \A j \in rest : i <= j)

-----------------------------------------------------------------------------
(* A table of words: the second component of the pair that has the first.  *)
TableOf(pairs) ==
  [word \in {p[1] : p \in pairs} |-> (CHOOSE p \in pairs : p[1] = word)[2]]

(* The words that have upper case letters, and their lower case.           *)
LowerOf == TableOf(
  {<<"Connection", "connection">>, <<"Content-Type", "content-type">>,
   <<"Content-Length", "content-length">>, <<"Transfer-Encoding", "transfer-encoding">>,
   <<"Accept-Encoding", "accept-encoding">>, <<"Cookie", "cookie">>,
   <<"Close", "close">>, <<"Keep-Alive", "keep-alive">>, <<"Secure", "secure">>,
   <<"HttpOnly", "httponly">>, <<"Path", "path">>, <<"Domain", "domain">>,
   <<"Expires", "expires">>, <<"Max-Age", "max-age">>, <<"SESSIONID", "sessionid">>})

toLowers(s) ==
  [i \in DOMAIN s |-> IF s[i] \in DOMAIN LowerOf THEN LowerOf[s[i]] ELSE s[i]]

Digits == <<"0", "1", "2", "3", "4", "5", "6", "7", "8", "9">>
UpperDigits == Digits \o <<"A", "B", "C", "D", "E", "F">>
LowerDigits == <<"a", "b", "c", "d", "e", "f">>
DigitValue == TableOf({<<Digits[d], d - 1>> : d \in 1 .. 10})
hex2dec == TableOf({<<UpperDigits[d], d - 1>> : d \in 1 .. 16}
                   \cup {<<LowerDigits[d], d + 9>> : d \in 1 .. 6})
dec2hex(n) == UpperDigits[n + 1]

(* The number a sequence of digits stands for in a base.                   *)
NumberIn(base, s) ==
  LET value[i \in 0 .. Len(s)] ==
        IF i = 0 THEN 0 ELSE value[i - 1] * base + hex2dec[s[i]]
  IN value[Len(s)]

(* A number's digits; none for zero (int2HexString).                       *)
int2HexString(n) ==
  LET hex[k \in 0 .. n] ==
        IF k = 0 THEN <<>> ELSE Append(hex[k \div 10], dec2hex(k % 10))
  IN hex[n]

(* std::to_string.                                                         *)
Decimal(n) == IF n = 0 THEN <<"0">> ELSE int2HexString(n)

(* The digits std::stoul and std::stoi find; they throw if there are none. *)
LeadingDigits(s) ==
  LET others == {i \in DOMAIN s : s[i] \notin DOMAIN DigitValue}
  IN IF others = {} THEN s
     ELSE SubSeq(s, 1, (CHOOSE i \in others : \A j \in others : i <= j) - 1)

(* The size of a chunk: -1 for a symbol that is no hexadecimal digit.  The *)
(* digits are weighed by powers of ten.                                    *)
hexString2Int(s) ==
  IF \E i \in DOMAIN s : s[i] \notin DOMAIN hex2dec THEN -1 ELSE NumberIn(10, s)

-----------------------------------------------------------------------------
(* The bytes the encoder turns into %XX.                                   *)
CodeOf == TableOf({<<" ", 32>>, <<"%", 37>>, <<"&", 38>>, <<"+", 43>>, <<"/", 47>>,
                   <<":", 58>>, <<";", 59>>, <<"=", 61>>, <<"?", 63>>})

EncodedSymbol(c) ==
  IF c \in DOMAIN CodeOf THEN <<"%", dec2hex(CodeOf[c] \div 16), dec2hex(CodeOf[c] % 16)>>
                         ELSE <<c>>

urlEncode(s) ==
  LET escaped[i \in 0 .. Len(s)] ==
        IF i = 0 THEN <<>> ELSE escaped[i - 1] \o EncodedSymbol(s[i])
  IN escaped[Len(s)]

(* The byte of two digits; what the encoder leaves alone is one symbol.    *)
ByteOf(high, low) ==
  LET bytes == {c \in DOMAIN CodeOf : CodeOf[c] = 16 * hex2dec[high] + hex2dec[low]}
  IN IF bytes = {} THEN "byte" ELSE CHOOSE c \in bytes : TRUE

(* A % that two digits do not follow empties the result.                   *)
BadEscape(s) ==
  \E i \in DOMAIN s : s[i] = "%" /\ ~(/\ i + 2 <= Len(s)
                                      /\ {s[i + 1], s[i + 2]} \subseteq DOMAIN hex2dec)

(* What the symbol at place i adds: the last one of an escape its byte.    *)
DecodedSymbol(s, i) ==
  IF i > 2 /\ s[i - 2] = "%" THEN <<ByteOf(s[i - 1], s[i])>>
  ELSE IF s[i] = "%" \/ (i > 1 /\ s[i - 1] = "%") THEN <<>>
  ELSE IF s[i] = "+" THEN <<" ">>
  ELSE <<s[i]>>

urlDecode(s) ==
  LET escaped[i \in 0 .. Len(s)] ==
        IF i = 0 THEN <<>> ELSE escaped[i - 1] \o DecodedSymbol(s, i)
  IN IF BadEscape(s) THEN <<>> ELSE escaped[Len(s)]

-----------------------------------------------------------------------------
(* HttpMap: a function from keys to values.                                *)
EmptyMap == <<>>
Put(map, key, value) ==
  [k \in DOMAIN map \cup {key} |-> IF k = key THEN value ELSE map[k]]

(* HttpMap::get: {value, true} or {V(), false}.                            *)
Get(map, key, default) == IF key \in DOMAIN map THEN map[key] ELSE default

(* The map is keyed by the lower case name and the last value stands; the  *)
(* length counts every value that was ever added.                          *)
AddField(header, key, value) ==
  [map |-> Put(header.map, toLowers(key), value),
   length |-> header.length + Len(key) + Len(value)]

(* A header line without its CRLF: everything up to the first ':', and     *)
(* what follows the spaces after it.                                       *)
FieldName(line) == SubSeq(line, 1, Find(line, <<":">>) - 1)
FieldValue(line) ==
  LET colon == Find(line, <<":">>)
      space == Find(From(line, colon), <<" ">>)
  IN SkipSpaces(From(line, IF space = 0 THEN colon + 1 ELSE colon + space - 1))

(* One iteration of parseKeyValue: the last pair, and one without join, end*)
(* the loop.                                                               *)
PairStep(p, join, split) ==
  LET pos == Find(p.view, split)
      kv == IF pos = 0 THEN p.view ELSE SubSeq(p.view, 1, pos - 1)
      pos1 == Find(kv, join)
  IN IF p.view = <<>> THEN p
     ELSE IF pos1 = 0 THEN [p EXCEPT !.view = <<>>]
     ELSE [view |-> IF pos = 0 THEN <<>> ELSE SkipSpaces(From(p.view, pos + Len(split))),
           map |-> Put(p.map, SubSeq(kv, 1, pos1 - 1), From(kv, pos1 + Len(join)))]

Pairs(view, join, split, map) ==
  LET after[k \in 0 .. Len(view)] ==
        IF k = 0 THEN [view |-> view, map |-> map] ELSE PairStep(after[k - 1], join, split)
  IN after[Len(view)].map

parseKeyValue(src, join, split, map, urldecode) ==
  Pairs(IF urldecode THEN urlDecode(src) ELSE src, join, split, map)

-----------------------------------------------------------------------------
NoUrl == [ok |-> FALSE, scheme |-> "none", host |-> <<>>, hostName |-> <<>>,
          port |-> <<>>, path |-> <<>>, query |-> EmptyMap]

(* The loop over the query at place i: '=' ends a key, which started at    *)
(* from, '&' ends a value and stores it under the key seen last, an empty  *)
(* one too.                                                                *)
QueryStep(q, s, i) ==
  IF s[i] = "=" THEN [q EXCEPT !.key = SubSeq(s, q.from, i - 1), !.from = i + 1]
  ELSE IF s[i] = "&"
    THEN [from |-> i + 1, key |-> <<>>, map |-> Put(q.map, q.key, SubSeq(s, q.from, i - 1))]
  ELSE q

Query(s) ==
  LET after[i \in 0 .. Len(s)] ==
        IF i = 0 THEN [from |-> 1, key |-> <<>>, map |-> EmptyMap]
                 ELSE QueryStep(after[i - 1], s, i)
      q == after[Len(s)]
  IN IF q.key = <<>> THEN q.map ELSE Put(q.map, q.key, From(s, q.from))

(* Path and query of what follows the host.                                *)
PathAndQuery(url, s) ==
  LET pos == Find(s, <<"?">>)
  IN IF pos = 0
       THEN [url EXCEPT !.ok = TRUE, !.path = s]
       ELSE [url EXCEPT !.ok = TRUE, !.path = SubSeq(s, 1, pos - 1),
                        !.query = Query(From(s, pos + 1))]

(* What follows "://": the port is split off only if a '/' follows.        *)
HostAndRest(url, s) ==
  LET pos == Find(s, <<"/">>)
      host == IF pos = 0 THEN s ELSE SubSeq(s, 1, pos - 1)
      colon == IF pos = 0 THEN 0 ELSE Find(host, <<":">>)
      hosted == [url EXCEPT !.host = host,
                            !.hostName = IF colon = 0 THEN host ELSE SubSeq(host, 1, colon - 1),
                            !.port = IF colon = 0 THEN <<>> ELSE From(host, colon + 1)]
  IN IF Len(s) < 2 THEN url
     ELSE IF pos = 0 THEN [hosted EXCEPT !.ok = TRUE, !.path = <<"/">>]
     ELSE PathAndQuery(hosted, From(s, pos))

(* parseFromUrl.  The text starts with "http" when its first symbol does.  *)
ParsedUrl(s) ==
  IF s # <<>> /\ s[1] \in {"http", "https"}
    THEN LET pos == Find(s, <<":", "/", "/">>)
         IN IF pos = 2 THEN HostAndRest([NoUrl EXCEPT !.scheme = s[1]], From(s, 5))
            ELSE NoUrl
  ELSE IF StartsWith(s, <<"/">>) THEN PathAndQuery(NoUrl, s)
  ELSE NoUrl

(* A url that decodes to nothing fails; so does the empty one.             *)
HttpUrl(s) == ParsedUrl(urlDecode(s))

-----------------------------------------------------------------------------
NoCookie == [map |-> EmptyMap, secure |-> FALSE, httpOnly |-> FALSE,
             domain |-> <<>>, path |-> <<>>, expires |-> <<>>, maxAge |-> 0,
             sessionId |-> <<>>]

Attribute(c, attr) ==
  CASE attr = <<"secure">> -> [c EXCEPT !.secure = TRUE]
    [] attr = <<"httponly">> -> [c EXCEPT !.httpOnly = TRUE]
    [] OTHER -> c

KeyedAttribute(c, key, val) ==
  LET attr == toLowers(key)
  IN CASE attr = <<"domain">> -> [c EXCEPT !.domain = val]
       [] attr = <<"path">> -> [c EXCEPT !.path = val]
       [] attr = <<"expires">> -> [c EXCEPT !.expires = val]
       [] attr = <<"max-age">> -> [c EXCEPT !.maxAge = NumberIn(10, LeadingDigits(val))]
       [] attr = <<"sessionid">> -> [c EXCEPT !.sessionId = val]
       [] OTHER -> [c EXCEPT !.map = Put(@, attr, val)]

(* The loop of the constructor at i: the last symbol ends a pair whatever  *)
(* it is, and a second '=' starts a new key.                               *)
CookieStep(l, s) ==
  LET end == IF s[l.i] = ";" THEN l.i ELSE l.i + 1
      val == SubSeq(s, l.j, end - 1)
      next == Len(s) + 1 - Len(SkipSpaces(From(s, end + 1)))
  IN IF l.i > Len(s) THEN l
     ELSE IF l.i = Len(s) \/ s[l.i] = ";"
       THEN [i |-> next, j |-> next, key |-> <<>>,
             cookie |-> IF l.key = <<>> THEN Attribute(l.cookie, toLowers(val))
                                        ELSE KeyedAttribute(l.cookie, l.key, val)]
     ELSE IF s[l.i] = "="
       THEN [l EXCEPT !.i = l.i + 1, !.j = l.i + 1, !.key = SubSeq(s, l.j, l.i - 1)]
     ELSE [l EXCEPT !.i = l.i + 1]

HttpCookie(str) ==
  LET s == urlDecode(str)
      after[k \in 0 .. Len(s)] ==
        IF k = 0 THEN [i |-> 1, j |-> 1, key |-> <<>>, cookie |-> NoCookie]
                 ELSE CookieStep(after[k - 1], s)
  IN after[Len(s)].cookie

(* Texts one behind the other, with a separator between them.              *)
Joined(texts, split) ==
  LET upto[i \in 0 .. Len(texts)] ==
        IF i = 0 THEN <<>>
        ELSE upto[i - 1] \o (IF i = 1 THEN <<>> ELSE split) \o texts[i]
  IN upto[Len(texts)]

(* HttpCookie::toString: the pairs of the map, in an order of its own, and *)
(* the attributes that are set.                                            *)
CookieText(c) ==
  LET pairs == SetToSeq({key \o <<"=">> \o c.map[key] : key \in DOMAIN c.map})
      keyed(name, value) ==
        IF value = <<>> THEN <<>> ELSE <<";", " ", name, "=">> \o value
      flag(name, on) == IF on THEN <<";", " ", name>> ELSE <<>>
  IN Joined(pairs, <<";", " ">>)
     \o keyed("Expires", c.expires) \o keyed("Domain", c.domain)
     \o keyed("Path", c.path)
     \o keyed("Max-Age", IF c.maxAge > 0 THEN int2HexString(c.maxAge) ELSE <<>>)
     \o flag("Secure", c.secure) \o flag("HttpOnly", c.httpOnly)

=============================================================================
