-------------------------- MODULE HttpServerProofs --------------------------
(***************************************************************************)
(* Proofs about the HTTP server: in whatever pieces a request arrives, the *)
(* parser goes through the same iterations as on the whole text; and the   *)
(* client reads out of the bytes it gets the answer that was made.         *)
(***************************************************************************)
EXTENDS HttpAtOnce, HttpTextProofs, ConnectionProofs

(* What parseRequest can rely on, and keeps true.                          *)
WellFormed(r) ==
  /\ {"state", "header", "contentType", "hasContentLength", "contentLength", "boundary",
      "hasTransferEncoding", "chunked", "chunkedState", "chunkSize", "body"} \subseteq DOMAIN r
  /\ r.body \in Seq(Byte) /\ r.contentLength \in Nat /\ r.chunkSize \in Nat
  /\ r.header.length \in Nat
  /\ \A key \in DOMAIN r.header.map : r.header.map[key] \in Seq(Byte)
  /\ r.state \in {"CHECK_REQUESTLINE", "CHECK_HEADER"} => r.body = <<>>
  /\ AtSizedBody(r) => Len(r.body) <= r.contentLength

Phases == {"parse", "decode", "parts"}

(* What every iteration in front of the text v does.                       *)
Sound(did, r, v) ==
  /\ WellFormed(did.req)
  /\ did.next \in Phases \cup Verdicts
  /\ did.retrieved \in 0 .. Len(v)
  /\ did.next \in Verdicts => did.retrieved = 0
  /\ did.next \in {"BAD", "AGAIN"} => did.req = r
  /\ r.header.length <= did.req.header.length

LEMMA LimitsAreNumbers == ChunkDigits \in Nat /\ MaxLine \in Nat /\ MaxHeader \in Nat
BY HttpAssumption

LEMMA WordsAreBytes ==
  /\ "CR" \in Byte /\ "LF" \in Byte /\ ":" \in Byte /\ Blank \in Byte
  /\ CRLF \in Seq(Byte) /\ Len(CRLF) = 2
<1>1. Blank \in DOMAIN CodeOf /\ ":" \in DOMAIN CodeOf
  BY CodedSymbols
<1>2. {"CR", "LF"} \cup DOMAIN CodeOf \subseteq Byte
  BY HttpAssumption DEF Words
<1>3. "CR" \in Byte /\ "LF" \in Byte /\ ":" \in Byte /\ Blank \in Byte
  BY <1>1, <1>2
<1> QED BY <1>3 DEF CRLF

LEMMA EndsIsSound ==
  ASSUME NEW r, WellFormed(r), NEW v \in Seq(Byte), NEW n \in {"BAD", "AGAIN"}
  PROVE  Sound(Ends(r, n), r, v)
BY DEF Ends, Did, Sound, Verdicts, Phases, WellFormed

LEMMA GoesOn ==
  ASSUME NEW r, WellFormed(r), NEW new, WellFormed(new),
         r.header.length <= new.header.length,
         NEW v \in Seq(Byte), NEW k \in 0 .. Len(v), NEW next,
         next \in Phases \/ (next = "OK" /\ k = 0)
  PROVE  Sound(Did(new, k, next), r, v)
BY DEF Did, Sound, Verdicts, Phases

(* The end of the first line, if it is there.                              *)
LEMMA EndOfLine ==
  ASSUME NEW v \in Seq(Byte)
  PROVE  /\ Find(v, CRLF) \in Nat
         /\ Find(v, CRLF) > 0 => /\ Consumed(Find(v, CRLF)) \in 1 .. Len(v)
                                 /\ SubSeq(v, 1, Find(v, CRLF) - 1) \in Seq(Byte)
<1> DEFINE end == Find(v, CRLF)
<1>1. Len(v) \in Nat /\ CRLF \in Seq(Byte) /\ Len(CRLF) = 2
  BY WordsAreBytes
<1>2. end \in 0 .. Len(v) + 1 /\ (end > 0 => end <= Len(v) - Len(CRLF) + 1)
  BY <1>1, FindFacts
<1> HIDE DEF end
<1>3. end \in Nat /\ (end > 0 => end + 1 \in 1 .. Len(v) /\ end - 1 \in Int /\ end - 1 <= Len(v))
  BY <1>1, <1>2
<1>4. end > 0 => SubSeq(v, 1, end - 1) \in Seq(Byte)
  BY <1>3, PieceType
<1> QED BY <1>3, <1>4 DEF end, Consumed

LEMMA RequestLineSound ==
  ASSUME NEW r, WellFormed(r), NEW v \in Seq(Byte), AtLine(r)
  PROVE  Sound(parseRequestLine(r, v), r, v)
<1> DEFINE end == Find(v, CRLF)
           line == RequestLine(SubSeq(v, 1, end - 1))
           new == [r EXCEPT !.state = "CHECK_HEADER", !.method = line.method,
                            !.url = line.url, !.version = line.version]
<1>1. end \in Nat /\ (end > 0 => Consumed(end) \in 1 .. Len(v)) /\ Len(v) \in Nat
  BY EndOfLine
<1>2. \/ \E n \in {"BAD", "AGAIN"} : parseRequestLine(r, v) = Ends(r, n)
      \/ end > 0 /\ parseRequestLine(r, v) = Did(new, Consumed(end), "parse")
  <2> HIDE DEF new
  <2>1. parseRequestLine(r, v) =
          IF end = 0
            THEN Ends(r, IF v # <<>> /\ v[1] \notin MayBecomeALine THEN "BAD" ELSE "AGAIN")
          ELSE IF ~line.ok THEN Ends(r, "BAD")
          ELSE Did(new, Consumed(end), "parse")
    BY Zenon DEF parseRequestLine, new
  <2> HIDE DEF end, line
  <2> QED BY <1>1, <2>1
<1>3. WellFormed(new) /\ new.header = r.header
  <2> HIDE DEF line
  <2> QED BY DEF WellFormed, AtLine, AtContent, AtSizedBody
<1> HIDE DEF end, new
<1>4. end > 0 => Sound(Did(new, Consumed(end), "parse"), r, v)
  BY <1>1, <1>3 DEF Sound, Did, Verdicts, Phases, WellFormed
<1> QED BY <1>2, <1>4, EndsIsSound

LEMMA HeaderEndSound ==
  ASSUME NEW r, WellFormed(r), NEW v \in Seq(Byte), AtHeaderEnd(r, v)
  PROVE  Sound(parseHeaderEnd(r, v), r, v)
<1> DEFINE value == Field(r, "content-length")
<1>1. value \in Seq(Byte)
  BY DEF Field, Get, WellFormed
<1>2. parseContentLength(r) \in Nat
  <2> HIDE DEF value
  <2>1. LeadingDigits(value) \in Seq(DOMAIN hex2dec)
    BY <1>1, LeadingDigitsType
  <2>2. NumberIn(10, LeadingDigits(value)) \in Nat
    BY <2>1, NumberInNat
  <2> QED BY <2>2 DEF parseContentLength, value
<1>3. r.body = <<>>
  BY DEF AtHeaderEnd, WellFormed, AtContent
<1>4. WellFormed(WithHeader(r)) /\ WithHeader(r).header = r.header
  <2> DEFINE new == WithHeader(r)
  <2>1. /\ DOMAIN new = DOMAIN r /\ new.header = r.header /\ new.body = <<>>
        /\ new.contentLength = parseContentLength(r) /\ new.chunkSize = r.chunkSize
    BY <1>3 DEF WithHeader, WellFormed
  <2> HIDE DEF new
  <2>2. new.body \in Seq(Byte) /\ Len(new.body) = 0
    BY <2>1
  <2>3. AtSizedBody(new) => Len(new.body) <= new.contentLength
    BY <1>2, <2>1, <2>2
  <2>4. WellFormed(new)
    BY <1>2, <2>1, <2>2, <2>3 DEF WellFormed
  <2> QED BY <2>1, <2>4 DEF new
<1>5. Len(v) \in Nat /\ Len(v) >= 2
  BY WordsAreBytes DEF AtHeaderEnd, StartsWith
<1> QED BY <1>4, <1>5 DEF Sound, parseHeaderEnd, Did, Verdicts, Phases, WellFormed

LEMMA HeaderLineSound ==
  ASSUME NEW r, WellFormed(r), NEW v \in Seq(Byte), AtHeaderLine(r, v)
  PROVE  Sound(parseHeaderLine(r, v), r, v)
<1> DEFINE end == Find(v, CRLF)
           line == SubSeq(v, 1, end - 1)
           name == FieldName(line)
           value == FieldValue(line)
           new == [r EXCEPT !.header = AddField(@, name, value)]
<1>1. /\ end \in Nat /\ Len(v) \in Nat
      /\ end > 0 => Consumed(end) \in 1 .. Len(v) /\ line \in Seq(Byte)
  BY EndOfLine
<1>2. \/ \E n \in {"BAD", "AGAIN"} : parseHeaderLine(r, v) = Ends(r, n)
      \/ /\ end > 0 /\ Find(line, <<":">>) # 0
         /\ parseHeaderLine(r, v) = Did(new, Consumed(end), "parse")
  <2> HIDE DEF new
  <2>1. parseHeaderLine(r, v) =
          IF v # <<>> /\ r.header.length > MaxHeader THEN Ends(r, "BAD")
          ELSE IF end = 0 THEN Ends(r, "AGAIN")
          ELSE IF Find(line, <<":">>) = 0 THEN Ends(r, "BAD")
          ELSE Did(new, Consumed(end), "parse")
    BY Zenon DEF parseHeaderLine, new
  <2> HIDE DEF end, line
  <2> QED BY <1>1, <2>1
<1>3. ASSUME end > 0, Find(line, <<":">>) # 0
      PROVE  WellFormed(new) /\ r.header.length <= new.header.length
  <2>1. line \in Seq(Byte) /\ Find(line, <<":">>) > 0
    <3>1. <<":">> \in Seq(Byte)
      BY WordsAreBytes
    <3>2. line \in Seq(Byte)
      BY <1>1, <1>3
    <3> HIDE DEF line
    <3>3. Find(line, <<":">>) \in 0 .. Len(line) + 1
      BY <3>1, <3>2, FindFacts
    <3>4. Len(line) \in Nat
      BY <3>2
    <3> QED BY <1>3, <3>2, <3>3, <3>4
  <2>2. name \in Seq(Byte) /\ value \in Seq(Byte)
    <3> HIDE DEF line
    <3> QED BY <2>1, WordsAreBytes, FieldTypes
  <2> HIDE DEF name, value
  <2>3. Len(name) \in Nat /\ Len(value) \in Nat
    BY <2>2
  <2>4. /\ AddField(r.header, name, value).length = r.header.length + Len(name) + Len(value)
        /\ AddField(r.header, name, value).map = Put(r.header.map, toLowers(name), value)
    BY DEF AddField
  <2>5. \A key \in DOMAIN Put(r.header.map, toLowers(name), value) :
          Put(r.header.map, toLowers(name), value)[key] \in Seq(Byte)
    BY <2>2 DEF Put, WellFormed
  <2>6. new.header = AddField(r.header, name, value) /\ DOMAIN new = DOMAIN r
    BY DEF WellFormed
  <2>7. WellFormed(new)
    BY <2>3, <2>4, <2>5, <2>6 DEF WellFormed, AtContent, AtSizedBody
  <2> QED BY <2>3, <2>4, <2>6, <2>7 DEF WellFormed
<1> HIDE DEF end, line, new
<1>4. end > 0 /\ Find(line, <<":">>) # 0 => Sound(Did(new, Consumed(end), "parse"), r, v)
  BY <1>1, <1>3 DEF Sound, Did, Verdicts, Phases, WellFormed
<1> QED BY <1>2, <1>4, EndsIsSound

(* The window in which the size of a chunk is looked for.                  *)
Window(v) == SubSeq(v, 1, IF Len(v) < ChunkDigits + 2 THEN Len(v) ELSE ChunkDigits + 2)

LEMMA WindowFacts ==
  ASSUME NEW v \in Seq(Byte)
  PROVE  /\ Window(v) \in Seq(Byte)
         /\ Len(Window(v)) = IF Len(v) < ChunkDigits + 2 THEN Len(v) ELSE ChunkDigits + 2
         /\ \A m, n \in Int : 1 <= m /\ n <= Len(Window(v))
                                => SubSeq(Window(v), m, n) = SubSeq(v, m, n)
<1> DEFINE k == IF Len(v) < ChunkDigits + 2 THEN Len(v) ELSE ChunkDigits + 2
           w == SubSeq(v, 1, k)
<1>1. k \in Nat /\ k <= Len(v) /\ Len(v) \in Nat
  BY LimitsAreNumbers
<1>2. Window(v) = w
  BY DEF Window
<1>3. w \in Seq(Byte) /\ Len(w) = k
  <2> HIDE DEF k
  <2>1. k \in Int /\ 1 \in Int /\ 1 <= 1
    BY <1>1
  <2>2. w \in Seq(Byte) /\ Len(w) = IF 1 <= k THEN k - 1 + 1 ELSE 0
    BY <1>1, <2>1, PieceType
  <2> HIDE DEF w
  <2> QED BY <1>1, <2>2
<1>4. ASSUME NEW m \in Int, NEW n \in Int, 1 <= m, n <= k
      PROVE  SubSeq(w, m, n) = SubSeq(v, m, n)
  <2> DEFINE rest == SubSeq(v, k + 1, Len(v))
  <2> HIDE DEF k
  <2>1. rest \in Seq(Byte)
    <3>1. k + 1 \in Int /\ 1 <= k + 1 /\ Len(v) \in Int /\ Len(v) <= Len(v)
      BY <1>1
    <3> QED BY <3>1, PieceType
  <2>2. w \o rest = v
    <3>1. 1 \in 1 .. Len(v) + 1 /\ k \in 1 - 1 .. Len(v) /\ Len(v) \in k .. Len(v)
      BY <1>1
    <3>2. SubSeq(v, 1, k) \o SubSeq(v, k + 1, Len(v)) = SubSeq(v, 1, Len(v))
      BY <3>1, ConcatAdjacentSubSeq
    <3> QED BY <3>2, SubSeqFull
  <2> HIDE DEF w, rest
  <2> QED BY <1>3, <1>4, <2>1, <2>2, PieceKept
<1> HIDE DEF w
<1> QED BY <1>2, <1>3, <1>4 DEF k

LEMMA WindowLength ==
  ASSUME NEW v \in Seq(Byte)
  PROVE  /\ Window(v) \in Seq(Byte) /\ Len(Window(v)) \in Nat
         /\ Len(v) \in Nat /\ Len(Window(v)) <= Len(v)
<1>1. /\ Window(v) \in Seq(Byte)
      /\ Len(Window(v)) = IF Len(v) < ChunkDigits + 2 THEN Len(v) ELSE ChunkDigits + 2
  BY WindowFacts, Zenon
<1>2. Len(v) \in Nat
  OBVIOUS
<1> DEFINE w == Window(v)
<1> HIDE DEF w
<1>3. ASSUME NEW l \in Nat, Len(w) = IF l < ChunkDigits + 2 THEN l ELSE ChunkDigits + 2
      PROVE  Len(w) \in Nat /\ Len(w) <= l
  BY <1>3, LimitsAreNumbers
<1> QED BY <1>1, <1>2, <1>3, Zenon DEF w

LEMMA ChunkSizeSound ==
  ASSUME NEW r, WellFormed(r), NEW v \in Seq(Byte), AtChunk(r, "NO_LEN")
  PROVE  Sound(parseChunkSize(r, v), r, v)
<1> DEFINE end == Find(Window(v), CRLF)
           size == hexString2Int(SubSeq(v, 1, end - 1))
           new == [r EXCEPT !.chunkSize = size,
                            !.chunkedState = IF size = 0 THEN "DONE" ELSE "NO_DATA"]
<1>1. /\ end \in Nat /\ Len(v) \in Nat
      /\ end > 0 => Consumed(end) \in 1 .. Len(v) /\ SubSeq(v, 1, end - 1) \in Seq(Byte)
  <2> DEFINE w == Window(v)
  <2>1. w \in Seq(Byte) /\ Len(w) \in Nat /\ Len(v) \in Nat /\ Len(w) <= Len(v)
    BY WindowLength, Zenon
  <2> HIDE DEF w
  <2>2. end \in Nat /\ (end > 0 => Consumed(end) \in 1 .. Len(w))
    BY <2>1, EndOfLine DEF w
  <2> HIDE DEF end
  <2>3. end > 0 => end - 1 \in Int /\ end - 1 <= Len(v) /\ 1 \in Int /\ 1 <= 1
    BY <2>1, <2>2 DEF Consumed
  <2>4. end > 0 => SubSeq(v, 1, end - 1) \in Seq(Byte)
    BY <2>3, PieceType
  <2> QED BY <2>1, <2>2, <2>4
<1>2. \/ \E n \in {"BAD", "AGAIN"} : parseChunkSize(r, v) = Ends(r, n)
      \/ /\ end > 0 /\ size # -1
         /\ parseChunkSize(r, v) = Did(new, Consumed(end), "parse")
  <2> HIDE DEF new
  <2>1. parseChunkSize(r, v) = IF end = 0 THEN Ends(r, "AGAIN")
                               ELSE IF size = -1 THEN Ends(r, "BAD")
                               ELSE Did(new, Consumed(end), "parse")
    BY Zenon DEF parseChunkSize, new, Window
  <2> HIDE DEF end, size
  <2> QED BY <1>1, <2>1
<1>3. end > 0 /\ size # -1 => size \in Nat
  BY <1>1, SizeOfChunkType
<1>4. size \in Nat => WellFormed(new) /\ new.header = r.header
  <2> HIDE DEF size
  <2>1. /\ DOMAIN new = DOMAIN r /\ new.header = r.header /\ new.body = r.body
        /\ new.contentLength = r.contentLength /\ new.chunkSize = size
        /\ new.state = r.state /\ new.hasTransferEncoding = r.hasTransferEncoding
    BY DEF WellFormed
  <2> HIDE DEF new
  <2> QED BY <2>1 DEF WellFormed, AtContent, AtSizedBody, AtChunk
<1> HIDE DEF end, size, new
<1>5. end > 0 /\ size # -1 => Sound(Did(new, Consumed(end), "parse"), r, v)
  BY <1>1, <1>3, <1>4 DEF Sound, Did, Verdicts, Phases, WellFormed
<1> QED BY <1>2, <1>5, EndsIsSound

LEMMA ChunkDataSound ==
  ASSUME NEW r, WellFormed(r), NEW v \in Seq(Byte), AtChunk(r, "NO_DATA")
  PROVE  Sound(parseChunkData(r, v), r, v)
<1> DEFINE data == SubSeq(v, 1, r.chunkSize)
           new == [r EXCEPT !.body = @ \o data, !.chunkedState = "NO_LEN"]
<1>1. \/ \E n \in {"BAD", "AGAIN"} : parseChunkData(r, v) = Ends(r, n)
      \/ ~ChunkIsMissing(r, v) /\ parseChunkData(r, v) = Did(new, r.chunkSize + 2, "parse")
  BY DEF parseChunkData
<1>2. Len(v) \in Nat /\ r.chunkSize \in Nat /\ r.body \in Seq(Byte)
  BY DEF WellFormed
<1>3. ASSUME ~ChunkIsMissing(r, v)
      PROVE  Sound(Did(new, r.chunkSize + 2, "parse"), r, v)
  <2>1. r.chunkSize + 2 \in 0 .. Len(v)
    BY <1>2, <1>3 DEF ChunkIsMissing
  <2>2. data \in Seq(Byte)
    <3>1. r.chunkSize \in Int /\ 1 \in Int /\ 1 <= 1 /\ r.chunkSize <= Len(v)
      BY <1>2, <2>1
    <3> QED BY <3>1, PieceType
  <2> HIDE DEF data
  <2>3. r.body \o data \in Seq(Byte)
    BY <1>2, <2>2, ConcatProperties
  <2>4. /\ DOMAIN new = DOMAIN r /\ new.header = r.header /\ new.body = r.body \o data
        /\ new.contentLength = r.contentLength /\ new.chunkSize = r.chunkSize
        /\ new.state = r.state /\ new.hasTransferEncoding = r.hasTransferEncoding
    BY DEF WellFormed
  <2> HIDE DEF new
  <2>5. WellFormed(new)
    BY <2>3, <2>4 DEF WellFormed, AtContent, AtSizedBody, AtChunk
  <2>6. r.header.length <= new.header.length /\ "parse" \in Phases
    BY <2>4 DEF WellFormed, Phases
  <2> QED BY <2>1, <2>5, <2>6, GoesOn
<1> QED BY <1>1, <1>3, EndsIsSound

LEMMA LastChunkSound ==
  ASSUME NEW r, WellFormed(r), NEW v \in Seq(Byte)
  PROVE  Sound(parseLastChunk(r, v), r, v)
<1>1. \/ \E n \in {"BAD", "AGAIN"} : parseLastChunk(r, v) = Ends(r, n)
      \/ Len(v) >= 2 /\ parseLastChunk(r, v) = Did(r, 2, "decode")
  BY DEF parseLastChunk
<1>2. Len(v) >= 2 => Sound(Did(r, 2, "decode"), r, v)
  BY DEF Sound, Did, Verdicts, Phases, WellFormed
<1> QED BY <1>1, <1>2, EndsIsSound

LEMMA SizedBodySound ==
  ASSUME NEW r, WellFormed(r), NEW v \in Seq(Byte), AtSizedBody(r)
  PROVE  Sound(parseSizedBody(r, v), r, v)
<1> DEFINE size == r.contentLength - Len(r.body)
           data == SubSeq(v, 1, size)
           new == [r EXCEPT !.body = @ \o data]
<1>1. \/ parseSizedBody(r, v) = Ends(r, "AGAIN")
      \/ ~BodyIsMissing(r, v) /\ parseSizedBody(r, v) = Did(new, size, "decode")
  BY DEF parseSizedBody
<1>2. /\ Len(v) \in Nat /\ r.contentLength \in Nat /\ r.body \in Seq(Byte)
      /\ Len(r.body) \in Nat /\ size \in Nat
  BY DEF WellFormed
<1>3. ASSUME ~BodyIsMissing(r, v) PROVE Sound(Did(new, size, "decode"), r, v)
  <2>1. size \in 0 .. Len(v)
    BY <1>2, <1>3 DEF BodyIsMissing
  <2>2. data \in Seq(Byte) /\ Len(data) = size
    <3> HIDE DEF size
    <3>1. size \in Int /\ 1 \in Int /\ 1 <= 1 /\ size <= Len(v)
      BY <1>2, <2>1
    <3>2. data \in Seq(Byte) /\ Len(data) = IF 1 <= size THEN size - 1 + 1 ELSE 0
      BY <3>1, PieceType
    <3> HIDE DEF data
    <3> QED BY <2>1, <3>2
  <2> HIDE DEF data
  <2>3. r.body \o data \in Seq(Byte) /\ Len(r.body \o data) = r.contentLength
    <3>1. Len(r.body) + size = r.contentLength
      BY <1>2
    <3> HIDE DEF size
    <3> QED BY <1>2, <2>2, <3>1, ConcatProperties
  <2>4. /\ DOMAIN new = DOMAIN r /\ new.header = r.header /\ new.body = r.body \o data
        /\ new.contentLength = r.contentLength /\ new.chunkSize = r.chunkSize
        /\ new.state = r.state
    BY DEF WellFormed
  <2> HIDE DEF new, size
  <2>5. WellFormed(new)
    BY <1>2, <2>3, <2>4 DEF WellFormed, AtContent, AtSizedBody
  <2>6. r.header.length <= new.header.length /\ "decode" \in Phases
    BY <2>4 DEF WellFormed, Phases
  <2> QED BY <2>1, <2>5, <2>6, GoesOn
<1>4. Sound(Ends(r, "AGAIN"), r, v)
  BY EndsIsSound
<1> QED BY <1>1, <1>3, <1>4

(* What ends a request, and the reader of its parts.                       *)
LEMMA EndOfContentSound ==
  ASSUME NEW r, WellFormed(r), NEW v \in Seq(Byte)
  PROVE  /\ Sound(parseNoBody(r), r, v)
         /\ Sound(decodeContent(r), r, v)
         /\ Sound(decodePart(r), r, v)
         /\ Sound(decodeMultipart(r), r, v)
<1>0. 0 \in 0 .. Len(v) /\ r.header.length <= r.header.length
  BY DEF WellFormed
<1> DEFINE done == [r EXCEPT !.state = "CHECK_DONE"]
<1>1. WellFormed(done) /\ done.header = r.header
  BY DEF WellFormed, AtContent, AtSizedBody
<1>2. Sound(Ends(done, "OK"), r, v)
  <2> HIDE DEF done
  <2> QED BY <1>0, <1>1, GoesOn DEF Ends
<1>3. Sound(parseNoBody(r), r, v)
  BY <1>2, EndsIsSound DEF parseNoBody
<1>4. Sound(decodeContent(r), r, v)
  <2> PICK form, json :
        decodeContent(r) = Ends([r EXCEPT !.state = "CHECK_DONE", !.form = form, !.json = json], "OK")
    BY Zenon DEF decodeContent
  <2> DEFINE new == [r EXCEPT !.state = "CHECK_DONE", !.form = form, !.json = json]
  <2>1. WellFormed(new) /\ new.header = r.header
    BY DEF WellFormed, AtContent, AtSizedBody
  <2>2. decodeContent(r) = Did(new, 0, "OK")
    BY DEF Ends
  <2> HIDE DEF new
  <2> QED BY <1>0, <2>1, <2>2, GoesOn
<1>5. Sound(decodePart(r), r, v)
  <2> DEFINE new == [r EXCEPT !.multipart = PartStep(r.body, r.boundary, @)]
  <2>1. WellFormed(new) /\ new.header = r.header
    BY DEF WellFormed, AtContent, AtSizedBody
  <2>2. decodePart(r) = Ends(done, "OK") \/ decodePart(r) = Did(new, 0, "parts")
    BY DEF decodePart
  <2> HIDE DEF new, done
  <2>3. Sound(Did(new, 0, "parts"), r, v)
    BY <1>0, <2>1, GoesOn DEF Phases
  <2> QED BY <1>2, <2>2, <2>3
<1>6. Sound(decodeMultipart(r), r, v)
  <2>1. decodeMultipart(r) = Ends(r, "AGAIN") \/ decodeMultipart(r) = Did(r, 0, "parts")
    BY DEF decodeMultipart
  <2>2. Sound(Did(r, 0, "parts"), r, v)
    BY <1>0, GoesOn DEF Phases
  <2> QED BY <2>1, <2>2, EndsIsSound
<1> QED BY <1>3, <1>4, <1>5, <1>6

(* An iteration leaves the request well formed, and retrieves no more than *)
(* there is.                                                               *)
LEMMA IterationSound ==
  ASSUME NEW p \in Phases, NEW r, WellFormed(r), NEW v \in Seq(Byte)
  PROVE  /\ Sound(Iteration(p, r, v), r, v)
         /\ p # "parse" => Iteration(p, r, v).retrieved = 0
<1>1. CASE p # "parse"
  <2>1. Iteration(p, r, v) \in {decodeMultipart(r), decodeContent(r), decodePart(r)}
    BY <1>1 DEF Iteration, Phases
  <2>2. Sound(Iteration(p, r, v), r, v)
    BY <2>1, EndOfContentSound
  <2>3. /\ decodeMultipart(r).retrieved = 0 /\ decodeContent(r).retrieved = 0
        /\ decodePart(r).retrieved = 0
    BY DEF decodeMultipart, decodeContent, decodePart, Ends, Did
  <2> QED BY <2>1, <2>2, <2>3
<1>2. CASE p = "parse"
  <2>1. CASE AtLine(r)
    BY <1>2, <2>1, RequestLineSound DEF Iteration
  <2>2. CASE ~AtLine(r) /\ AtHeaderEnd(r, v)
    <3>1. Sound(Did(r, 0, p), r, v)
      <4>1. 0 \in 0 .. Len(v) /\ r.header.length <= r.header.length
        BY DEF WellFormed
      <4> QED BY <4>1, GoesOn
    <3>2. Sound(parseHeaderEnd(r, v), r, v)
      BY <2>2, HeaderEndSound
    <3> QED BY <1>2, <2>2, <3>1, <3>2 DEF Iteration
  <2>3. CASE ~AtLine(r) /\ ~AtHeaderEnd(r, v) /\ AtHeaderLine(r, v)
    BY <1>2, <2>3, HeaderLineSound DEF Iteration
  <2>4. CASE ~AtLine(r) /\ ~AtHeaderEnd(r, v) /\ ~AtHeaderLine(r, v)
    <3>1. Iteration(p, r, v) =
            IF AtChunk(r, "NO_LEN") THEN parseChunkSize(r, v)
            ELSE IF AtChunk(r, "NO_DATA") THEN parseChunkData(r, v)
            ELSE IF AtChunk(r, "DONE") THEN parseLastChunk(r, v)
            ELSE IF AtSizedBody(r) THEN parseSizedBody(r, v)
            ELSE parseNoBody(r)
      BY <1>2, <2>4 DEF Iteration
    <3> QED BY <1>2, <3>1, ChunkSizeSound, ChunkDataSound, LastChunkSound, SizedBodySound,
               EndOfContentSound
  <2> QED BY <1>2, <2>1, <2>2, <2>3, <2>4
<1> QED BY <1>1, <1>2

-----------------------------------------------------------------------------
(* What an iteration did in front of a part of the text, it does in front  *)
(* of the whole, unless it has to wait.                                    *)
LEMMA RequestLineKept ==
  ASSUME NEW r, NEW v \in Seq(Byte), NEW x \in Seq(Byte),
         parseRequestLine(r, v).next # "AGAIN"
  PROVE  parseRequestLine(r, v \o x) = parseRequestLine(r, v)
<1> DEFINE Line(t) == RequestLine(SubSeq(t, 1, Find(t, CRLF) - 1))
           By(t) == IF Find(t, CRLF) = 0
                      THEN Ends(r, IF t # <<>> /\ t[1] \notin MayBecomeALine THEN "BAD" ELSE "AGAIN")
                    ELSE IF ~Line(t).ok THEN Ends(r, "BAD")
                    ELSE Did([r EXCEPT !.state = "CHECK_HEADER", !.method = Line(t).method,
                                       !.url = Line(t).url, !.version = Line(t).version],
                             Consumed(Find(t, CRLF)), "parse")
<1>1. parseRequestLine(r, v) = By(v) /\ parseRequestLine(r, v \o x) = By(v \o x)
  BY Zenon DEF parseRequestLine
<1>2. Find(v, CRLF) \in Nat /\ Find(v \o x, CRLF) \in Nat
  BY EndOfLine, ConcatProperties
<1>3. CASE Find(v, CRLF) > 0
  <2>1. Find(v \o x, CRLF) = Find(v, CRLF)
    BY <1>3, WordsAreBytes, FindKept
  <2>2. SubSeq(v \o x, 1, Find(v, CRLF) - 1) = SubSeq(v, 1, Find(v, CRLF) - 1)
    <3>1. /\ 1 \in Int /\ 1 <= 1 /\ Find(v, CRLF) - 1 \in Int
          /\ Find(v, CRLF) - 1 <= Len(v)
      BY <1>3, EndOfLine DEF Consumed
    <3> QED BY <3>1, PieceKept
  <2>3. Line(v \o x) = Line(v)
    BY <2>1, <2>2
  <2> HIDE DEF Line
  <2>4. By(v \o x) = By(v)
    BY <1>2, <1>3, <2>1, <2>3
  <2> QED BY <1>1, <2>4
<1>4. CASE Find(v, CRLF) = 0
  <2> DEFINE t == v \o x
  <2>1. v # <<>> /\ v[1] \notin MayBecomeALine /\ By(v) = Ends(r, "BAD")
    <3> HIDE DEF Line
    <3>1. By(v) = Ends(r, IF v # <<>> /\ v[1] \notin MayBecomeALine THEN "BAD" ELSE "AGAIN")
      BY <1>4
    <3>2. Ends(r, "AGAIN").next = "AGAIN"
      BY DEF Ends, Did
    <3> HIDE DEF By
    <3> QED BY <1>1, <3>1, <3>2
  <2>2. t # <<>> /\ t[1] = v[1] /\ t \in Seq(Byte) /\ Len(t) \in Nat /\ Len(t) > 0
    BY <2>1, ConcatProperties
  <2> HIDE DEF t
  <2>3. CASE Find(t, CRLF) = 0
    <3> HIDE DEF Line
    <3>1. By(t) = Ends(r, "BAD")
      BY <2>1, <2>2, <2>3
    <3> HIDE DEF By
    <3> QED BY <1>1, <2>1, <3>1 DEF t
  <2>4. CASE Find(t, CRLF) > 0
    <3> DEFINE line == SubSeq(t, 1, Find(t, CRLF) - 1)
    <3>1. line = <<>> \/ line[1] = v[1]
      <4>1. /\ 1 \in Int /\ 1 <= 1 /\ Find(t, CRLF) - 1 \in Int
            /\ Find(t, CRLF) - 1 <= Len(t)
        BY <2>2, <2>4, EndOfLine DEF Consumed
      <4>2. /\ line \in Seq(Byte) /\ Len(line) \in Nat
            /\ \A i \in 1 .. Find(t, CRLF) - 1 - 1 + 1 : line[i] = t[1 + i - 1]
            /\ Len(line) = IF 1 <= Find(t, CRLF) - 1 THEN Find(t, CRLF) - 1 - 1 + 1 ELSE 0
        BY <2>2, <4>1, PieceType
      <4> HIDE DEF line
      <4>3. CASE 1 <= Find(t, CRLF) - 1
        <5>1. 1 \in 1 .. Find(t, CRLF) - 1 - 1 + 1
          BY <4>1, <4>3
        <5>2. line[1] = t[1 + 1 - 1]
          BY <4>2, <5>1
        <5> QED BY <2>2, <5>2
      <4>4. CASE ~(1 <= Find(t, CRLF) - 1)
        BY <4>2, <4>4
      <4> QED BY <4>3, <4>4
    <3>2. ~RequestLine(line).ok
      <4>1. ~(line # <<>> /\ line[1] \in Methods)
        <5> HIDE DEF line
        <5> QED BY <2>1, <3>1 DEF MayBecomeALine
      <4>2. RequestLine(line) = [ok |-> FALSE]
        <5> HIDE DEF line
        <5> QED BY <4>1, Zenon DEF RequestLine
      <4> HIDE DEF line
      <4> QED BY <4>2
    <3>3. By(t) = Ends(r, "BAD")
      <4>1. ~Line(t).ok
        BY <3>2
      <4> HIDE DEF Line, line
      <4> QED BY <2>4, <4>1
    <3> HIDE DEF By
    <3> QED BY <1>1, <2>1, <3>3 DEF t
  <2>5. Find(t, CRLF) \in Nat
    BY <1>2 DEF t
  <2> QED BY <2>3, <2>4, <2>5
<1> QED BY <1>2, <1>3, <1>4

LEMMA HeaderLineKept ==
  ASSUME NEW r, NEW v \in Seq(Byte), NEW x \in Seq(Byte),
         ~(r.header.length > MaxHeader), parseHeaderLine(r, v).next # "AGAIN"
  PROVE  /\ parseHeaderLine(r, v \o x) = parseHeaderLine(r, v)
         /\ Len(v) >= 2
<1> DEFINE Line(t) == SubSeq(t, 1, Find(t, CRLF) - 1)
           By(t) == IF Find(t, CRLF) = 0 THEN Ends(r, "AGAIN")
                    ELSE IF Find(Line(t), <<":">>) = 0 THEN Ends(r, "BAD")
                    ELSE Did([r EXCEPT !.header = AddField(@, FieldName(Line(t)), FieldValue(Line(t)))],
                             Consumed(Find(t, CRLF)), "parse")
<1>1. parseHeaderLine(r, v) = By(v) /\ parseHeaderLine(r, v \o x) = By(v \o x)
  BY Zenon DEF parseHeaderLine
<1>2. Find(v, CRLF) > 0
  <2>1. By(v).next # "AGAIN" /\ Ends(r, "AGAIN").next = "AGAIN"
    BY <1>1 DEF Ends, Did
  <2>2. Find(v, CRLF) # 0
    BY <2>1
  <2> HIDE DEF By
  <2> QED BY <2>2, EndOfLine
<1>3. Find(v \o x, CRLF) = Find(v, CRLF)
  BY <1>2, WordsAreBytes, FindKept
<1>4. Consumed(Find(v, CRLF)) \in 1 .. Len(v) /\ Find(v, CRLF) \in Nat
  BY <1>2, EndOfLine
<1>5. Line(v \o x) = Line(v)
  <2>1. 1 \in Int /\ 1 <= 1 /\ Find(v, CRLF) - 1 \in Int /\ Find(v, CRLF) - 1 <= Len(v)
    BY <1>4 DEF Consumed
  <2> QED BY <1>3, <2>1, PieceKept
<1>6. Len(v) >= 2
  BY <1>2, <1>4 DEF Consumed
<1> HIDE DEF Line
<1>7. By(v \o x) = By(v)
  BY <1>3, <1>5
<1> QED BY <1>1, <1>6, <1>7

(* The window on a longer text begins with the window on the text.         *)
LEMMA WindowKept ==
  ASSUME NEW v \in Seq(Byte), NEW x \in Seq(Byte)
  PROVE  \E y \in Seq(Byte) : Window(v \o x) = Window(v) \o y
<1> DEFINE t == v \o x
           k == IF Len(v) < ChunkDigits + 2 THEN Len(v) ELSE ChunkDigits + 2
           l == IF Len(t) < ChunkDigits + 2 THEN Len(t) ELSE ChunkDigits + 2
           y == SubSeq(t, k + 1, l)
<1>1. t \in Seq(Byte) /\ Len(t) = Len(v) + Len(x) /\ Len(v) \in Nat /\ Len(x) \in Nat
  BY ConcatProperties
<1>2. k \in Nat /\ l \in Nat /\ k <= l /\ k <= Len(v) /\ l <= Len(t)
  <2> HIDE DEF t
  <2> QED BY <1>1, LimitsAreNumbers
<1>3. Window(v) = SubSeq(v, 1, k) /\ Window(t) = SubSeq(t, 1, l)
  BY DEF Window
<1> HIDE DEF k, l
<1>4. SubSeq(t, 1, k) = SubSeq(v, 1, k)
  BY <1>2, PieceKept
<1> HIDE DEF t
<1>5. SubSeq(t, 1, k) \o y = SubSeq(t, 1, l)
  <2>1. 1 \in 1 .. Len(t) + 1 /\ k \in 1 - 1 .. Len(t) /\ l \in k .. Len(t)
    BY <1>1, <1>2
  <2> QED BY <1>1, <2>1, ConcatAdjacentSubSeq
<1>6. y \in Seq(Byte)
  <2>1. k + 1 \in Int /\ l \in Int /\ 1 <= k + 1
    BY <1>2
  <2> QED BY <1>1, <1>2, <2>1, PieceType
<1> QED BY <1>3, <1>4, <1>5, <1>6 DEF t

LEMMA ChunkSizeKept ==
  ASSUME NEW r, NEW v \in Seq(Byte), NEW x \in Seq(Byte),
         parseChunkSize(r, v).next # "AGAIN"
  PROVE  parseChunkSize(r, v \o x) = parseChunkSize(r, v)
<1> DEFINE End(t) == Find(Window(t), CRLF)
           Size(t) == hexString2Int(SubSeq(t, 1, End(t) - 1))
           By(t) == IF End(t) = 0 THEN Ends(r, "AGAIN")
                    ELSE IF Size(t) = -1 THEN Ends(r, "BAD")
                    ELSE Did([r EXCEPT !.chunkSize = Size(t),
                                       !.chunkedState = IF Size(t) = 0 THEN "DONE" ELSE "NO_DATA"],
                             Consumed(End(t)), "parse")
<1>1. parseChunkSize(r, v) = By(v) /\ parseChunkSize(r, v \o x) = By(v \o x)
  BY Zenon DEF parseChunkSize, Window
<1>2. /\ Window(v) \in Seq(Byte) /\ Len(Window(v)) \in Nat /\ Len(Window(v)) <= Len(v)
      /\ Len(v) \in Nat
  BY WindowLength, Zenon
<1>3. End(v) > 0
  <2>1. By(v).next # "AGAIN" /\ Ends(r, "AGAIN").next = "AGAIN"
    BY <1>1 DEF Ends, Did
  <2>2. End(v) # 0
    BY <2>1
  <2> HIDE DEF By
  <2> QED BY <1>2, <2>2, EndOfLine
<1>4. End(v \o x) = End(v)
  <2>1. PICK y \in Seq(Byte) : Window(v \o x) = Window(v) \o y
    BY WindowKept
  <2>2. Find(Window(v) \o y, CRLF) = Find(Window(v), CRLF)
    BY <1>2, <1>3, WordsAreBytes, FindKept
  <2> QED BY <2>1, <2>2
<1>5. Size(v \o x) = Size(v)
  <2>1. Consumed(End(v)) \in 1 .. Len(Window(v)) /\ End(v) \in Nat
    BY <1>2, <1>3, EndOfLine
  <2>2. 1 \in Int /\ 1 <= 1 /\ End(v) - 1 \in Int /\ End(v) - 1 <= Len(v)
    <3> HIDE DEF End
    <3> QED BY <1>2, <2>1 DEF Consumed
  <2>3. SubSeq(v \o x, 1, End(v) - 1) = SubSeq(v, 1, End(v) - 1)
    <3> HIDE DEF End
    <3> QED BY <2>2, PieceKept
  <2> QED BY <1>4, <2>3
<1> HIDE DEF End, Size
<1>6. By(v \o x) = By(v)
  BY <1>4, <1>5
<1> QED BY <1>1, <1>6

LEMMA ChunkDataKept ==
  ASSUME NEW r, WellFormed(r), NEW v \in Seq(Byte), NEW x \in Seq(Byte),
         parseChunkData(r, v).next # "AGAIN"
  PROVE  parseChunkData(r, v \o x) = parseChunkData(r, v)
<1> DEFINE n == r.chunkSize
           t == v \o x
<1>1. /\ t \in Seq(Byte) /\ Len(t) = Len(v) + Len(x) /\ Len(v) \in Nat /\ Len(x) \in Nat
      /\ n \in Nat
  BY ConcatProperties DEF WellFormed
<1>2. ~ChunkIsMissing(r, v)
  BY DEF parseChunkData, Ends, Did
<1>3. n + 2 <= Len(v) /\ ~ChunkIsMissing(r, t)
  BY <1>1, <1>2 DEF ChunkIsMissing
<1>4. StartsWith(From(t, n + 1), CRLF) <=> StartsWith(From(v, n + 1), CRLF)
  <2>1. From(t, n + 1) = From(v, n + 1) \o x
    <3>1. n + 1 \in 1 .. Len(v) + 1
      BY <1>1, <1>3
    <3> QED BY <3>1, RestKept
  <2>2. From(v, n + 1) \in Seq(Byte) /\ Len(From(v, n + 1)) >= 2
    <3>1. n + 1 \in Nat \ {0} /\ Len(v) - (n + 1) + 1 >= 2 /\ n + 1 <= Len(v)
      BY <1>1, <1>3
    <3> HIDE DEF n
    <3> QED BY <3>1, RestType
  <2> DEFINE u == From(v, n + 1)
  <2>3. u \in Seq(Byte) /\ Len(CRLF) <= Len(u) /\ CRLF \in Seq(Byte)
    BY <2>2, WordsAreBytes
  <2>4. From(t, n + 1) = u \o x
    BY <2>1
  <2> HIDE DEF u
  <2>5. StartsWith(u \o x, CRLF) <=> StartsWith(u, CRLF)
    BY <2>3, StartKept
  <2> QED BY <2>4, <2>5 DEF u
<1>5. SubSeq(t, 1, n) = SubSeq(v, 1, n)
  <2>1. 1 \in Int /\ 1 <= 1 /\ n \in Int /\ n <= Len(v)
    BY <1>1, <1>3
  <2> QED BY <2>1, PieceKept
<1>6. parseChunkData(r, t) = parseChunkData(r, v)
  <2> HIDE DEF t
  <2> QED BY <1>2, <1>3, <1>4, <1>5, Zenon DEF parseChunkData
<1> QED BY <1>6

LEMMA LastChunkKept ==
  ASSUME NEW r, NEW v \in Seq(Byte), NEW x \in Seq(Byte),
         parseLastChunk(r, v).next # "AGAIN"
  PROVE  parseLastChunk(r, v \o x) = parseLastChunk(r, v)
<1>1. Len(v \o x) = Len(v) + Len(x) /\ Len(v) \in Nat /\ Len(x) \in Nat
  BY ConcatProperties
<1>2. ~(Len(v) < 2)
  BY DEF parseLastChunk, Ends, Did
<1>3. ~(Len(v \o x) < 2)
  BY <1>1, <1>2
<1>4. StartsWith(v \o x, CRLF) <=> StartsWith(v, CRLF)
  BY <1>1, <1>2, StartKept, WordsAreBytes
<1> QED BY <1>2, <1>3, <1>4, Zenon DEF parseLastChunk

LEMMA SizedBodyKept ==
  ASSUME NEW r, WellFormed(r), AtSizedBody(r), NEW v \in Seq(Byte), NEW x \in Seq(Byte),
         parseSizedBody(r, v).next # "AGAIN"
  PROVE  parseSizedBody(r, v \o x) = parseSizedBody(r, v)
<1> DEFINE size == r.contentLength - Len(r.body)
<1>1. /\ Len(v \o x) = Len(v) + Len(x) /\ Len(v) \in Nat /\ Len(x) \in Nat
      /\ Len(r.body) \in Nat /\ r.contentLength \in Nat /\ size \in Nat
  BY ConcatProperties DEF WellFormed
<1>2. ~BodyIsMissing(r, v)
  BY DEF parseSizedBody, Ends, Did
<1>3. ~BodyIsMissing(r, v \o x) /\ size <= Len(v)
  <2>1. ~(r.contentLength > Len(r.body) + Len(v))
    BY <1>2 DEF BodyIsMissing
  <2>2. ~(r.contentLength > Len(r.body) + (Len(v) + Len(x))) /\ size <= Len(v)
    <3>1. \A a, b, c, d \in Nat :
            ~(a > b + c) => ~(a > b + (c + d)) /\ a - b <= c
      OBVIOUS
    <3> QED BY <1>1, <2>1, <3>1
  <2> QED BY <1>1, <2>2 DEF BodyIsMissing
<1>4. SubSeq(v \o x, 1, size) = SubSeq(v, 1, size)
  <2> HIDE DEF size
  <2>1. 1 \in Int /\ 1 <= 1 /\ size \in Int /\ size <= Len(v)
    BY <1>1, <1>3
  <2> QED BY <2>1, PieceKept
<1> QED BY <1>2, <1>3, <1>4, Zenon DEF parseSizedBody

(* The one exception: a header over its limit is refused although the line *)
(* behind it, of which the CR has arrived, may be the empty one.           *)
LEMMA IterationKept ==
  ASSUME NEW p \in Phases, NEW r, WellFormed(r), NEW v \in Seq(Byte), NEW x \in Seq(Byte),
         Iteration(p, r, v).next # "AGAIN",
         Iteration(p, r, v).next = "BAD" => ~(r.header.length > MaxHeader)
  PROVE  Iteration(p, r, v \o x) = Iteration(p, r, v)
<1>1. CASE p # "parse"
  BY <1>1, Zenon DEF Iteration, Phases
<1>2. CASE p = "parse" /\ AtLine(r)
  <2>1. \A t : Iteration(p, r, t) = parseRequestLine(r, t)
    BY <1>2 DEF Iteration
  <2> QED BY <2>1, RequestLineKept
<1>3. CASE p = "parse" /\ ~AtLine(r) /\ r.state = "CHECK_HEADER"
  <2>1. CASE StartsWith(v, CRLF)
    <3>1. Len(CRLF) <= Len(v) /\ CRLF \in Seq(Byte)
      BY <2>1, WordsAreBytes DEF StartsWith
    <3>2. StartsWith(v \o x, CRLF)
      BY <2>1, <3>1, StartKept
    <3>3. \A t : AtHeaderEnd(r, t) <=> StartsWith(t, CRLF)
      BY <1>3 DEF AtHeaderEnd
    <3>4. \A t : StartsWith(t, CRLF) =>
            Iteration(p, r, t) = IF StoulThrows(r) THEN Did(r, 0, p) ELSE Did(WithHeader(r), 2, "parse")
      BY <1>3, <3>3 DEF Iteration, parseHeaderEnd
    <3> QED BY <2>1, <3>2, <3>4
  <2>2. CASE ~StartsWith(v, CRLF)
    <3>1. \A t : ~StartsWith(t, CRLF) => Iteration(p, r, t) = parseHeaderLine(r, t)
      BY <1>3 DEF Iteration, AtHeaderEnd, AtHeaderLine
    <3>2. parseHeaderLine(r, v).next # "AGAIN"
      BY <2>2, <3>1
    <3>3. ~(r.header.length > MaxHeader) \/ Len(v) >= 2
      <4>1. CASE parseHeaderLine(r, v).next = "BAD"
        BY <2>2, <3>1, <4>1
      <4>2. CASE parseHeaderLine(r, v).next # "BAD"
        <5>1. ~(v # <<>> /\ r.header.length > MaxHeader)
          BY <4>2 DEF parseHeaderLine, Ends, Did
        <5>2. v # <<>>
          <6>1. ~(v # <<>> /\ r.header.length > MaxHeader) /\ Find(v, CRLF) = 0
                  => parseHeaderLine(r, v).next = "AGAIN"
            BY Zenon DEF parseHeaderLine, Ends, Did
          <6>2. Find(v, CRLF) # 0
            BY <3>2, <5>1, <6>1
          <6> QED BY <6>2, EndOfLine
        <5> QED BY <5>1, <5>2
      <4> QED BY <4>1, <4>2
    <3>4. CASE ~(r.header.length > MaxHeader)
      <4>1. parseHeaderLine(r, v \o x) = parseHeaderLine(r, v) /\ Len(v) >= 2
        BY <3>2, <3>4, HeaderLineKept
      <4>2. ~StartsWith(v \o x, CRLF)
        BY <2>2, <4>1, StartKept, WordsAreBytes
      <4> QED BY <2>2, <3>1, <4>1, <4>2
    <3>5. CASE r.header.length > MaxHeader
      <4>1. parseHeaderLine(r, v).next = "BAD"
        <5>1. v # <<>>
          BY <3>3, <3>5
        <5> QED BY <3>5, <5>1 DEF parseHeaderLine, Ends, Did
      <4> QED BY <2>2, <3>1, <3>5, <4>1
    <3> QED BY <3>4, <3>5
  <2> QED BY <2>1, <2>2
<1>4. CASE p = "parse" /\ ~AtLine(r) /\ r.state # "CHECK_HEADER"
  <2>1. \A t : Iteration(p, r, t) =
            IF AtChunk(r, "NO_LEN") THEN parseChunkSize(r, t)
            ELSE IF AtChunk(r, "NO_DATA") THEN parseChunkData(r, t)
            ELSE IF AtChunk(r, "DONE") THEN parseLastChunk(r, t)
            ELSE IF AtSizedBody(r) THEN parseSizedBody(r, t)
            ELSE parseNoBody(r)
    BY <1>4, Zenon DEF Iteration, AtHeaderEnd, AtHeaderLine
  <2> QED BY <2>1, ChunkSizeKept, ChunkDataKept, LastChunkKept, SizedBodyKept
<1> QED BY <1>1, <1>2, <1>3, <1>4

-----------------------------------------------------------------------------
(* The recursion of Parsed: its values up to n do not depend on n.         *)
Start == Progress("parse", NewRequest, 0)
IsRun(f, text, n) ==
  f = [k \in 0 .. n |-> IF k = 0 THEN Start ELSE After(text, f[k - 1])]

LEMMA RunExists ==
  ASSUME NEW text, NEW n \in Nat PROVE \E f : IsRun(f, text, n)
<1> DEFINE T == {k \in 0 .. n : \E f : IsRun(f, text, k)}
<1>1. 0 \in T
  <2> DEFINE f == [k \in 0 .. 0 |-> Start]
  <2>1. f = [k \in 0 .. 0 |-> IF k = 0 THEN Start ELSE After(text, f[k - 1])]
    OBVIOUS
  <2>2. IsRun(f, text, 0)
    BY <2>1 DEF IsRun
  <2> QED BY <2>2
<1>2. ASSUME NEW i \in 1 .. n, i - 1 \in T PROVE i \in T
  <2> PICK f : IsRun(f, text, i - 1)
    BY <1>2
  <2> DEFINE h == [k \in 0 .. i |-> IF k = i THEN After(text, f[i - 1]) ELSE f[k]]
  <2>1. \A k \in 0 .. i - 1 : f[k] = IF k = 0 THEN Start ELSE After(text, f[k - 1])
    BY DEF IsRun
  <2>2. \A k \in 0 .. i - 1 : h[k] = f[k]
    OBVIOUS
  <2>3. h[i] = After(text, f[i - 1])
    OBVIOUS
  <2>4. ASSUME NEW k \in 0 .. i
        PROVE  h[k] = IF k = 0 THEN Start ELSE After(text, h[k - 1])
    <3> HIDE DEF h
    <3>1. CASE k = i
      <4>1. i - 1 \in 0 .. i - 1 /\ k # 0
        BY <3>1
      <4> QED BY <2>2, <2>3, <3>1, <4>1
    <3>2. CASE k = 0
      BY <2>1, <2>2, <3>2
    <3>3. CASE k # i /\ k # 0
      <4>1. k \in 0 .. i - 1 /\ k - 1 \in 0 .. i - 1
        BY <3>3
      <4> QED BY <2>1, <2>2, <3>3, <4>1
    <3> QED BY <3>1, <3>2, <3>3
  <2>5. h = [k \in 0 .. i |-> IF k = 0 THEN Start ELSE After(text, h[k - 1])]
    BY <2>4
  <2>6. IsRun(h, text, i)
    BY <2>5 DEF IsRun
  <2> QED BY <2>6
<1>3. n \in T
  <2> HIDE DEF T
  <2>1. \A i \in 1 .. n : i - 1 \in T => i \in T
    BY <1>2
  <2>2. 0 .. n \subseteq T
    BY <1>1, <2>1, Induction
  <2> QED BY <2>2
<1> QED BY <1>3

LEMMA ParsedIsRun ==
  ASSUME NEW text, NEW n \in Nat
  PROVE  \E f : IsRun(f, text, n) /\ Parsed(text, n) = f[n]
<1> DEFINE f == CHOOSE f : IsRun(f, text, n)
<1>1. IsRun(f, text, n)
  BY RunExists, Zenon
<1>2. Parsed(text, n) = f[n]
  BY Zenon DEF Parsed, IsRun, Start
<1> QED BY <1>1, <1>2, Zenon

LEMMA RunsAgree ==
  ASSUME NEW text, NEW m \in Nat, NEW n \in Nat, m <= n,
         NEW f, IsRun(f, text, m), NEW h, IsRun(h, text, n)
  PROVE  f[m] = h[m]
<1> DEFINE T == {k \in 0 .. m : f[k] = h[k]}
<1>0. /\ \A k \in 0 .. m : f[k] = IF k = 0 THEN Start ELSE After(text, f[k - 1])
      /\ \A k \in 0 .. m : h[k] = IF k = 0 THEN Start ELSE After(text, h[k - 1])
  BY DEF IsRun
<1>1. 0 \in T
  BY <1>0
<1>2. \A i \in 1 .. m : i - 1 \in T => i \in T
  BY <1>0
<1> HIDE DEF T
<1>3. 0 .. m \subseteq T
  BY <1>1, <1>2, Induction
<1> QED BY <1>3 DEF T

LEMMA ParsedSteps ==
  ASSUME NEW text
  PROVE  /\ Parsed(text, 0) = Start
         /\ \A n \in Nat : Parsed(text, n + 1) = After(text, Parsed(text, n))
<1>1. Parsed(text, 0) = Start
  <2> PICK f : IsRun(f, text, 0) /\ Parsed(text, 0) = f[0]
    BY ParsedIsRun
  <2> QED BY DEF IsRun
<1>2. ASSUME NEW n \in Nat PROVE Parsed(text, n + 1) = After(text, Parsed(text, n))
  <2>1. PICK f : IsRun(f, text, n) /\ Parsed(text, n) = f[n]
    BY ParsedIsRun
  <2>2. PICK h : IsRun(h, text, n + 1) /\ Parsed(text, n + 1) = h[n + 1]
    BY ParsedIsRun
  <2>3. f[n] = h[n]
    BY <2>1, <2>2, RunsAgree
  <2>4. h[n + 1] = After(text, h[n])
    <3>1. n + 1 \in 0 .. n + 1 /\ n + 1 # 0 /\ n + 1 - 1 = n
      OBVIOUS
    <3> QED BY <2>2, <3>1 DEF IsRun
  <2> QED BY <2>1, <2>2, <2>3, <2>4
<1> QED BY <1>1, <1>2

(* The progress on a text, at any time.                                    *)
ProgressOK(text, c) ==
  /\ c.phase \in Phases \cup Verdicts
  /\ WellFormed(c.req)
  /\ c.at \in 0 .. Len(text)

LEMMA NewRequestIsWellFormed == WellFormed(NewRequest) /\ NewRequest.state = "CHECK_REQUESTLINE"
<1>1. /\ NewRequest.state = "CHECK_REQUESTLINE" /\ NewRequest.body = <<>>
      /\ NewRequest.contentLength = 0 /\ NewRequest.chunkSize = 0
      /\ NewRequest.header = [map |-> EmptyMap, length |-> 0]
      /\ NewRequest.hasContentLength = FALSE
  BY DEF NewRequest
<1>2. {"state", "header", "contentType", "hasContentLength", "contentLength", "boundary",
       "hasTransferEncoding", "chunked", "chunkedState", "chunkSize", "body"} \subseteq DOMAIN NewRequest
  BY DEF NewRequest
<1>3. DOMAIN NewRequest.header.map = {}
  BY <1>1 DEF EmptyMap
<1> QED BY <1>1, <1>2, <1>3 DEF WellFormed, AtContent, AtSizedBody

LEMMA AfterIsOK ==
  ASSUME NEW text \in Seq(Byte), NEW c, ProgressOK(text, c)
  PROVE  /\ ProgressOK(text, After(text, c))
         /\ c.req.header.length <= After(text, c).req.header.length
         /\ c.phase \in Verdicts => After(text, c) = c
         /\ c.phase \notin Verdicts =>
              LET did == Iteration(c.phase, c.req, From(text, c.at + 1))
              IN After(text, c) = Progress(did.next, did.req, c.at + did.retrieved)
<1> DEFINE did == Iteration(c.phase, c.req, From(text, c.at + 1))
<1>1. c.phase \in Verdicts => After(text, c) = c
  BY DEF After
<1>2. c.phase \notin Verdicts
        => After(text, c) = Progress(did.next, did.req, c.at + did.retrieved)
  BY Zenon DEF After
<1>3. CASE c.phase \in Verdicts
  BY <1>1, <1>3 DEF ProgressOK, WellFormed
<1>4. CASE c.phase \notin Verdicts
  <2> DEFINE v == From(text, c.at + 1)
  <2>1. c.phase \in Phases /\ WellFormed(c.req) /\ c.at \in 0 .. Len(text) /\ Len(text) \in Nat
    BY <1>4 DEF ProgressOK
  <2>2. v \in Seq(Byte) /\ Len(v) = Len(text) - c.at
    <3>1. c.at + 1 \in Nat \ {0}
      BY <2>1
    <3>2. v \in Seq(Byte) /\ Len(v) = IF c.at + 1 <= Len(text) THEN Len(text) - (c.at + 1) + 1 ELSE 0
      BY <3>1, RestType
    <3> HIDE DEF v
    <3> QED BY <2>1, <3>2
  <2>3. Sound(did, c.req, v)
    <3> HIDE DEF v
    <3>1. Sound(Iteration(c.phase, c.req, v), c.req, v)
      BY <2>1, <2>2, IterationSound
    <3> QED BY <3>1 DEF v
  <2> HIDE DEF did, v
  <2>4. After(text, c) = Progress(did.next, did.req, c.at + did.retrieved)
    BY <1>2, <1>4
  <2>5. c.at + did.retrieved \in 0 .. Len(text)
    BY <2>1, <2>2, <2>3 DEF Sound
  <2> QED BY <1>1, <1>4, <2>3, <2>4, <2>5 DEF ProgressOK, Progress, Sound, did
<1> QED BY <1>3, <1>4

LEMMA ParsedIsOK ==
  ASSUME NEW text \in Seq(Byte), NEW n \in Nat PROVE ProgressOK(text, Parsed(text, n))
<1> DEFINE T == {k \in 0 .. n : ProgressOK(text, Parsed(text, k))}
<1>1. 0 \in T
  <2>1. ProgressOK(text, Start)
    BY NewRequestIsWellFormed DEF Start, Progress, ProgressOK, Phases
  <2> QED BY <2>1, ParsedSteps
<1>2. ASSUME NEW i \in 1 .. n, i - 1 \in T PROVE i \in T
  <2>1. i - 1 \in Nat /\ i - 1 + 1 = i
    OBVIOUS
  <2>2. Parsed(text, i) = After(text, Parsed(text, i - 1))
    BY <2>1, ParsedSteps
  <2> QED BY <1>2, <2>2, AfterIsOK
<1> HIDE DEF T
<1>3. \A i \in 1 .. n : i - 1 \in T => i \in T
  BY <1>2
<1>4. 0 .. n \subseteq T
  BY <1>1, <1>3, Induction
<1>5. n \in T
  BY <1>4
<1> QED BY <1>5 DEF T

(* A verdict stands, and a header only grows.                              *)
LEMMA VerdictStands ==
  ASSUME NEW text \in Seq(Byte), NEW m \in Nat, NEW n \in Nat, m <= n
  PROVE  /\ Parsed(text, m).phase \in Verdicts => Parsed(text, n) = Parsed(text, m)
         /\ Parsed(text, m).req.header.length <= Parsed(text, n).req.header.length
<1> DEFINE c == Parsed(text, m)
           l == n - m
           Good1(d) == /\ c.phase \in Verdicts => d = c
                       /\ c.req.header.length <= d.req.header.length
           T == {k \in 0 .. l : Good1(Parsed(text, m + k))}
<1>0. l \in Nat /\ ProgressOK(text, c) /\ m + l = n /\ m + 0 = m
  BY ParsedIsOK
<1>1. 0 \in T
  <2>1. Good1(c)
    BY <1>0 DEF ProgressOK, WellFormed
  <2> HIDE DEF Good1
  <2> QED BY <1>0, <2>1
<1>2. ASSUME NEW i \in 1 .. l, i - 1 \in T PROVE i \in T
  <2> DEFINE d == Parsed(text, m + (i - 1))
             e == Parsed(text, m + i)
  <2>1. m + (i - 1) \in Nat /\ m + (i - 1) + 1 = m + i /\ m + i \in Nat
    OBVIOUS
  <2>2. e = After(text, d) /\ ProgressOK(text, d) /\ ProgressOK(text, e)
    BY <2>1, ParsedSteps, ParsedIsOK
  <2>3. Good1(d)
    BY <1>2
  <2> HIDE DEF c, d, e
  <2>4. /\ d.phase \in Verdicts => e = d
        /\ d.req.header.length <= e.req.header.length
    BY <2>2, AfterIsOK
  <2>5. Good1(e)
    <3>1. /\ c.req.header.length \in Nat /\ d.req.header.length \in Nat
          /\ e.req.header.length \in Nat
      BY <1>0, <2>2 DEF ProgressOK, WellFormed
    <3>2. c.req.header.length <= e.req.header.length
      BY <2>3, <2>4, <3>1
    <3>3. c.phase \in Verdicts => e = c
      BY <2>3, <2>4
    <3> QED BY <3>2, <3>3
  <2> HIDE DEF Good1
  <2> QED BY <2>5 DEF e
<1> HIDE DEF T, Good1, l
<1>3. \A i \in 1 .. l : i - 1 \in T => i \in T
  BY <1>2
<1>4. l \in T
  <2>1. 0 .. l \subseteq T
    BY <1>0, <1>1, <1>3, Induction
  <2> QED BY <1>0, <2>1
<1>5. Good1(Parsed(text, m + l))
  BY <1>4 DEF T
<1> QED BY <1>0, <1>5 DEF Good1

(* A text that is accepted with a header within the limit: so are all the  *)
(* texts that begin with it, after the same iterations.                    *)
Accepted(text, n) ==
  /\ Parsed(text, n).phase = "OK"
  /\ Parsed(text, n).req.header.length <= MaxHeader

LEMMA AcceptedRun ==
  ASSUME NEW text \in Seq(Byte), NEW last \in Nat, Accepted(text, last), NEW n \in Nat
  PROVE  /\ Parsed(text, n).phase \notin {"BAD", "AGAIN"}
         /\ ~(Parsed(text, n).req.header.length > MaxHeader)
         /\ Parsed(text, n).phase = "OK" => Parsed(text, n) = Parsed(text, last)
<1> DEFINE c == Parsed(text, n)
           e == Parsed(text, last)
<1>1. /\ n <= last => /\ c.phase \in Verdicts => e = c
                      /\ c.req.header.length <= e.req.header.length
      /\ last <= n => /\ e.phase \in Verdicts => c = e
  BY VerdictStands
<1>2. ProgressOK(text, c) /\ ProgressOK(text, e)
  BY ParsedIsOK
<1>3. e.phase = "OK" /\ e.req.header.length <= MaxHeader /\ MaxHeader \in Nat
  BY LimitsAreNumbers DEF Accepted
<1> HIDE DEF c, e
<1>4. c.req.header.length \in Nat /\ e.req.header.length \in Nat
  BY <1>2 DEF ProgressOK, WellFormed
<1>5. CASE n <= last
  BY <1>1, <1>3, <1>4, <1>5 DEF Verdicts, c, e
<1>6. CASE last <= n
  BY <1>1, <1>3, <1>4, <1>6 DEF Verdicts, c, e
<1> QED BY <1>5, <1>6

LEMMA AcceptedLonger ==
  ASSUME NEW text \in Seq(Byte), NEW last \in Nat, Accepted(text, last),
         NEW x \in Seq(Byte), NEW n \in Nat
  PROVE  Parsed(text \o x, n) = Parsed(text, n)
<1> DEFINE T == {k \in 0 .. n : Parsed(text \o x, k) = Parsed(text, k)}
<1>1. 0 \in T
  BY ParsedSteps
<1>2. ASSUME NEW i \in 1 .. n, i - 1 \in T PROVE i \in T
  <2> DEFINE c == Parsed(text, i - 1)
             e == Parsed(text, i)
             v == From(text, c.at + 1)
             did == Iteration(c.phase, c.req, v)
  <2>1. i - 1 \in Nat /\ i - 1 + 1 = i /\ i \in Nat /\ text \o x \in Seq(Byte)
    BY ConcatProperties
  <2>2. /\ e = After(text, c) /\ Parsed(text \o x, i) = After(text \o x, c)
        /\ ProgressOK(text, c)
    BY <1>2, <2>1, ParsedSteps, ParsedIsOK
  <2>3. e.phase \notin {"BAD", "AGAIN"}
    BY <2>1, AcceptedRun
  <2> HIDE DEF c, e
  <2>4. After(text \o x, c) = After(text, c)
    <3>1. CASE c.phase \in Verdicts
      BY <3>1 DEF After
    <3>2. CASE c.phase \notin Verdicts
      <4>1. c.phase \in Phases /\ WellFormed(c.req) /\ c.at + 1 \in 1 .. Len(text) + 1
            /\ c.at + 1 \in Nat \ {0}
        BY <2>2, <3>2 DEF ProgressOK
      <4>2. v \in Seq(Byte) /\ From(text \o x, c.at + 1) = v \o x
        BY <4>1, RestType, RestKept
      <4>3. e = Progress(did.next, did.req, c.at + did.retrieved)
        BY <2>2, <3>2, AfterIsOK
      <4>4. did.next \notin {"BAD", "AGAIN"}
        <5> HIDE DEF did
        <5> QED BY <2>3, <4>3 DEF Progress
      <4> HIDE DEF v
      <4>5. Iteration(c.phase, c.req, v \o x) = did
        BY <4>1, <4>2, <4>4, IterationKept
      <4> HIDE DEF did
      <4>6. After(text \o x, c) = Progress(did.next, did.req, c.at + did.retrieved)
        BY <3>2, <4>2, <4>5, Zenon DEF After
      <4> QED BY <2>2, <4>3, <4>6
    <3> QED BY <3>1, <3>2
  <2> QED BY <2>2, <2>4 DEF e
<1> HIDE DEF T
<1>3. \A i \in 1 .. n : i - 1 \in T => i \in T
  BY <1>2
<1>4. 0 .. n \subseteq T
  BY <1>1, <1>3, Induction
<1>5. n \in T
  BY <1>4
<1> QED BY <1>5 DEF T

-----------------------------------------------------------------------------
(* The state of the server: the buffer holds what was read of the wire and *)
(* is not consumed yet, from the place At on.                              *)
At == read - ReadableBytes(buf)

ServerTypeOK ==
  /\ TypeOK
  /\ phase \in {"wait", "recv", "respond", "out"} \cup Phases
  /\ phase = "respond" => verdict \in Verdicts
  /\ context \in BOOLEAN
  /\ wire \in Seq(Byte) /\ sent \in 0 .. Len(wire) /\ read \in 0 .. sent
  /\ client = NoRequest => wire \in Malformed
  /\ client # NoRequest => client \in Requests /\ wire = RequestText(client) \o client.tail
  /\ WellFormed(req)
  /\ ReadableBytes(buf) \in 0 .. read
  /\ view = SubSeq(wire, At + 1, read)

LEMMA ViewFacts ==
  ASSUME ServerTypeOK
  PROVE  /\ Good(buf) /\ view \in Seq(Byte) /\ Len(view) = ReadableBytes(buf)
         /\ ReadableBytes(buf) \in Nat /\ read \in Nat /\ At \in Nat /\ At <= read
         /\ read <= Len(wire) /\ Len(wire) \in Nat
<1>1. Good(buf)
  BY DEF ServerTypeOK, TypeOK, Good
<1>2. read \in Nat /\ read <= Len(wire) /\ Len(wire) \in Nat /\ ReadableBytes(buf) \in 0 .. read
  BY DEF ServerTypeOK
<1>3. ReadableBytes(buf) \in Nat /\ At \in Nat /\ At <= read
  BY <1>2 DEF At
<1> QED BY <1>1, <1>2, <1>3, ContentFacts DEF view

(* Windows on the wire: the next piece goes behind one, and what is         *)
(* consumed is taken from its front.                                       *)
LEMMA WindowGrows ==
  ASSUME NEW s \in Seq(Byte), NEW a \in Nat, NEW r \in Nat, NEW n \in Nat,
         a <= r, r + n <= Len(s)
  PROVE  /\ SubSeq(s, r + 1, r + n) \in Seq(Byte) /\ Len(SubSeq(s, r + 1, r + n)) = n
         /\ SubSeq(s, a + 1, r) \o SubSeq(s, r + 1, r + n) = SubSeq(s, a + 1, r + n)
<1> DEFINE t == r + n
<1>1. t \in Nat /\ r <= t /\ t <= Len(s) /\ t - r = n /\ Len(s) \in Nat
  OBVIOUS
<1>2. /\ a + 1 \in 1 .. Len(s) + 1 /\ r \in a + 1 - 1 .. Len(s) /\ t \in r .. Len(s)
  BY <1>1
<1> HIDE DEF t
<1>3. SubSeq(s, r + 1, t) \in Seq(Byte) /\ Len(SubSeq(s, r + 1, t)) = t - r
  BY <1>1, SubSeqFacts
<1>4. SubSeq(s, a + 1, r) \o SubSeq(s, r + 1, t) = SubSeq(s, a + 1, t)
  BY <1>2, ConcatAdjacentSubSeq
<1>5. Len(SubSeq(s, r + 1, t)) = n
  BY <1>1, <1>3
<1> QED BY <1>3, <1>4, <1>5 DEF t

LEMMA WindowShrinks ==
  ASSUME NEW s \in Seq(Byte), NEW a \in Nat, NEW r \in Nat, NEW k \in Nat,
         a + k <= r, r <= Len(s)
  PROVE  SubSeq(SubSeq(s, a + 1, r), k + 1, r - a) = SubSeq(s, a + k + 1, r)
<1>1. CASE a + k = r
  <2>1. k + 1 \in Int /\ r - a \in Int /\ r - a < k + 1
        /\ a + k + 1 \in Int /\ r \in Int /\ r < a + k + 1
    BY <1>1
  <2>2. SubSeq(SubSeq(s, a + 1, r), k + 1, r - a) = <<>>
    BY <2>1, SubSeqEmpty
  <2>3. SubSeq(s, a + k + 1, r) = <<>>
    BY <2>1, SubSeqEmpty
  <2> QED BY <2>2, <2>3
<1>2. CASE a + k # r
  <2> DEFINE i == a + 1
             m == k + 1
             l == r - a
  <2>1. Len(s) \in Nat
    OBVIOUS
  <2>2. /\ i \in 1 .. Len(s) /\ r \in 1 .. Len(s)
        /\ m \in 1 .. r - i + 1 /\ l \in 1 .. r - i + 1
        /\ i + m - 1 = a + k + 1 /\ i + l - 1 = r
    BY <1>2, <2>1
  <2> HIDE DEF i, m, l
  <2>3. SubSeq(SubSeq(s, i, r), m, l) = SubSeq(s, i + m - 1, i + l - 1)
    BY <2>2, SubSeqOfSubSeq
  <2>4. SubSeq(SubSeq(s, i, r), m, l) = SubSeq(s, a + k + 1, r)
    BY <2>2, <2>3
  <2> QED BY <2>4 DEF i, m, l
<1> QED BY <1>1, <1>2

(* Reading from the socket.                                                *)
LEMMA LeastFacts ==
  ASSUME NEW a \in Nat, NEW b \in Nat PROVE Least(a, b) \in Nat /\ Least(a, b) <= a
BY DEF Least

LEMMA RecvStep ==
  ASSUME ServerTypeOK, Recv
  PROVE  /\ TypeOK' /\ Abs!Put /\ Grows
         /\ read' \in 0 .. sent /\ ReadableBytes(buf') \in 0 .. read'
         /\ At' = At /\ view' = SubSeq(wire, At + 1, read')
<1> DEFINE n == Least(sent - read, WritableBytes(buf) + Stack)
           s == SubSeq(wire, read + 1, read + n)
<1>1. ReadFd(s) /\ read' = read + n /\ read < sent
  BY Zenon DEF Recv
<1>2. /\ Good(buf) /\ view \in Seq(Byte) /\ Len(view) = ReadableBytes(buf)
      /\ read \in Nat /\ At \in Nat /\ At <= read /\ read <= Len(wire) /\ Len(wire) \in Nat
      /\ sent \in Nat /\ sent <= Len(wire) /\ wire \in Seq(Byte)
      /\ view = SubSeq(wire, At + 1, read) /\ At = read - ReadableBytes(buf)
      /\ ReadableBytes(buf) \in Nat
  BY ViewFacts DEF ServerTypeOK, At
<1>3. n \in Nat /\ n <= sent - read
  <2>1. WritableBytes(buf) + Stack \in Nat
    <3>1. Len(buf.bytes) \in Nat /\ buf.write \in Nat /\ buf.write <= Len(buf.bytes)
      BY <1>2 DEF Good, Buf
    <3>2. Stack \in Nat
      BY BufferAssumption
    <3> HIDE DEF n, s
    <3> QED BY <3>1, <3>2 DEF WritableBytes
  <2>2. sent - read \in Nat
    BY <1>1, <1>2
  <2> QED BY <2>1, <2>2, LeastFacts, Zenon
<1> HIDE DEF n
<1>4. /\ s \in Seq(Byte) /\ Len(s) = n
      /\ view \o s = SubSeq(wire, At + 1, read')
  <2>1. read + n <= Len(wire)
    <3>1. \A x, y, z, l \in Nat : z <= y - x /\ y <= l => x + z <= l
      OBVIOUS
    <3> QED BY <1>2, <1>3, <3>1
  <2> DEFINE a == At
             r == read
  <2>2. a \in Nat /\ r \in Nat /\ a <= r /\ r + n <= Len(wire)
    BY <1>2, <2>1
  <2> HIDE DEF a, r
  <2>3. /\ SubSeq(wire, r + 1, r + n) \in Seq(Byte) /\ Len(SubSeq(wire, r + 1, r + n)) = n
        /\ SubSeq(wire, a + 1, r) \o SubSeq(wire, r + 1, r + n) = SubSeq(wire, a + 1, r + n)
    <3>1. wire \in Seq(Byte) /\ n \in Nat
      BY <1>2, <1>3
    <3> QED BY <2>2, <3>1, WindowGrows
  <2> QED BY <1>1, <1>2, <2>3 DEF a, r
<1> HIDE DEF s
<1>6. Puts(buf, buf', s) /\ moved' = s
  BY <1>1, <1>2, <1>4, ReceivedFacts DEF ReadFd
<1>7. TypeOK' /\ Abs!Put /\ Grows
  BY <1>4, <1>6, PutsIsPut DEF Grows, ServerTypeOK
<1>8. Content(buf') = view \o s /\ Good(buf')
  BY <1>6 DEF Puts, view
<1>9. ReadableBytes(buf') = ReadableBytes(buf) + n
  <2>1. Len(Content(buf')) = ReadableBytes(buf')
    BY <1>8, ContentFacts
  <2>2. Len(view \o s) = Len(view) + Len(s)
    BY <1>2, <1>4, ConcatProperties
  <2> QED BY <1>2, <1>4, <1>8, <2>1, <2>2
<1>10. At' = At /\ read' \in 0 .. sent /\ ReadableBytes(buf') \in 0 .. read'
  <2>1. At' = read' - ReadableBytes(buf')
    BY DEF At, ReadableBytes
  <2>2. \A x, y, z, w \in Nat : z <= y - x /\ w <= x
          => /\ x + z - (w + z) = x - w /\ x + z \in 0 .. y /\ w + z \in 0 .. x + z
    OBVIOUS
  <2>3. ReadableBytes(buf) <= read /\ ReadableBytes(buf) \in Nat /\ n \in Nat
        /\ read \in Nat /\ sent \in Nat /\ n <= sent - read
    BY <1>2, <1>3
  <2> DEFINE w == ReadableBytes(buf)
  <2>4. read + n - (w + n) = read - w /\ read + n \in 0 .. sent /\ w + n \in 0 .. read + n
    <3> HIDE DEF w
    <3> QED BY <2>2, <2>3 DEF w
  <2>5. ReadableBytes(buf') = w + n /\ read' = read + n /\ At = read - w
    BY <1>1, <1>2, <1>9
  <2> HIDE DEF w
  <2>6. At' = At
    BY <2>1, <2>3, <2>4, <2>5
  <2>7. read' \in 0 .. sent
    BY <2>4, <2>5
  <2>8. ReadableBytes(buf') \in 0 .. read'
    BY <2>4, <2>5
  <2> QED BY <2>6, <2>7, <2>8
<1>11. ReadableBytes(buf)' = ReadableBytes(buf')
  BY DEF ReadableBytes
<1> QED BY <1>1, <1>4, <1>7, <1>8, <1>10, <1>11 DEF view

(* Consuming what was understood.                                          *)
LEMMA RetrievedStep ==
  ASSUME ServerTypeOK, NEW k \in Nat, Retrieve(k), UNCHANGED <<wire, read>>
  PROVE  /\ TypeOK' /\ Abs!Consume /\ Grows
         /\ ReadableBytes(buf') \in 0 .. read' /\ At' = At + k
         /\ view' = SubSeq(wire, At + k + 1, read)
<1>1. TypeOK' /\ Abs!Consume /\ Grows
  BY RetrieveStep DEF ServerTypeOK
<1>2. /\ Good(buf) /\ view \in Seq(Byte) /\ Len(view) = ReadableBytes(buf)
      /\ read \in Nat /\ At \in Nat /\ At <= read /\ read <= Len(wire) /\ Len(wire) \in Nat
      /\ wire \in Seq(Byte)
      /\ view = SubSeq(wire, At + 1, read) /\ At = read - ReadableBytes(buf)
      /\ ReadableBytes(buf) \in Nat
  BY ViewFacts DEF ServerTypeOK, At
<1>3. k <= ReadableBytes(buf)
  BY DEF Retrieve
<1>4. Good(buf') /\ Content(buf') = SubSeq(view, k + 1, Len(view))
  <2>1. CASE k < ReadableBytes(buf)
    <3>1. buf' = [buf EXCEPT !.read = @ + k]
      BY <2>1 DEF Retrieve
    <3> QED BY <1>2, <1>3, <3>1, ConsumedFacts DEF view
  <2>2. CASE ~(k < ReadableBytes(buf))
    <3>1. buf' = [buf EXCEPT !.read = 0, !.write = 0] /\ k = Len(view)
      BY <1>2, <1>3, <2>2 DEF Retrieve
    <3> QED BY <1>2, <3>1, RetrievedAllFacts DEF view
  <2> QED BY <2>1, <2>2
<1>5. ReadableBytes(buf') = ReadableBytes(buf) - k
  <2>1. Len(Content(buf')) = ReadableBytes(buf')
    BY <1>4, ContentFacts
  <2> DEFINE v == view
             l == Len(v)
  <2>2. v \in Seq(Byte) /\ l \in Nat /\ k <= l /\ l <= Len(v)
    BY <1>2, <1>3
  <2> HIDE DEF v
  <2>3. Len(SubSeq(v, k + 1, l)) = l - k
    <3> HIDE DEF l
    <3> QED BY <2>2, SubSeqFacts
  <2> QED BY <1>2, <1>4, <2>1, <2>3 DEF v
<1>6. At' = At + k /\ ReadableBytes(buf') \in 0 .. read'
  <2>1. At' = read' - ReadableBytes(buf')
    BY DEF At, ReadableBytes
  <2>2. \A x, y, z \in Nat : z <= y /\ y <= x
          => x - (y - z) = x - y + z /\ y - z \in 0 .. x
    OBVIOUS
  <2> DEFINE w == ReadableBytes(buf)
  <2>3. w <= read /\ w \in Nat /\ read \in Nat /\ k \in Nat /\ k <= w /\ At = read - w
    BY <1>2, <1>3
  <2>4. ReadableBytes(buf') = w - k
    BY <1>5
  <2> HIDE DEF w
  <2>5. read - (w - k) = read - w + k /\ w - k \in 0 .. read
    BY <2>2, <2>3
  <2>6. read' = read
    OBVIOUS
  <2> QED BY <2>1, <2>3, <2>4, <2>5, <2>6
<1>7. SubSeq(view, k + 1, Len(view)) = SubSeq(wire, At + k + 1, read)
  <2> DEFINE l == Len(view)
             a == At
             r == read
  <2>1. l \in Nat /\ a \in Nat /\ r \in Nat /\ l = r - a /\ a + k <= r /\ r <= Len(wire)
    BY <1>2, <1>3
  <2> HIDE DEF a, r
  <2>2. SubSeq(SubSeq(wire, a + 1, r), k + 1, r - a) = SubSeq(wire, a + k + 1, r)
    BY <1>2, <2>1, WindowShrinks
  <2> QED BY <1>2, <2>1, <2>2 DEF a, r
<1>8. ReadableBytes(buf)' = ReadableBytes(buf')
  BY DEF ReadableBytes
<1> QED BY <1>1, <1>4, <1>6, <1>7, <1>8 DEF view

(* An iteration of the parser: but for the limit of the request line it    *)
(* does what Iteration says.                                               *)
TooLong == phase = "parse" /\ AtLine(req) /\ LineTooLong
Doing == IF TooLong THEN Ends(req, "BAD") ELSE Iteration(phase, req, view)

LEMMA ParseDoes ==
  ASSUME Parse
  PROVE  phase \in Phases /\ Does(Doing) /\ UNCHANGED <<cvars, clientvars, read, context>>
<1>1. UNCHANGED <<cvars, clientvars, read, context>> /\ ParseRequest
  BY DEF Parse
<1> USE DEF Phases
<1>2. CASE ParseRequestLine
  BY <1>1, <1>2 DEF ParseRequestLine, Doing, TooLong, Iteration
<1>3. CASE ParseHeaderEnd
  <2>1. ~TooLong /\ ~AtLine(req)
    BY <1>3 DEF ParseHeaderEnd, TooLong, AtLine, AtHeaderEnd
  <2> QED BY <1>1, <1>3, <2>1 DEF ParseHeaderEnd, Doing, Iteration
<1>4. CASE ParseHeaderLine
  <2>1. ~TooLong /\ ~AtLine(req) /\ ~AtHeaderEnd(req, view)
    BY <1>4 DEF ParseHeaderLine, TooLong, AtLine, AtHeaderEnd, AtHeaderLine
  <2> QED BY <1>1, <1>4, <2>1 DEF ParseHeaderLine, Doing, Iteration
<1>5. AtContent(req) => /\ ~TooLong /\ ~AtLine(req) /\ ~AtHeaderEnd(req, view)
                        /\ ~AtHeaderLine(req, view)
  BY DEF AtContent, TooLong, AtLine, AtHeaderEnd, AtHeaderLine
<1>6. CASE ParseChunkSize \/ ParseChunkData \/ ParseLastChunk \/ ParseSizedBody \/ ParseNoBody
  <2>1. AtContent(req) /\ phase = "parse"
    BY <1>6 DEF ParseChunkSize, ParseChunkData, ParseLastChunk, ParseSizedBody, ParseNoBody,
                AtChunk, AtSizedBody, AtNoBody
  <2>2. Doing =
          IF AtChunk(req, "NO_LEN") THEN parseChunkSize(req, view)
          ELSE IF AtChunk(req, "NO_DATA") THEN parseChunkData(req, view)
          ELSE IF AtChunk(req, "DONE") THEN parseLastChunk(req, view)
          ELSE IF AtSizedBody(req) THEN parseSizedBody(req, view)
          ELSE parseNoBody(req)
    BY <1>5, <2>1 DEF Doing, Iteration
  <2>3. CASE ParseChunkSize
    BY <1>1, <2>1, <2>2, <2>3 DEF ParseChunkSize
  <2>4. CASE ParseChunkData
    <3>1. ~AtChunk(req, "NO_LEN")
      BY <2>4 DEF ParseChunkData, AtChunk
    <3> QED BY <1>1, <2>1, <2>2, <2>4, <3>1 DEF ParseChunkData
  <2>5. CASE ParseLastChunk
    <3>1. ~AtChunk(req, "NO_LEN") /\ ~AtChunk(req, "NO_DATA")
      BY <2>5 DEF ParseLastChunk, AtChunk
    <3> QED BY <1>1, <2>1, <2>2, <2>5, <3>1 DEF ParseLastChunk
  <2>6. CASE ParseSizedBody
    <3>1. \A state : ~AtChunk(req, state)
      BY <2>6 DEF ParseSizedBody, AtSizedBody, AtChunk
    <3> QED BY <1>1, <2>1, <2>2, <2>6, <3>1 DEF ParseSizedBody
  <2>7. CASE ParseNoBody
    <3>1. (\A state : ~AtChunk(req, state)) /\ ~AtSizedBody(req)
      BY <2>7 DEF ParseNoBody, AtNoBody, AtSizedBody, AtChunk
    <3> QED BY <1>1, <2>1, <2>2, <2>7, <3>1 DEF ParseNoBody
  <2> QED BY <1>6, <2>3, <2>4, <2>5, <2>6, <2>7
<1>7. CASE DecodeContent \/ DecodeMultipart \/ DecodePart
  <2>1. ~TooLong
    BY <1>7 DEF DecodeContent, DecodeMultipart, DecodePart, TooLong
  <2> QED BY <1>1, <1>7, <2>1
          DEF DecodeContent, DecodeMultipart, DecodePart, Doing, Iteration
<1> QED BY <1>1, <1>2, <1>3, <1>4, <1>6, <1>7 DEF ParseRequest

LEMMA DoingIsSound ==
  ASSUME ServerTypeOK, phase \in Phases
  PROVE  Sound(Doing, req, view) /\ (phase # "parse" => Doing.retrieved = 0)
<1>1. view \in Seq(Byte) /\ WellFormed(req)
  BY ViewFacts DEF ServerTypeOK
<1>2. CASE TooLong
  <2>1. Doing = Ends(req, "BAD") /\ phase = "parse"
    BY <1>2 DEF Doing, TooLong
  <2> QED BY <1>1, <2>1, EndsIsSound DEF Verdicts
<1>3. CASE ~TooLong
  <2>1. Doing = Iteration(phase, req, view)
    BY <1>3 DEF Doing
  <2> QED BY <1>1, <2>1, IterationSound
<1> QED BY <1>2, <1>3

(* What it changes.                                                        *)
LEMMA ParseStep ==
  ASSUME ServerTypeOK, Parse
  PROVE  /\ TypeOK' /\ Grows /\ (Abs!Consume \/ UNCHANGED <<buf, moved>>)
         /\ Sound(Doing, req, view) /\ phase \in Phases
         /\ req' = Doing.req
         /\ IF Doing.next \in Verdicts THEN phase' = "respond" /\ verdict' = Doing.next
            ELSE phase' = Doing.next /\ phase' \in Phases /\ verdict' = verdict
         /\ ReadableBytes(buf') \in 0 .. read /\ At' = At + Doing.retrieved
         /\ view' = SubSeq(wire, At' + 1, read)
         /\ UNCHANGED <<cvars, clientvars, read, context>>
<1> DEFINE did == Doing
<1>1. phase \in Phases /\ Does(did) /\ UNCHANGED <<cvars, clientvars, read, context>>
  BY ParseDoes
<1>2. Sound(did, req, view) /\ (phase # "parse" => did.retrieved = 0)
  BY <1>1, DoingIsSound
<1> HIDE DEF did
<1>3. req' = did.req
      /\ IF did.next \in Verdicts THEN phase' = "respond" /\ verdict' = did.next
         ELSE phase' = did.next /\ phase' \in Phases /\ verdict' = verdict
  BY <1>1, <1>2 DEF Does, Sound
<1>4. UNCHANGED <<wire, read>>
  BY <1>1 DEF clientvars
<1>5. At \in Nat /\ ReadableBytes(buf) \in 0 .. read /\ view = SubSeq(wire, At + 1, read)
      /\ TypeOK
  BY ViewFacts DEF ServerTypeOK
<1>6. CASE did.next \in Verdicts \/ phase # "parse"
  <2>1. UNCHANGED <<buf, moved>> /\ did.retrieved = 0
    BY <1>1, <1>2, <1>6 DEF Does, Sound
  <2>2. TypeOK' /\ Grows /\ view' = view /\ At' = At /\ ReadableBytes(buf') = ReadableBytes(buf)
    <3>1. Len(buf'.bytes) = Len(buf.bytes)
      BY <2>1
    <3>2. Grows
      <4>1. Good(buf)
        BY <1>5 DEF TypeOK, Good
      <4>2. Len(buf.bytes) \in Nat
        BY <4>1 DEF Good, Buf
      <4> QED BY <3>1, <4>2 DEF Grows
    <3>3. TypeOK'
      BY <1>5, <2>1 DEF TypeOK
    <3>4. view' = view /\ At' = At /\ ReadableBytes(buf') = ReadableBytes(buf)
      BY <1>4, <2>1 DEF view, At, ReadableBytes
    <3> QED BY <3>2, <3>3, <3>4
  <2>3. At + did.retrieved = At
    BY <1>5, <2>1
  <2> QED BY <1>1, <1>2, <1>3, <1>4, <1>5, <2>1, <2>2, <2>3 DEF did
<1>7. CASE did.next \notin Verdicts /\ phase = "parse"
  <2> DEFINE k == did.retrieved
  <2>1. Retrieve(k) /\ k \in Nat
    BY <1>1, <1>2, <1>7, ViewFacts DEF Does, Sound
  <2> HIDE DEF k
  <2>2. /\ TypeOK' /\ Abs!Consume /\ Grows
        /\ ReadableBytes(buf') \in 0 .. read' /\ At' = At + k
        /\ view' = SubSeq(wire, At + k + 1, read)
    BY <1>4, <2>1, RetrievedStep
  <2> QED BY <1>1, <1>2, <1>3, <1>4, <2>2 DEF did, k
<1> QED BY <1>6, <1>7

(* The other steps leave the buffer alone.                                 *)
Places == {"wait", "recv", "respond", "out"} \cup Phases

LEMMA QuietStep ==
  ASSUME ServerTypeOK, UNCHANGED <<buf, moved, client, wire, read>>,
         sent' \in read .. Len(wire), phase' \in Places, WellFormed(req'),
         phase' = "respond" => verdict' \in Verdicts, context' \in BOOLEAN
  PROVE  ServerTypeOK' /\ Grows /\ At' = At
<1>1. view' = view /\ At' = At /\ ReadableBytes(buf') = ReadableBytes(buf)
  BY DEF view, At, ReadableBytes
<1>2. Grows
  <2>1. Len(buf.bytes) \in Nat
    BY ViewFacts DEF Good, Buf
  <2> QED BY <2>1 DEF Grows
<1>3. TypeOK'
  BY DEF TypeOK, ServerTypeOK
<1>4. sent' \in 0 .. Len(wire') /\ read' \in 0 .. sent'
  BY ViewFacts
<1>5. /\ wire' \in Seq(Byte) /\ ReadableBytes(buf') \in 0 .. read'
      /\ view' = SubSeq(wire', At' + 1, read')
      /\ client' = NoRequest => wire' \in Malformed
      /\ client' # NoRequest
           => client' \in Requests /\ wire' = RequestText(client') \o client'.tail
  BY <1>1 DEF ServerTypeOK
<1>6. ReadableBytes(buf)' = ReadableBytes(buf')
  BY DEF ReadableBytes
<1> QED BY <1>1, <1>2, <1>3, <1>4, <1>5, <1>6 DEF ServerTypeOK, Places

LEMMA InitTypeOK == HInit => ServerTypeOK /\ Abs!Init
<1> SUFFICES ASSUME HInit PROVE ServerTypeOK /\ Abs!Init
  OBVIOUS
<1>1. TypeOK /\ Abs!Init
  BY InitFacts DEF HInit
<1>2. /\ phase = "wait" /\ req = NewRequest /\ context = FALSE /\ sent = 0 /\ read = 0
      /\ \/ client \in Requests /\ wire = RequestText(client) \o client.tail
         \/ client = NoRequest /\ wire \in Malformed
  BY DEF HInit
<1>3. ReadableBytes(buf) = 0 /\ view = <<>> /\ At = 0
  <2>1. buf.read = 0 /\ buf.write = 0
    BY DEF HInit, Init
  <2>2. SubSeq(buf.bytes, 0 + 1, 0) = <<>>
    BY SubSeqEmpty
  <2> QED BY <1>2, <2>1, <2>2 DEF ReadableBytes, view, Content, At
<1>4. wire \in Seq(Byte)
  <2>1. CASE client \in Requests /\ wire = RequestText(client) \o client.tail
    BY <2>1, HttpAssumption, ConcatProperties
  <2>2. CASE client = NoRequest /\ wire \in Malformed
    BY <2>2, HttpAssumption
  <2> QED BY <1>2, <2>1, <2>2
<1>5. SubSeq(wire, 0 + 1, 0) = <<>> /\ Len(wire) \in Nat
  BY <1>4, SubSeqEmpty
<1>6. client # NoRequest => client \in Requests /\ wire = RequestText(client) \o client.tail
  BY <1>2
<1>7. client = NoRequest => wire \in Malformed
  BY <1>2, HttpAssumption
<1>8. sent \in 0 .. Len(wire) /\ read \in 0 .. sent /\ ReadableBytes(buf) \in 0 .. read
  BY <1>2, <1>3, <1>5
<1>9. view = SubSeq(wire, At + 1, read) /\ context \in BOOLEAN /\ WellFormed(req)
  BY <1>2, <1>3, <1>5, NewRequestIsWellFormed
<1> QED BY <1>1, <1>2, <1>4, <1>6, <1>7, <1>8, <1>9 DEF ServerTypeOK

LEMMA TypeStep ==
  ASSUME ServerTypeOK, [HNext]_hvars
  PROVE  ServerTypeOK' /\ Grows /\ (Abs!Put \/ Abs!Consume \/ UNCHANGED <<buf, moved>>)
<1>0. /\ phase \in Places /\ WellFormed(req) /\ context \in BOOLEAN
      /\ phase = "respond" => verdict \in Verdicts
      /\ sent \in read .. Len(wire) /\ Len(wire) \in Nat /\ read \in Nat /\ sent \in Nat
  BY ViewFacts DEF ServerTypeOK, Places
<1>1. CASE ClientSends
  <2>1. sent' \in read .. Len(wire)
    BY <1>0, <1>1 DEF ClientSends
  <2>2. UNCHANGED <<buf, moved, client, wire, read, phase, req, verdict, context>>
    BY <1>1 DEF ClientSends
  <2> QED BY <1>0, <2>1, <2>2, QuietStep
<1>2. CASE OnRecv
  <2>1. UNCHANGED <<buf, moved, client, wire, read, sent, req, context>> /\ phase' = "recv"
    BY <1>2 DEF OnRecv, clientvars
  <2> QED BY <1>0, <2>1, QuietStep DEF Places
<1>3. CASE Recv
  <2>1. /\ TypeOK' /\ Abs!Put /\ Grows
        /\ read' \in 0 .. sent /\ ReadableBytes(buf') \in 0 .. read'
        /\ At' = At /\ view' = SubSeq(wire, At + 1, read')
    BY <1>3, RecvStep
  <2>2. UNCHANGED <<phase, req, verdict, client, wire, sent, context>>
    BY <1>3 DEF Recv, clientvars
  <2>3. ReadableBytes(buf)' = ReadableBytes(buf')
    BY DEF ReadableBytes
  <2>4. /\ client' = NoRequest => wire' \in Malformed
        /\ client' # NoRequest
             => client' \in Requests /\ wire' = RequestText(client') \o client'.tail
        /\ wire' \in Seq(Byte) /\ sent' \in 0 .. Len(wire')
    BY <2>2 DEF ServerTypeOK
  <2>5. ServerTypeOK'
    BY <1>0, <2>1, <2>2, <2>3, <2>4 DEF ServerTypeOK, Places
  <2> QED BY <2>1, <2>5
<1>4. CASE RecvCloses
  <2>1. UNCHANGED <<buf, moved, client, wire, read, sent, req, context>> /\ phase' = "out"
    BY <1>4 DEF RecvCloses, clientvars
  <2> QED BY <1>0, <2>1, QuietStep DEF Places
<1>5. CASE OnMessage
  <2>1. UNCHANGED <<buf, moved, client, wire, read, sent>> /\ phase' = "parse"
        /\ context' = TRUE /\ req' = RequestOf
    BY <1>5 DEF OnMessage, clientvars
  <2>2. WellFormed(req')
    <3>1. RequestOf = req \/ RequestOf = NewRequest
      BY DEF RequestOf
    <3> QED BY <1>0, <2>1, <3>1, NewRequestIsWellFormed
  <2> QED BY <1>0, <2>1, <2>2, QuietStep DEF Places, Phases
<1>6. CASE Parse
  <2>1. /\ TypeOK' /\ Grows /\ (Abs!Consume \/ UNCHANGED <<buf, moved>>)
        /\ ReadableBytes(buf') \in 0 .. read /\ view' = SubSeq(wire, At' + 1, read)
        /\ UNCHANGED <<cvars, clientvars, read, context>>
    BY <1>6, ParseStep
  <2>2. UNCHANGED <<client, wire, sent, read, context>>
    BY <2>1 DEF clientvars
  <2>3. WellFormed(req') /\ phase' \in Places /\ (phase' = "respond" => verdict' \in Verdicts)
    <3>1. /\ WellFormed(Doing.req) /\ req' = Doing.req
          /\ IF Doing.next \in Verdicts THEN phase' = "respond" /\ verdict' = Doing.next
             ELSE phase' = Doing.next /\ phase' \in Phases /\ verdict' = verdict
      BY <1>6, ParseStep DEF Sound
    <3> QED BY <3>1 DEF Places, Phases
  <2>4. ReadableBytes(buf)' = ReadableBytes(buf')
    BY DEF ReadableBytes
  <2>5. /\ client' = NoRequest => wire' \in Malformed
        /\ client' # NoRequest
             => client' \in Requests /\ wire' = RequestText(client') \o client'.tail
        /\ wire' \in Seq(Byte) /\ sent' \in 0 .. Len(wire') /\ read' \in 0 .. sent'
    BY <2>2 DEF ServerTypeOK
  <2>6. ServerTypeOK'
    BY <1>0, <2>1, <2>2, <2>3, <2>4, <2>5 DEF ServerTypeOK, Places
  <2> QED BY <2>1, <2>6
<1>7. CASE AnswerAgain
  <2>1. UNCHANGED <<buf, moved, client, wire, read, sent, req, context>> /\ phase' = "wait"
    BY <1>7 DEF AnswerAgain, clientvars
  <2> QED BY <1>0, <2>1, QuietStep DEF Places
<1>8. CASE Dispatch
  <2>1. UNCHANGED <<buf, moved, client, wire, read, sent, req>> /\ phase' = "out"
        /\ context' = FALSE
    BY <1>8 DEF Dispatch, clientvars
  <2> QED BY <1>0, <2>1, QuietStep DEF Places
<1>9. CASE Send \/ ClientEnd \/ UNCHANGED hvars
  <2>1. UNCHANGED <<buf, moved, client, wire, read, sent, req, phase, verdict, context>>
    BY <1>9 DEF Send, ClientEnd, clientvars, hvars
  <2> QED BY <1>0, <2>1, QuietStep
<1> QED BY <1>1, <1>2, <1>3, <1>4, <1>5, <1>6, <1>7, <1>8, <1>9 DEF HNext, ServerStep

-----------------------------------------------------------------------------
(* In the server that reads from the socket into it and parses, the buffer *)
(* keeps its positions in order (Buffer.h:30), and what is known of the    *)
(* request, the wire and the phases holds.                                 *)
THEOREM ServerTypeCorrect == HSpec => []TypeOK
<1>1. HInit => ServerTypeOK
  BY InitTypeOK
<1>2. ServerTypeOK /\ [HNext]_hvars => ServerTypeOK'
  BY TypeStep
<1>3. ServerTypeOK => TypeOK
  BY DEF ServerTypeOK
<1> QED BY <1>1, <1>2, <1>3, PTL DEF HSpec

(* Under the reads of Socket::recv and the retrievals of parseRequest the  *)
(* buffer is a queue of bytes: it implements ByteQueue (Buffer.cpp:30-70,  *)
(* 172-182).                                                               *)
THEOREM ServerUsesAQueue == HSpec => ImplementsByteQueue
<1>1. HInit => ServerTypeOK /\ Abs!Init
  BY InitTypeOK
<1>2. ServerTypeOK /\ [HNext]_hvars => ServerTypeOK'
  BY TypeStep
<1>3. ServerTypeOK /\ [HNext]_hvars => [Abs!Next]_<<Content(buf), moved>>
  <2> SUFFICES ASSUME ServerTypeOK, [HNext]_hvars PROVE [Abs!Next]_<<Content(buf), moved>>
    OBVIOUS
  <2>1. CASE UNCHANGED <<buf, moved>>
    BY <2>1
  <2>2. CASE Abs!Put \/ Abs!Consume
    BY <2>2, Zenon DEF Abs!Next
  <2> QED BY <2>1, <2>2, TypeStep
<1> QED BY <1>1, <1>2, <1>3, PTL DEF HSpec, ImplementsByteQueue, Abs!Spec

(* It grows only when the bytes would not fit even if the consumed room    *)
(* were reused (MakeSpace_, Buffer.cpp:172-182).                           *)
THEOREM ServerGrowsOnlyWhenFull == HSpec => GrowsOnlyWhenFull
<1>1. HInit => ServerTypeOK
  BY InitTypeOK
<1>2. ServerTypeOK /\ [HNext]_hvars => ServerTypeOK'
  BY TypeStep
<1>3. ServerTypeOK /\ [HNext]_hvars
        => [Len(buf'.bytes) > Len(buf.bytes) => ReadableBytes(buf') > Len(buf.bytes)]_vars
  BY TypeStep DEF Grows
<1> QED BY <1>1, <1>2, <1>3, PTL DEF HSpec, GrowsOnlyWhenFull

-----------------------------------------------------------------------------
(* Where the body is complete, and what a multipart body that does not end *)
(* with its delimiter does: it is waited for again and again, and never    *)
(* accepted.                                                               *)
BodyComplete(r) ==
  AtContent(r) /\ (AtChunk(r, "DONE") \/ (AtSizedBody(r) /\ Len(r.body) = r.contentLength))

EndlessBody(r) == BodyComplete(r) /\ IsMultipart(r) /\ Unterminated(r)

LEMMA SizedBodyCompletes ==
  ASSUME NEW r, WellFormed(r), NEW v \in Seq(Byte), AtSizedBody(r),
         parseSizedBody(r, v).next # "AGAIN"
  PROVE  LET did == parseSizedBody(r, v)
         IN /\ did.next = "decode" /\ BodyComplete(did.req)
            /\ EndlessBody(r) => EndlessBody(did.req)
<1> DEFINE size == r.contentLength - Len(r.body)
           data == SubSeq(v, 1, size)
           new == [r EXCEPT !.body = @ \o data]
<1>1. parseSizedBody(r, v) = Did(new, size, "decode") /\ ~BodyIsMissing(r, v)
  BY DEF parseSizedBody, Ends, Did
<1>2. /\ Len(v) \in Nat /\ r.contentLength \in Nat /\ r.body \in Seq(Byte)
      /\ Len(r.body) \in Nat /\ size \in Nat /\ size <= Len(v)
      /\ Len(r.body) + size = r.contentLength
  BY <1>1 DEF WellFormed, BodyIsMissing
<1>3. data \in Seq(Byte) /\ Len(data) = size
  <2> HIDE DEF size
  <2>1. size \in Int /\ 1 \in Int /\ 1 <= 1 /\ size <= Len(v)
    BY <1>2
  <2>2. data \in Seq(Byte) /\ Len(data) = IF 1 <= size THEN size - 1 + 1 ELSE 0
    BY <2>1, PieceType
  <2> HIDE DEF data
  <2> QED BY <1>2, <2>2
<1> HIDE DEF size, data
<1>4. Len(r.body \o data) = r.contentLength
  <2>1. r.body \in Seq(Byte) /\ data \in Seq(Byte)
    BY <1>2, <1>3
  <2>2. Len(r.body \o data) = Len(r.body) + Len(data)
    BY <2>1, ConcatProperties
  <2> QED BY <1>2, <1>3, <2>2
<1>5. /\ new.body = r.body \o data /\ new.contentLength = r.contentLength
      /\ new.state = r.state /\ new.hasTransferEncoding = r.hasTransferEncoding
      /\ new.hasContentLength = r.hasContentLength /\ new.chunked = r.chunked
      /\ new.chunkedState = r.chunkedState /\ new.contentType = r.contentType
      /\ new.boundary = r.boundary
  BY DEF WellFormed
<1> HIDE DEF new
<1>6. AtSizedBody(new)
  BY <1>5 DEF AtSizedBody, AtContent
<1>7. BodyComplete(new)
  BY <1>4, <1>5, <1>6 DEF BodyComplete, AtSizedBody
<1>8. ASSUME EndlessBody(r) PROVE EndlessBody(new)
  <2>1. Len(r.body) = r.contentLength
    BY <1>8 DEF EndlessBody, BodyComplete, AtChunk, AtSizedBody
  <2>2. data = <<>>
    <3>1. Len(data) = 0
      BY <1>2, <1>3, <2>1
    <3> QED BY <1>3, <3>1, EmptySeq
  <2>3. new.body = r.body
    BY <1>2, <1>5, <2>2, ConcatEmptySeq
  <2> QED BY <1>5, <1>7, <1>8, <2>3 DEF EndlessBody, IsMultipart, Unterminated, ClosingDelimiter
<1> QED BY <1>1, <1>7, <1>8 DEF Did

LEMMA IterationEnds ==
  ASSUME NEW p \in Phases, NEW r, WellFormed(r), NEW v \in Seq(Byte)
  PROVE  LET did == Iteration(p, r, v)
         IN /\ did.next = "decode" => BodyComplete(did.req)
            /\ did.next = "BAD" => p = "parse"
            /\ did.next = "AGAIN" =>
                 p = "parse" \/ (p = "decode" /\ IsMultipart(r) /\ Unterminated(r))
            /\ p # "parts" /\ EndlessBody(r) =>
                 did.next \in {"decode", "BAD", "AGAIN"} /\ EndlessBody(did.req)
<1> DEFINE did == Iteration(p, r, v)
<1>1. CASE p # "parse"
  <2>1. did = IF p = "parts" THEN decodePart(r)
              ELSE IF IsMultipart(r) THEN decodeMultipart(r) ELSE decodeContent(r)
    BY <1>1 DEF Iteration, Phases
  <2>2. /\ decodePart(r).next \in {"OK", "parts"} /\ decodeContent(r).next = "OK"
    BY DEF decodePart, decodeContent, Ends, Did
  <2>3. decodeMultipart(r).next = (IF Unterminated(r) THEN "AGAIN" ELSE "parts")
        /\ decodeMultipart(r).req = r
    BY DEF decodeMultipart, Ends, Did
  <2> HIDE DEF did
  <2> QED BY <1>1, <2>1, <2>2, <2>3 DEF EndlessBody, Phases, did
<1>2. CASE p = "parse" /\ ~AtContent(r)
  <2>1. did.next # "decode"
    <3>1. did \in {parseRequestLine(r, v), Did(r, 0, p), parseHeaderEnd(r, v),
                   parseHeaderLine(r, v), parseNoBody(r)}
      BY <1>2 DEF Iteration, AtChunk, AtSizedBody
    <3>2. /\ Did(r, 0, p).next # "decode" /\ parseHeaderEnd(r, v).next # "decode"
          /\ parseNoBody(r).next # "decode"
      BY <1>2 DEF Did, Ends, parseHeaderEnd, parseNoBody
    <3>3. parseRequestLine(r, v).next # "decode"
      BY DEF Did, Ends, parseRequestLine
    <3>4. parseHeaderLine(r, v).next # "decode"
      BY DEF Did, Ends, parseHeaderLine
    <3> HIDE DEF did
    <3> QED BY <3>1, <3>2, <3>3, <3>4
  <2> QED BY <1>2, <2>1 DEF EndlessBody, BodyComplete
<1>3. CASE p = "parse" /\ AtContent(r)
  <2>1. did =
          IF AtChunk(r, "NO_LEN") THEN parseChunkSize(r, v)
          ELSE IF AtChunk(r, "NO_DATA") THEN parseChunkData(r, v)
          ELSE IF AtChunk(r, "DONE") THEN parseLastChunk(r, v)
          ELSE IF AtSizedBody(r) THEN parseSizedBody(r, v)
          ELSE parseNoBody(r)
    BY <1>3 DEF Iteration, AtContent, AtLine, AtHeaderEnd, AtHeaderLine
  <2>2. EndlessBody(r) => /\ ~AtChunk(r, "NO_LEN") /\ ~AtChunk(r, "NO_DATA")
                          /\ AtChunk(r, "DONE") \/ AtSizedBody(r)
    BY DEF EndlessBody, BodyComplete, AtChunk, AtSizedBody
  <2>3. parseChunkSize(r, v).next # "decode"
    BY DEF parseChunkSize, Did, Ends
  <2>4. parseChunkData(r, v).next # "decode" /\ parseNoBody(r).next # "decode"
    BY DEF parseChunkData, parseNoBody, Did, Ends
  <2>5. parseLastChunk(r, v).next \in {"decode", "BAD", "AGAIN"}
        /\ parseLastChunk(r, v).req = r
    BY DEF parseLastChunk, Did, Ends
  <2>6. AtChunk(r, "DONE") => BodyComplete(r)
    BY DEF BodyComplete, AtChunk
  <2>7. CASE ~AtChunk(r, "NO_LEN") /\ ~AtChunk(r, "NO_DATA") /\ ~AtChunk(r, "DONE") /\ AtSizedBody(r)
    <3>1. did = parseSizedBody(r, v)
      BY <2>1, <2>7
    <3>2. CASE did.next = "AGAIN"
      <4>1. did.req = r
        BY <1>3, <3>2, IterationSound DEF Sound
      <4> QED BY <1>3, <3>2, <4>1
    <3>3. CASE did.next # "AGAIN"
      BY <1>3, <2>7, <3>1, <3>3, SizedBodyCompletes
    <3> QED BY <3>2, <3>3
  <2>8. CASE ~(~AtChunk(r, "NO_LEN") /\ ~AtChunk(r, "NO_DATA") /\ ~AtChunk(r, "DONE") /\ AtSizedBody(r))
    <3> HIDE DEF did
    <3> QED BY <1>3, <2>1, <2>2, <2>3, <2>4, <2>5, <2>6, <2>8 DEF did
  <2> QED BY <2>7, <2>8
<1> QED BY <1>1, <1>2, <1>3

(* The invariant: the parser is in step with the run on all of the wire,   *)
(* or that run waits for an endless body.                                  *)
Reaches(text, c) == \E n \in Nat : Parsed(text, n) = c
Tracks(p, r) == Reaches(wire, Progress(p, r, At))

RefusedInStep ==
  \/ Tracks("BAD", req)
  \/ read > MaxLine
  \/ Tracks("parse", req) /\ req.header.length > MaxHeader

InStep ==
  /\ phase \in Phases => Tracks(phase, req) /\ context = TRUE
  /\ phase = "decode" => BodyComplete(req)
  /\ phase \in {"wait", "recv"} => Tracks("parse", RequestOf)
  /\ phase = "respond" => context = TRUE
  /\ phase = "respond" /\ verdict = "OK" => Tracks("OK", req)
  /\ phase = "respond" /\ verdict = "AGAIN"
       => Tracks("parse", req) /\ Iteration("parse", req, view).next = "AGAIN"
  /\ phase = "respond" /\ verdict = "BAD" => RefusedInStep

Endless ==
  /\ \E n \in Nat : Parsed(wire, n).phase = "AGAIN"
  /\ EndlessBody(req)
  /\ phase # "parts"
  /\ phase # "out" => context = TRUE
  /\ phase = "respond" => verdict # "OK"

ServerInv == ServerTypeOK /\ (InStep \/ Endless)

(* An iteration that is not one of waiting takes the run on.               *)
LEMMA TracksOn ==
  ASSUME ServerTypeOK, phase \in Phases, Tracks(phase, req), ~TooLong,
         Doing.next # "AGAIN",
         Doing.next = "BAD" => ~(req.header.length > MaxHeader)
  PROVE  Reaches(wire, Progress(Doing.next, Doing.req, At + Doing.retrieved))
<1> DEFINE x == SubSeq(wire, read + 1, Len(wire))
           rest == From(wire, At + 1)
<1> PICK n \in Nat : Parsed(wire, n) = Progress(phase, req, At)
  BY DEF Tracks, Reaches
<1>1. /\ wire \in Seq(Byte) /\ view \in Seq(Byte) /\ WellFormed(req)
      /\ At \in Nat /\ read \in Nat /\ At <= read /\ read <= Len(wire) /\ Len(wire) \in Nat
      /\ view = SubSeq(wire, At + 1, read)
  BY ViewFacts DEF ServerTypeOK
<1>2. x \in Seq(Byte) /\ view \o x = rest
  <2> DEFINE a == At
             r == read
             l == Len(wire) - read
  <2>1. a \in Nat /\ r \in Nat /\ l \in Nat /\ a <= r /\ r + l <= Len(wire) /\ r + l = Len(wire)
    BY <1>1
  <2> HIDE DEF a, r, l
  <2>2. /\ SubSeq(wire, r + 1, r + l) \in Seq(Byte)
        /\ SubSeq(wire, a + 1, r) \o SubSeq(wire, r + 1, r + l) = SubSeq(wire, a + 1, r + l)
    BY <1>1, <2>1, WindowGrows
  <2> QED BY <1>1, <2>1, <2>2 DEF a, r, From
<1> DEFINE did == Doing
<1>3. did = Iteration(phase, req, view)
  BY DEF Doing
<1> HIDE DEF x, rest
<1>4. Iteration(phase, req, rest) = did
  <2>1. Iteration(phase, req, view).next # "AGAIN"
        /\ (Iteration(phase, req, view).next = "BAD" => ~(req.header.length > MaxHeader))
    BY <1>3
  <2>2. Iteration(phase, req, view \o x) = Iteration(phase, req, view)
    <3>1. WellFormed(req) /\ view \in Seq(Byte) /\ x \in Seq(Byte) /\ phase \in Phases
      BY <1>1, <1>2
    <3> QED BY <2>1, <3>1, IterationKept, Zenon
  <2> QED BY <1>2, <1>3, <2>2
<1>5. phase \notin Verdicts
  BY DEF Phases, Verdicts
<1> HIDE DEF did
<1>6. After(wire, Progress(phase, req, At)) = Progress(did.next, did.req, At + did.retrieved)
  <2> DEFINE c == Progress(phase, req, At)
  <2>1. c.phase = phase /\ c.req = req /\ c.at = At
    BY DEF Progress
  <2> HIDE DEF c
  <2>2. Iteration(c.phase, c.req, From(wire, c.at + 1)) = did
    BY <1>4, <2>1 DEF rest
  <2>3. After(wire, c) = Progress(did.next, did.req, c.at + did.retrieved)
    BY <1>5, <2>1, <2>2, Zenon DEF After
  <2> QED BY <2>1, <2>3 DEF c
<1>7. Parsed(wire, n + 1) = After(wire, Parsed(wire, n)) /\ n + 1 \in Nat
  BY ParsedSteps
<1> QED BY <1>6, <1>7 DEF did, Reaches

(* What the steps that do not parse change.                                *)
LEMMA OtherStep ==
  ASSUME ServerTypeOK, [HNext]_hvars, ~Parse
  PROVE  /\ wire' = wire /\ client' = client /\ At' = At
         /\ \/ /\ UNCHANGED <<phase, req, verdict, context>>
               /\ phase = "recv" \/ UNCHANGED <<view, read>>
            \/ phase = "wait" /\ phase' = "recv" /\ UNCHANGED <<req, context>>
            \/ phase' = "out" /\ UNCHANGED req
            \/ phase = "recv" /\ phase' = "parse" /\ req' = RequestOf /\ context' = TRUE
            \/ /\ phase = "respond" /\ verdict = "AGAIN" /\ phase' = "wait"
               /\ UNCHANGED <<req, context>>
<1>1. CASE Recv
  <2>1. UNCHANGED <<client, wire, phase, req, verdict, context>> /\ phase = "recv"
    BY <1>1 DEF Recv, clientvars
  <2> QED BY <1>1, <2>1, RecvStep
<1>2. ASSUME UNCHANGED <<buf, read>> PROVE UNCHANGED <<view, read>> /\ At' = At
  BY <1>2 DEF view, At, ReadableBytes
<1>3. CASE ClientSends \/ Send \/ ClientEnd \/ UNCHANGED hvars
  <2>1. UNCHANGED <<client, wire, phase, req, verdict, context, buf, read>>
    BY <1>3 DEF ClientSends, Send, ClientEnd, clientvars, hvars
  <2> QED BY <1>2, <2>1
<1>4. CASE OnRecv \/ RecvCloses \/ OnMessage
  <2>1. UNCHANGED <<client, wire, buf, read>>
    BY <1>4 DEF OnRecv, RecvCloses, OnMessage, clientvars
  <2>2. \/ phase = "wait" /\ phase' = "recv" /\ UNCHANGED <<req, context>>
        \/ phase' = "out" /\ UNCHANGED req
        \/ phase = "recv" /\ phase' = "parse" /\ req' = RequestOf /\ context' = TRUE
    BY <1>4 DEF OnRecv, RecvCloses, OnMessage
  <2> QED BY <1>2, <2>1, <2>2
<1>5. CASE AnswerAgain \/ Dispatch
  <2>1. UNCHANGED <<client, wire, buf, read>>
    BY <1>5 DEF AnswerAgain, Dispatch, clientvars
  <2>2. \/ phase' = "out" /\ UNCHANGED req
        \/ /\ phase = "respond" /\ verdict = "AGAIN" /\ phase' = "wait"
           /\ UNCHANGED <<req, context>>
    BY <1>5 DEF AnswerAgain, Dispatch
  <2> QED BY <1>2, <2>1, <2>2
<1> QED BY <1>1, <1>3, <1>4, <1>5 DEF HNext, ServerStep

LEMMA OtherStepKeeps ==
  ASSUME ServerTypeOK, [HNext]_hvars, ~Parse
  PROVE  /\ InStep => InStep'
         /\ Endless => Endless'
<1>0. /\ wire' = wire /\ client' = client /\ At' = At
      /\ \/ /\ UNCHANGED <<phase, req, verdict, context>>
            /\ phase = "recv" \/ UNCHANGED <<view, read>>
         \/ phase = "wait" /\ phase' = "recv" /\ UNCHANGED <<req, context>>
         \/ phase' = "out" /\ UNCHANGED req
         \/ phase = "recv" /\ phase' = "parse" /\ req' = RequestOf /\ context' = TRUE
         \/ /\ phase = "respond" /\ verdict = "AGAIN" /\ phase' = "wait"
            /\ UNCHANGED <<req, context>>
  BY OtherStep
<1> DEFINE T(p, r) == Reaches(wire, Progress(p, r, At))
<1>1. /\ \A p, r : Tracks(p, r) <=> T(p, r)
      /\ Tracks("parse", req)' <=> T("parse", req')
      /\ Tracks("parse", RequestOf)' <=> T("parse", RequestOf')
      /\ Tracks("OK", req)' <=> T("OK", req')
      /\ Tracks("BAD", req)' <=> T("BAD", req')
      /\ Tracks(phase, req)' <=> T(phase', req')
  BY <1>0 DEF Tracks
<1>2. context \in BOOLEAN
  BY DEF ServerTypeOK
<1> HIDE DEF T
<1>3. ASSUME InStep PROVE InStep'
  <2>1. CASE UNCHANGED <<phase, req, verdict, context>> /\ (phase = "recv" \/ UNCHANGED <<view, read>>)
    <3>1. RequestOf' = RequestOf
      BY <2>1 DEF RequestOf
    <3> QED BY <1>1, <1>3, <2>1, <3>1 DEF InStep, RefusedInStep, Phases
  <2>2. CASE phase = "wait" /\ phase' = "recv" /\ UNCHANGED <<req, context>>
    <3>1. RequestOf' = RequestOf
      BY <2>2 DEF RequestOf
    <3> QED BY <1>1, <1>3, <2>2, <3>1 DEF InStep, Phases
  <2>3. CASE phase' = "out" /\ UNCHANGED req
    BY <2>3 DEF InStep, Phases
  <2>4. CASE phase = "recv" /\ phase' = "parse" /\ req' = RequestOf /\ context' = TRUE
    BY <1>1, <1>3, <2>4 DEF InStep, Phases
  <2>5. CASE phase = "respond" /\ verdict = "AGAIN" /\ phase' = "wait" /\ UNCHANGED <<req, context>>
    <3>1. RequestOf' = req
      BY <1>3, <2>5 DEF InStep, RequestOf
    <3> QED BY <1>1, <1>3, <2>5, <3>1 DEF InStep, Phases
  <2> QED BY <1>0, <2>1, <2>2, <2>3, <2>4, <2>5
<1>4. ASSUME Endless PROVE Endless'
  <2>1. req' = req
    <3>1. CASE phase = "recv" /\ req' = RequestOf
      BY <1>4, <3>1 DEF Endless, RequestOf
    <3> QED BY <1>0, <3>1
  <2> QED BY <1>0, <1>4, <2>1 DEF Endless
<1> QED BY <1>3, <1>4

LEMMA ParseKeeps ==
  ASSUME ServerTypeOK, Parse, InStep \/ Endless
  PROVE  InStep' \/ Endless'
<1> DEFINE did == Doing
           c == Progress(did.next, did.req, At + did.retrieved)
<1>1. /\ Sound(did, req, view) /\ phase \in Phases /\ req' = did.req
      /\ IF did.next \in Verdicts THEN phase' = "respond" /\ verdict' = did.next
         ELSE phase' = did.next /\ phase' \in Phases /\ verdict' = verdict
      /\ At' = At + did.retrieved /\ view' = SubSeq(wire, At' + 1, read)
      /\ read' = read /\ context' = context /\ wire' = wire
  BY ParseStep DEF clientvars
<1>2. /\ view \in Seq(Byte) /\ WellFormed(req) /\ At \in Nat /\ read \in Nat
      /\ view = SubSeq(wire, At + 1, read)
      /\ ReadableBytes(buf) \in Nat /\ ReadableBytes(buf) <= read
  BY ViewFacts DEF ServerTypeOK
<1>3. ~TooLong => did = Iteration(phase, req, view)
  BY DEF Doing
<1>4. ~TooLong =>
        /\ did.next = "decode" => BodyComplete(did.req)
        /\ did.next = "BAD" => phase = "parse"
        /\ did.next = "AGAIN" =>
             phase = "parse" \/ (phase = "decode" /\ IsMultipart(req) /\ Unterminated(req))
        /\ phase # "parts" /\ EndlessBody(req) =>
             did.next \in {"decode", "BAD", "AGAIN"} /\ EndlessBody(did.req)
  <2> DEFINE e == Iteration(phase, req, view)
  <2>1. /\ e.next = "decode" => BodyComplete(e.req)
        /\ e.next = "BAD" => phase = "parse"
        /\ e.next = "AGAIN" =>
             phase = "parse" \/ (phase = "decode" /\ IsMultipart(req) /\ Unterminated(req))
        /\ phase # "parts" /\ EndlessBody(req) =>
             e.next \in {"decode", "BAD", "AGAIN"} /\ EndlessBody(e.req)
    <3>1. phase \in Phases /\ WellFormed(req) /\ view \in Seq(Byte)
      BY <1>1, <1>2
    <3> QED BY <3>1, IterationEnds, Zenon
  <2>2. ~TooLong => did = e
    BY <1>3
  <2> HIDE DEF did, e
  <2> QED BY <2>1, <2>2
<1>5. TooLong => did.next = "BAD" /\ did.req = req /\ read > MaxLine
  <2>1. TooLong => did = Ends(req, "BAD") /\ ReadableBytes(buf) > MaxLine
    BY DEF Doing, TooLong, LineTooLong
  <2> HIDE DEF did
  <2>2. TooLong => did.next = "BAD" /\ did.req = req
    BY <2>1 DEF Ends, Did
  <2>3. MaxLine \in Nat
    BY LimitsAreNumbers
  <2> QED BY <1>2, <2>1, <2>2, <2>3
<1>6. InStep /\ ~TooLong /\ did.next # "AGAIN"
        /\ ~(did.next = "BAD" /\ req.header.length > MaxHeader) => Reaches(wire, c)
  BY <1>1, TracksOn DEF InStep
<1>7. c = Progress(did.next, req', At')
  BY <1>1
<1> HIDE DEF did
<1>8. CASE Endless
  <2>1. /\ did.next \in {"decode", "BAD", "AGAIN"} /\ EndlessBody(req')
    BY <1>1, <1>4, <1>5, <1>8 DEF Endless
  <2>2. Endless'
    BY <1>1, <1>8, <2>1 DEF Endless, Phases, Verdicts
  <2> QED BY <2>2
<1>9. CASE InStep /\ TooLong
  <2>1. phase' = "respond" /\ verdict' = "BAD" /\ context' = TRUE /\ read' > MaxLine
    BY <1>1, <1>5, <1>9 DEF InStep, Verdicts
  <2>2. InStep'
    BY <2>1 DEF InStep, RefusedInStep, Phases
  <2> QED BY <2>2
<1>10. CASE InStep /\ ~TooLong /\ did.next = "AGAIN" /\ phase = "parse"
  <2>1. req' = req /\ At' = At
    BY <1>1, <1>2, <1>10 DEF Sound, Verdicts
  <2>2. view' = view
    BY <1>1, <1>2, <2>1
  <2>3. Tracks("parse", req)'
    BY <1>1, <1>10, <2>1 DEF InStep, Tracks
  <2>4. Iteration("parse", req', view').next = "AGAIN"
    BY <1>3, <1>10, <2>1, <2>2
  <2>5. phase' = "respond" /\ verdict' = "AGAIN" /\ context' = TRUE
    BY <1>1, <1>10 DEF InStep, Verdicts
  <2>6. InStep'
    BY <2>3, <2>4, <2>5 DEF InStep, Phases
  <2> QED BY <2>6
<1>11. CASE InStep /\ ~TooLong /\ did.next = "AGAIN" /\ phase # "parse"
  <2>1. phase = "decode" /\ IsMultipart(req) /\ Unterminated(req) /\ BodyComplete(req)
    BY <1>4, <1>11 DEF InStep
  <2>2. \E n \in Nat : Parsed(wire, n).phase = "AGAIN"
    <3>1. PICK n \in Nat : Parsed(wire, n) = Progress("decode", req, At)
      BY <1>1, <1>11, <2>1 DEF InStep, Tracks, Reaches
    <3>2. \A v : Iteration("decode", req, v) = Ends(req, "AGAIN")
      BY <2>1 DEF Iteration, decodeMultipart
    <3> DEFINE p == Parsed(wire, n)
    <3>3. p.phase = "decode" /\ p.req = req
      BY <3>1 DEF Progress
    <3> HIDE DEF p
    <3>4. After(wire, p).phase = "AGAIN"
      <4>1. Iteration(p.phase, p.req, From(wire, p.at + 1)) = Ends(req, "AGAIN")
        BY <3>2, <3>3
      <4>2. p.phase \notin Verdicts
        BY <3>3 DEF Verdicts
      <4> DEFINE e == Ends(req, "AGAIN")
      <4>3. After(wire, p) = Progress(e.next, e.req, p.at + e.retrieved)
        BY <4>1, <4>2, Zenon DEF After
      <4> QED BY <4>3 DEF Progress, Ends, Did
    <3>5. Parsed(wire, n + 1) = After(wire, p) /\ n + 1 \in Nat
      BY ParsedSteps DEF p
    <3> QED BY <3>4, <3>5
  <2>3. req' = req /\ phase' = "respond" /\ verdict' = "AGAIN" /\ context' = TRUE
    BY <1>1, <1>11 DEF InStep, Sound, Verdicts
  <2>4. Endless'
    BY <1>1, <2>1, <2>2, <2>3 DEF Endless, EndlessBody
  <2> QED BY <2>4
<1>12. CASE InStep /\ ~TooLong /\ did.next = "BAD" /\ req.header.length > MaxHeader
  <2>1. phase = "parse" /\ req' = req /\ At' = At
    BY <1>1, <1>2, <1>4, <1>12 DEF Sound, Verdicts
  <2>2. Tracks("parse", req)' /\ req'.header.length > MaxHeader
    BY <1>1, <1>12, <2>1 DEF InStep, Tracks
  <2>3. phase' = "respond" /\ verdict' = "BAD" /\ context' = TRUE
    BY <1>1, <1>12 DEF InStep, Verdicts
  <2>4. InStep'
    BY <2>2, <2>3 DEF InStep, RefusedInStep, Phases
  <2> QED BY <2>4
<1>13. CASE InStep /\ ~TooLong /\ did.next # "AGAIN"
              /\ ~(did.next = "BAD" /\ req.header.length > MaxHeader)
  <2>1. Reaches(wire', Progress(did.next, req', At')) /\ context' = TRUE
    BY <1>1, <1>6, <1>7, <1>13 DEF InStep
  <2> HIDE DEF c
  <2>2. CASE did.next \in Verdicts
    <3>1. phase' = "respond" /\ verdict' \in {"OK", "BAD"}
          /\ Reaches(wire', Progress(verdict', req', At'))
      BY <1>1, <1>13, <2>1, <2>2 DEF Verdicts
    <3>2. InStep'
      BY <2>1, <3>1 DEF InStep, RefusedInStep, Tracks, Phases
    <3> QED BY <3>2
  <2>3. CASE did.next \notin Verdicts
    <3>1. phase' \in Phases /\ Reaches(wire', Progress(phase', req', At'))
          /\ (phase' = "decode" => BodyComplete(req'))
      BY <1>1, <1>4, <1>13, <2>1, <2>3
    <3>2. InStep'
      BY <2>1, <3>1 DEF InStep, Tracks, Phases
    <3> QED BY <3>2
  <2> QED BY <2>2, <2>3
<1> QED BY <1>8, <1>9, <1>10, <1>11, <1>12, <1>13

(* The invariant holds in every reachable state.                           *)
LEMMA ServerInvHolds == HSpec => []ServerInv
<1>1. HInit => ServerInv
  <2> SUFFICES ASSUME HInit PROVE ServerInv
    OBVIOUS
  <2>1. ServerTypeOK /\ phase = "wait" /\ context = FALSE /\ read = 0
    BY InitTypeOK DEF HInit
  <2>2. At = 0
    BY <2>1, ViewFacts
  <2>3. RequestOf = NewRequest
    BY <2>1 DEF RequestOf
  <2>4. Reaches(wire, Start) /\ Start = Progress("parse", NewRequest, 0)
    <3>1. Parsed(wire, 0) = Start /\ 0 \in Nat
      BY ParsedSteps
    <3> QED BY <3>1 DEF Reaches, Start
  <2>5. InStep
    BY <2>1, <2>2, <2>3, <2>4 DEF InStep, Tracks, Phases
  <2> QED BY <2>1, <2>5 DEF ServerInv
<1>2. ServerInv /\ [HNext]_hvars => ServerInv'
  <2> SUFFICES ASSUME ServerInv, [HNext]_hvars PROVE ServerInv'
    OBVIOUS
  <2>1. ServerTypeOK' /\ ServerTypeOK /\ (InStep \/ Endless)
    BY TypeStep DEF ServerInv
  <2>2. InStep' \/ Endless'
    <3>1. CASE Parse
      BY <2>1, <3>1, ParseKeeps
    <3>2. CASE ~Parse
      BY <2>1, <3>2, OtherStepKeeps
    <3> QED BY <3>1, <3>2
  <2> QED BY <2>1, <2>2 DEF ServerInv
<1> QED BY <1>1, <1>2, PTL DEF HSpec

-----------------------------------------------------------------------------
(* The request of a client, which is understood if it arrives at once.     *)
LEMMA ClientsRun ==
  ASSUME ServerTypeOK, UnderstoodAtOnce, client # NoRequest, NEW n \in Nat
  PROVE  LET text == RequestText(client)
             end == Parsed(text, Enough)
         IN /\ text \in Seq(Byte) /\ client.tail \in Seq(Byte) /\ wire = text \o client.tail
            /\ Len(wire) <= MaxLine
            /\ Understood(end.req) = Meant(client) /\ end.at = Len(text)
            /\ Parsed(wire, n) = Parsed(text, n)
            /\ Parsed(text, n).phase \notin {"BAD", "AGAIN"}
            /\ ~(Parsed(text, n).req.header.length > MaxHeader)
            /\ Parsed(text, n).phase = "OK" => Parsed(text, n) = end
<1> DEFINE text == RequestText(client)
           end == Parsed(text, Enough)
           x == client.tail
<1>1. client \in Requests /\ wire = text \o x
  BY DEF ServerTypeOK
<1>2. text \in Seq(Byte) /\ x \in Seq(Byte)
  BY <1>1, HttpAssumption
<1>3. /\ Len(text \o x) <= MaxLine /\ end.phase = "OK" /\ end.at = Len(text)
      /\ Understood(end.req) = Meant(client) /\ end.req.header.length <= MaxHeader
  BY <1>1, Zenon DEF UnderstoodAtOnce, RequestAtOnce
<1>4. Accepted(text, Enough)
  BY <1>3 DEF Accepted
<1> HIDE DEF text, x
<1>5. Parsed(text \o x, n) = Parsed(text, n)
  BY <1>2, <1>4, EnoughAssumption, AcceptedLonger
<1>6. /\ Parsed(text, n).phase \notin {"BAD", "AGAIN"}
      /\ ~(Parsed(text, n).req.header.length > MaxHeader)
      /\ Parsed(text, n).phase = "OK" => Parsed(text, n) = end
  BY <1>2, <1>4, EnoughAssumption, AcceptedRun
<1> HIDE DEF end
<1> QED BY <1>1, <1>2, <1>3, <1>5, <1>6, Zenon DEF text, end, x

(* What is no request is not accepted.                                     *)
LEMMA MalformedRun ==
  ASSUME ServerTypeOK, UnderstoodAtOnce, client = NoRequest, NEW n \in Nat
  PROVE  Parsed(wire, n).phase # "OK"
<1> DEFINE c == Parsed(wire, n)
           e == Parsed(wire, Enough)
<1>1. wire \in Malformed /\ wire \in Seq(Byte)
  BY DEF ServerTypeOK
<1>2. e.phase \in {"BAD", "AGAIN"}
  BY <1>1 DEF UnderstoodAtOnce, MalformedAtOnce
<1>3. /\ n <= Enough => (c.phase \in Verdicts => e = c)
      /\ Enough <= n => (e.phase \in Verdicts => c = e)
  BY <1>1, EnoughAssumption, VerdictStands
<1> HIDE DEF c, e
<1>4. c.phase # "OK"
  BY <1>2, <1>3, EnoughAssumption DEF Verdicts
<1> QED BY <1>4 DEF c

(* Waiting for more, the parser has not read the whole request.            *)
LEMMA NoWaitForTheWhole ==
  ASSUME ServerInv, UnderstoodAtOnce, phase = "respond", verdict = "AGAIN", Complete
  PROVE  FALSE
<1> DEFINE text == RequestText(client)
           x == client.tail
<1>1. ServerTypeOK /\ client # NoRequest /\ read >= Len(text)
  BY DEF ServerInv, Complete
<1>2. \A n \in Nat : /\ Parsed(wire, n) = Parsed(text, n)
                     /\ Parsed(text, n).phase \notin {"BAD", "AGAIN"}
  BY <1>1, ClientsRun
<1>3. text \in Seq(Byte) /\ x \in Seq(Byte) /\ wire = text \o x
  BY <1>1, ClientsRun, 0 \in Nat
<1>4. /\ wire \in Seq(Byte) /\ view \in Seq(Byte) /\ WellFormed(req)
      /\ At \in Nat /\ read \in Nat /\ read <= Len(wire) /\ Len(wire) \in Nat
      /\ view = SubSeq(wire, At + 1, read)
  BY <1>1, ViewFacts DEF ServerTypeOK
<1> HIDE DEF text, x
<1>5. ~Endless
  BY <1>2 DEF Endless
<1>6. Tracks("parse", req) /\ Iteration("parse", req, view).next = "AGAIN"
  BY <1>5 DEF ServerInv, InStep
<1> PICK n \in Nat : Parsed(wire, n) = Progress("parse", req, At)
  BY <1>6 DEF Tracks, Reaches
<1> DEFINE c == Parsed(text, n)
           v == From(text, At + 1)
           did == Iteration("parse", req, v)
<1>7. c = Progress("parse", req, At) /\ ProgressOK(text, c)
  BY <1>2, <1>3, ParsedIsOK
<1>8. At \in 0 .. Len(text) /\ Len(text) \in Nat
  BY <1>3, <1>7 DEF ProgressOK, Progress
<1>9. did.next \notin {"BAD", "AGAIN"}
  <2>1. c.phase = "parse" /\ c.req = req /\ c.at = At
    BY <1>7 DEF Progress
  <2>2. Parsed(text, n + 1) = After(text, c) /\ n + 1 \in Nat
    BY ParsedSteps
  <2> HIDE DEF c
  <2>3. Iteration(c.phase, c.req, From(text, c.at + 1)) = did
    BY <2>1
  <2> HIDE DEF did
  <2>4. After(text, c) = Progress(did.next, did.req, c.at + did.retrieved)
    BY <2>1, <2>3, Zenon DEF After, Verdicts
  <2>5. Parsed(text, n + 1).phase = did.next
    BY <2>2, <2>4 DEF Progress
  <2> QED BY <1>2, <2>2, <2>5
<1> DEFINE y == SubSeq(wire, Len(text) + 1, read)
<1>10. v \in Seq(Byte) /\ y \in Seq(Byte) /\ view = v \o y
  <2> DEFINE a == At
             l == Len(text)
             k == read - Len(text)
  <2>1. a \in Nat /\ l \in Nat /\ k \in Nat /\ a <= l /\ l + k <= Len(wire) /\ l + k = read
    BY <1>1, <1>4, <1>8 DEF text
  <2>2. v \in Seq(Byte)
    <3>1. At + 1 \in Nat \ {0}
      BY <1>8
    <3> QED BY <1>3, <3>1, RestType
  <2>3. SubSeq(wire, a + 1, l) = v
    <3>1. a + 1 \in Int /\ l \in Int /\ 1 <= a + 1 /\ l <= Len(text)
      BY <2>1
    <3>2. SubSeq(text \o x, a + 1, l) = SubSeq(text, a + 1, l)
      BY <1>3, <3>1, PieceKept
    <3> QED BY <1>3, <3>2 DEF From
  <2> HIDE DEF a, l, k, v
  <2>4. /\ SubSeq(wire, l + 1, l + k) \in Seq(Byte)
        /\ SubSeq(wire, a + 1, l) \o SubSeq(wire, l + 1, l + k) = SubSeq(wire, a + 1, l + k)
    BY <1>4, <2>1, WindowGrows
  <2>5. view = SubSeq(wire, a + 1, l + k) /\ y = SubSeq(wire, l + 1, l + k)
    BY <1>4, <2>1 DEF a, l
  <2> HIDE DEF y
  <2> QED BY <2>2, <2>3, <2>4, <2>5
<1> HIDE DEF v, y
<1>11. Iteration("parse", req, v \o y) = did
  BY <1>4, <1>9, <1>10, IterationKept DEF Phases
<1> QED BY <1>6, <1>9, <1>10, <1>11

(* In whatever pieces a text arrives, and however the reads of the socket  *)
(* cut them, the verdict is that of a parser that has all of the wire in   *)
(* front of it: what is accepted is accepted there, with the same request  *)
(* and at the same place, and what is refused within the limits is not     *)
(* accepted there (HttpRequest.cpp:27-397).                                *)
VerdictOfTheWhole ==
  phase = "respond" =>
    /\ verdict = "OK" => Reaches(wire, Progress("OK", req, At))
    /\ verdict = "BAD" /\ read <= MaxLine /\ req.header.length <= MaxHeader
         => \E n \in Nat : Parsed(wire, n).phase \in {"BAD", "AGAIN"}

THEOREM PiecesDoNotMatter == HSpec => []VerdictOfTheWhole
<1>1. ServerInv => VerdictOfTheWhole
  <2> SUFFICES ASSUME ServerInv, phase = "respond" PROVE VerdictOfTheWhole
    BY DEF VerdictOfTheWhole
  <2>1. CASE Endless
    <3>1. (\E n \in Nat : Parsed(wire, n).phase = "AGAIN") /\ verdict # "OK"
      BY <2>1 DEF Endless
    <3> QED BY <3>1 DEF VerdictOfTheWhole
  <2>2. CASE InStep
    <3>1. verdict = "OK" => Reaches(wire, Progress("OK", req, At))
      BY <2>2 DEF InStep, Tracks
    <3>2. ASSUME verdict = "BAD", read <= MaxLine, req.header.length <= MaxHeader
          PROVE  \E n \in Nat : Parsed(wire, n).phase \in {"BAD", "AGAIN"}
      <4>1. RefusedInStep
        BY <2>2, <3>2 DEF InStep
      <4>2. req.header.length \in Nat /\ MaxHeader \in Nat /\ read \in Nat /\ MaxLine \in Nat
        BY ViewFacts, LimitsAreNumbers DEF ServerInv, ServerTypeOK, WellFormed
      <4>3. Tracks("BAD", req)
        BY <3>2, <4>1, <4>2 DEF RefusedInStep
      <4> PICK n \in Nat : Parsed(wire, n) = Progress("BAD", req, At)
        BY <4>3 DEF Tracks, Reaches
      <4>4. Parsed(wire, n).phase = "BAD"
        BY DEF Progress
      <4> QED BY <4>4
    <3> QED BY <3>1, <3>2 DEF VerdictOfTheWhole
  <2> QED BY <2>1, <2>2 DEF ServerInv
<1> QED BY <1>1, ServerInvHolds, PTL

(* A request that is understood when it arrives at once is understood as   *)
(* meant in whatever pieces it arrives (HttpRequest.cpp:27-397).           *)
THEOREM PiecesAreUnderstood ==
  ASSUME UnderstoodAtOnce PROVE HSpec => []UnderstoodAsMeant
<1>1. ServerInv => UnderstoodAsMeant
  <2> SUFFICES ASSUME ServerInv, phase = "respond", verdict = "OK"
               PROVE  client # NoRequest /\ Understood(req) = Meant(client)
    BY Zenon DEF UnderstoodAsMeant
  <2>1. ServerTypeOK /\ Tracks("OK", req)
    BY DEF ServerInv, InStep, Endless
  <2> PICK n \in Nat : Parsed(wire, n) = Progress("OK", req, At)
    BY <2>1 DEF Tracks, Reaches
  <2>2. Parsed(wire, n).phase = "OK" /\ Parsed(wire, n).req = req
    BY DEF Progress
  <2>3. client # NoRequest
    BY <2>1, <2>2, MalformedRun
  <2> DEFINE end == Parsed(RequestText(client), Enough)
  <2>4. Parsed(wire, n) = end /\ Understood(end.req) = Meant(client)
    BY <2>1, <2>2, <2>3, ClientsRun
  <2> HIDE DEF end
  <2> QED BY <2>2, <2>3, <2>4
<1> QED BY <1>1, ServerInvHolds, PTL

(* Such a request is not refused either: 400 is for what is no request     *)
(* (HttpRequest.cpp:60-240, HttpServer.cpp:25-51).                         *)
THEOREM RequestsAreNotRefused ==
  ASSUME UnderstoodAtOnce PROVE HSpec => []RefusesOnlyMalformed
<1>1. ServerInv => RefusesOnlyMalformed
  <2> SUFFICES ASSUME ServerInv, phase = "respond", verdict = "BAD", client # NoRequest
               PROVE  FALSE
    BY Zenon DEF RefusesOnlyMalformed
  <2> DEFINE text == RequestText(client)
  <2>1. ServerTypeOK
    BY DEF ServerInv
  <2>2. \A n \in Nat : /\ Parsed(wire, n) = Parsed(text, n)
                       /\ Parsed(text, n).phase \notin {"BAD", "AGAIN"}
                       /\ ~(Parsed(text, n).req.header.length > MaxHeader)
    BY <2>1, ClientsRun
  <2>3. Len(wire) <= MaxLine
    BY <2>1, ClientsRun, 0 \in Nat
  <2> HIDE DEF text
  <2>4. RefusedInStep
    <3>1. ~Endless
      BY <2>2 DEF Endless
    <3> QED BY <3>1 DEF ServerInv, InStep
  <2>5. CASE Tracks("BAD", req)
    <3> PICK n \in Nat : Parsed(wire, n) = Progress("BAD", req, At)
      BY <2>5 DEF Tracks, Reaches
    <3>1. Parsed(wire, n).phase = "BAD"
      BY DEF Progress
    <3> QED BY <2>2, <3>1
  <2>6. CASE read > MaxLine
    <3>1. MaxLine \in Nat /\ read \in Nat /\ Len(wire) \in Nat /\ read <= Len(wire)
      BY <2>1, ViewFacts, LimitsAreNumbers
    <3> QED BY <2>3, <2>6, <3>1
  <2>7. CASE Tracks("parse", req) /\ req.header.length > MaxHeader
    <3> PICK n \in Nat : Parsed(wire, n) = Progress("parse", req, At)
      BY <2>7 DEF Tracks, Reaches
    <3>1. Parsed(wire, n).req = req
      BY DEF Progress
    <3> QED BY <2>2, <2>7, <3>1
  <2> QED BY <2>4, <2>5, <2>6, <2>7 DEF RefusedInStep
<1> QED BY <1>1, ServerInvHolds, PTL

(* Once all of it is read the parser does not wait for more, so that the   *)
(* client's wait for an answer ends (HttpRequest.cpp:27-58, TcpServer.cpp: *)
(* 214-222).                                                               *)
THEOREM WholeRequestsAreNotWaitedFor ==
  ASSUME UnderstoodAtOnce PROVE HSpec => []WaitsOnlyForMissing
<1>1. ServerInv => WaitsOnlyForMissing
  BY NoWaitForTheWhole DEF WaitsOnlyForMissing
<1> QED BY <1>1, ServerInvHolds, PTL

(* And what comes behind the request stays in the buffer, whatever was     *)
(* read together with its end (HttpRequest.cpp:27-397).                    *)
THEOREM WhatFollowsIsKept ==
  ASSUME UnderstoodAtOnce PROVE HSpec => []StopsAtTheEnd
<1>1. ServerInv => StopsAtTheEnd
  <2> SUFFICES ASSUME ServerInv, phase = "respond", verdict = "OK"
               PROVE  view = SubSeq(wire, Len(RequestText(client)) + 1, read)
    BY Zenon DEF StopsAtTheEnd
  <2>1. ServerTypeOK /\ Tracks("OK", req) /\ view = SubSeq(wire, At + 1, read)
    BY DEF ServerInv, ServerTypeOK, InStep, Endless
  <2> PICK n \in Nat : Parsed(wire, n) = Progress("OK", req, At)
    BY <2>1 DEF Tracks, Reaches
  <2>2. Parsed(wire, n).phase = "OK" /\ Parsed(wire, n).at = At
    BY DEF Progress
  <2>3. client # NoRequest
    BY <2>1, <2>2, MalformedRun
  <2> DEFINE text == RequestText(client)
             end == Parsed(text, Enough)
  <2>4. Parsed(wire, n) = end /\ end.at = Len(text)
    BY <2>1, <2>2, <2>3, ClientsRun
  <2> HIDE DEF end, text
  <2>5. At = Len(text)
    BY <2>2, <2>4
  <2> QED BY <2>1, <2>5 DEF text
<1> QED BY <1>1, ServerInvHolds, PTL

-----------------------------------------------------------------------------
(* What a response takes from the request.                                 *)
Answerable(r) ==
  /\ {"version", "cookie"} \subseteq DOMAIN r
  /\ r.version \in Versions
  /\ r.cookie.sessionId \in Seq(Byte)

LEMMA NewRequestIsAnswerable == Answerable(NewRequest)
<1>1. {"version", "cookie"} \subseteq DOMAIN NewRequest
  BY DEF NewRequest
<1>2. NewRequest.version = "HTTP/1.0" /\ NewRequest.cookie = NoCookie
  BY DEF NewRequest
<1>3. NoCookie.sessionId = <<>>
  BY DEF NoCookie
<1>4. <<>> \in Seq(Byte)
  OBVIOUS
<1> QED BY <1>1, <1>2, <1>3, <1>4 DEF Answerable, Versions

(* A request line that is not refused names one of the versions.           *)
LEMMA VersionOfLine ==
  ASSUME NEW line, RequestLine(line).ok
  PROVE  RequestLine(line).version \in Versions
<1> DEFINE target == From(line, 3)
           space == Find(target, <<Blank>>)
           url == HttpUrl(SubSeq(target, 1, space - 1))
           version == From(target, space + 1)
           good == /\ line # <<>> /\ line[1] \in Methods /\ space > 0 /\ url.ok
                   /\ \E v \in Versions : version = <<v>>
<1>1. RequestLine(line) =
        IF good THEN [ok |-> TRUE, method |-> line[1], url |-> url, version |-> version[1]]
        ELSE [ok |-> FALSE]
  BY Zenon DEF RequestLine, Blank
<1> HIDE DEF url, version
<1>2. good => version[1] \in Versions
  <2>1. \A v \in Versions : <<v>>[1] = v
    OBVIOUS
  <2> QED BY <2>1, Zenon
<1> HIDE DEF good
<1>3. good
  BY <1>1
<1> QED BY <1>1, <1>2, <1>3

(* An iteration leaves the cookie alone, unless it ends the header.        *)
LEMMA IterationAnswerable ==
  ASSUME NEW r, WellFormed(r), Answerable(r), NEW v \in Seq(Byte), NEW p \in Phases
  PROVE  LET did == Iteration(p, r, v)
         IN /\ Answerable(did.req)
            /\ did.req.cookie = r.cookie \/ (p = "parse" /\ AtHeaderEnd(r, v) /\ did.next = "parse")
<1> DEFINE Fine(did) == Answerable(did.req) /\ did.req.cookie = r.cookie
           did == Iteration(p, r, v)
<1>1. \A next, k : Fine(Did(r, k, next)) /\ Fine(Ends(r, next))
  BY DEF Did, Ends
<1>2. ASSUME NEW new, {"version", "cookie"} \subseteq DOMAIN new,
             new.version = r.version, new.cookie = r.cookie
      PROVE  \A next, k : Fine(Did(new, k, next)) /\ Fine(Ends(new, next))
  BY <1>2 DEF Did, Ends, Answerable
<1>3. CASE p = "decode"
  <2>1. Fine(decodeMultipart(r))
    BY <1>1 DEF decodeMultipart
  <2>2. Fine(decodeContent(r))
    <3> DEFINE form(urldecode) == parseKeyValue(r.body, <<"=">>, <<"&">>, EmptyMap, urldecode)
               f == IF r.contentType \in {"URLENCODED", "PLAIN"}
                      THEN form(r.contentType = "URLENCODED") ELSE r.form
               j == IF r.contentType = "JSON" THEN JsonOf(r.body) ELSE r.json
               new == [r EXCEPT !.state = "CHECK_DONE", !.form = f, !.json = j]
    <3>1. decodeContent(r) = Ends(new, "OK")
      BY Zenon DEF decodeContent
    <3> HIDE DEF f, j
    <3>2. {"version", "cookie"} \subseteq DOMAIN new
          /\ new.version = r.version /\ new.cookie = r.cookie
      BY DEF Answerable
    <3> HIDE DEF new, Fine
    <3> QED BY <1>2, <3>1, <3>2
  <2>3. did = decodeMultipart(r) \/ did = decodeContent(r)
    BY <1>3 DEF Iteration
  <2> QED BY <2>1, <2>2, <2>3
<1>4. CASE p = "parts"
  <2> DEFINE a == [r EXCEPT !.state = "CHECK_DONE"]
             b == [r EXCEPT !.multipart = PartStep(r.body, r.boundary, r.multipart)]
  <2>1. did = Ends(a, "OK") \/ did = Did(b, 0, "parts")
    BY <1>4 DEF Iteration, decodePart
  <2>2. /\ {"version", "cookie"} \subseteq DOMAIN a /\ a.version = r.version /\ a.cookie = r.cookie
        /\ {"version", "cookie"} \subseteq DOMAIN b /\ b.version = r.version /\ b.cookie = r.cookie
    BY DEF Answerable
  <2> HIDE DEF a, b, Fine, did
  <2>3. Fine(Ends(a, "OK")) /\ Fine(Did(b, 0, "parts"))
    BY <1>2, <2>2
  <2>4. Fine(did)
    BY <2>1, <2>3
  <2> QED BY <2>4 DEF Fine, did
<1>5. CASE p = "parse"
  <2>1. CASE AtLine(r)
    <3> DEFINE end == Find(v, CRLF)
               line == RequestLine(SubSeq(v, 1, end - 1))
               new == [r EXCEPT !.state = "CHECK_HEADER", !.method = line.method,
                                !.url = line.url, !.version = line.version]
    <3>1. did = parseRequestLine(r, v)
      BY <1>5, <2>1 DEF Iteration
    <3> HIDE DEF did
    <3>2. (\E n : did = Ends(r, n)) \/ (line.ok /\ did = Did(new, Consumed(end), "parse"))
      BY <3>1, Zenon DEF parseRequestLine
    <3>3. CASE line.ok /\ did = Did(new, Consumed(end), "parse")
      <4>1. line.version \in Versions
        BY <3>3, VersionOfLine
      <4> HIDE DEF line
      <4>2. {"version", "cookie"} \subseteq DOMAIN new /\ new.version = line.version
            /\ new.cookie = r.cookie
        BY DEF Answerable
      <4>3. did.req = new
        BY <3>3 DEF Did
      <4> HIDE DEF new
      <4> QED BY <4>1, <4>2, <4>3 DEF Answerable, did
    <3> QED BY <1>1, <3>2, <3>3 DEF did
  <2>2. CASE ~AtLine(r) /\ AtHeaderEnd(r, v)
    <3>1. did = Did(r, 0, p) \/ did = parseHeaderEnd(r, v)
      BY <1>5, <2>2 DEF Iteration
    <3> HIDE DEF did
    <3>2. Answerable(WithHeader(r))
      <4> DEFINE cookie == parseCookies(r)
                 new == WithHeader(r)
      <4>1. Field(r, "cookie") \in Seq(Byte)
        BY DEF Field, Get, WellFormed
      <4>2. DOMAIN CodeOf \subseteq Byte /\ Blank \in Byte /\ "byte" \in Byte
        BY WordsAreBytes, HttpAssumption DEF Words
      <4>3. cookie \in CookieSet(Byte)
        BY <4>1, <4>2, CookieType DEF parseCookies
      <4> HIDE DEF cookie
      <4>4. cookie.sessionId \in Seq(Byte)
        BY <4>3 DEF CookieSet
      <4>5. {"version", "cookie"} \subseteq DOMAIN new /\ new.version = r.version
            /\ new.cookie = cookie
        BY DEF WithHeader, Answerable, cookie
      <4> QED BY <4>4, <4>5 DEF Answerable
    <3>3. CASE did = parseHeaderEnd(r, v)
      <4>1. did.req = WithHeader(r) /\ did.next = "parse"
        BY <3>3 DEF parseHeaderEnd, Did
      <4> QED BY <1>5, <2>2, <3>2, <4>1 DEF did
    <3>4. CASE did = Did(r, 0, p)
      BY <1>1, <3>4 DEF did
    <3> QED BY <3>1, <3>3, <3>4
  <2>3. CASE ~AtLine(r) /\ ~AtHeaderEnd(r, v)
    <3> DEFINE header == AddField(r.header, FieldName(SubSeq(v, 1, Find(v, CRLF) - 1)),
                                  FieldValue(SubSeq(v, 1, Find(v, CRLF) - 1)))
               size == hexString2Int(SubSeq(v, 1, Find(Window(v), CRLF) - 1))
               state == IF size = 0 THEN "DONE" ELSE "NO_DATA"
               data == r.body \o SubSeq(v, 1, r.chunkSize)
               all == r.body \o SubSeq(v, 1, r.contentLength - Len(r.body))
               news == {[r EXCEPT !.header = header],
                        [r EXCEPT !.chunkSize = size, !.chunkedState = state],
                        [r EXCEPT !.body = data, !.chunkedState = "NO_LEN"],
                        [r EXCEPT !.body = all], [r EXCEPT !.state = "CHECK_DONE"], r}
    <3>1. \E new \in news : \E k, next : did = Did(new, k, next)
      <4>1. /\ \A new \in news : \A k, next : Did(new, k, next) = Did(new, k, next)
            /\ r \in news /\ [r EXCEPT !.header = header] \in news
            /\ [r EXCEPT !.chunkSize = size, !.chunkedState = state] \in news
            /\ [r EXCEPT !.body = data, !.chunkedState = "NO_LEN"] \in news
            /\ [r EXCEPT !.body = all] \in news /\ [r EXCEPT !.state = "CHECK_DONE"] \in news
        BY Zenon
      <4>2. parseHeaderLine(r, v) \in {Ends(r, "BAD"), Ends(r, "AGAIN"),
               Did([r EXCEPT !.header = header], Consumed(Find(v, CRLF)), "parse")}
        BY Zenon DEF parseHeaderLine
      <4>3. parseChunkSize(r, v) \in {Ends(r, "BAD"), Ends(r, "AGAIN"),
               Did([r EXCEPT !.chunkSize = size, !.chunkedState = state],
                   Consumed(Find(Window(v), CRLF)), "parse")}
        BY Zenon DEF parseChunkSize, Window
      <4>4. parseChunkData(r, v) \in {Ends(r, "BAD"), Ends(r, "AGAIN"),
               Did([r EXCEPT !.body = data, !.chunkedState = "NO_LEN"], r.chunkSize + 2, "parse")}
        BY Zenon DEF parseChunkData
      <4>5. parseLastChunk(r, v) \in {Ends(r, "BAD"), Ends(r, "AGAIN"), Did(r, 2, "decode")}
        BY Zenon DEF parseLastChunk
      <4>6. parseSizedBody(r, v) \in {Ends(r, "AGAIN"),
               Did([r EXCEPT !.body = all], r.contentLength - Len(r.body), "decode")}
        BY Zenon DEF parseSizedBody
      <4>7. parseNoBody(r) \in {Ends([r EXCEPT !.state = "CHECK_DONE"], "OK"), Ends(r, "BAD")}
        BY Zenon DEF parseNoBody
      <4>8. did \in {parseHeaderLine(r, v), parseChunkSize(r, v), parseChunkData(r, v),
                     parseLastChunk(r, v), parseSizedBody(r, v), parseNoBody(r)}
        BY <1>5, <2>3 DEF Iteration
      <4> HIDE DEF did, header, size, state, data, all, news
      <4> QED BY <4>1, <4>2, <4>3, <4>4, <4>5, <4>6, <4>7, <4>8 DEF Ends
    <3>2. \A new \in news : /\ {"version", "cookie"} \subseteq DOMAIN new
                            /\ new.version = r.version /\ new.cookie = r.cookie
      <4> HIDE DEF header, size, state, data, all
      <4> QED BY DEF Answerable
    <3> HIDE DEF did, news, Fine
    <3>3. PICK new \in news : \E k, next : did = Did(new, k, next)
      BY <3>1
    <3>4. Fine(did)
      BY <1>2, <3>2, <3>3
    <3> QED BY <3>4 DEF Fine, did
  <2> QED BY <2>1, <2>2, <2>3
<1> QED BY <1>3, <1>4, <1>5 DEF Phases

(* The responses whose heads are of symbols in P, beside their version, and*)
(* whose bodies are of symbols in N.                                       *)
Responses(P, N) ==
  [version : Versions, status : {"200", "400", "404"}, type : P, close : BOOLEAN,
   cookie : Seq(P), body : Seq(N), file : Seq(N), clears : BOOLEAN]

TypeWords == {"application/octet-stream", "text/html", "text/plain", "image/jpeg", "image/png"}
PageWords == {"<h1>", "</h1>", "HAHA", "what?", "200", "400", "404"}

(* Servlets and files that keep to such symbols.                           *)
Serves(P, N) ==
  /\ HexDigit \subseteq P /\ DOMAIN CodeOf \subseteq P
  /\ {"sessionid", "Max-Age"} \cup TypeWords \subseteq P
  /\ PageWords \subseteq N
  /\ \A p \in DOMAIN Servlets : Servlets[p].type \in P /\ Servlets[p].content \in Seq(N)
  /\ \A p \in DOMAIN Files : Files[p] \in Seq(N)

(* A response keeps to the symbols while beforeServlet and the servlets    *)
(* fill it (HttpServer.cpp:66-73, Servlet.cpp:20-121).                     *)
LEMMA NewResponseType ==
  ASSUME Answerable(req), NEW P, NEW N, Serves(P, N)
  PROVE  NewResponse \in Responses(P, N)
<1>1. req.version \in Versions /\ "application/octet-stream" \in P
  BY DEF Answerable, Serves, TypeWords
<1>2. <<>> \in Seq(P) /\ <<>> \in Seq(N)
  OBVIOUS
<1> QED BY <1>1, <1>2 DEF NewResponse, Responses

LEMMA PreparedType ==
  ASSUME NEW P, NEW N, Serves(P, N), req.cookie.sessionId \in Seq(P),
         NEW resp \in Responses(P, N), NEW prepared \in beforeServlet(resp)
  PROVE  /\ prepared \in Responses(P, N)
         /\ prepared.status = resp.status /\ prepared.body = resp.body
         /\ prepared.file = resp.file /\ prepared.clears = resp.clears
<1> DEFINE text(n) == CookieText(
             [NoCookie EXCEPT !.map = Put(EmptyMap, toLowers(<<"SESSIONID">>), req.cookie.sessionId),
                              !.maxAge = n])
<1>1. ASSUME NEW n \in LeftInMemory PROVE text(n) \in Seq(P)
  <2>1. n \in Nat
    BY DEF LeftInMemory
  <2>2. HexDigit \subseteq P /\ DOMAIN CodeOf \subseteq P /\ "sessionid" \in P /\ "Max-Age" \in P
    BY DEF Serves
  <2> QED BY <2>1, <2>2, SessionCookieText, Zenon
<1>2. prepared = resp \/ \E n \in LeftInMemory : prepared = [resp EXCEPT !.cookie = text(n)]
  BY Zenon DEF beforeServlet
<1> HIDE DEF text
<1>3. \A c \in Seq(P) : LET new == [resp EXCEPT !.cookie = c]
                        IN /\ new \in Responses(P, N) /\ new.status = resp.status
                           /\ new.body = resp.body /\ new.file = resp.file
                           /\ new.clears = resp.clears
  BY DEF Responses
<1>4. CASE \E n \in LeftInMemory : prepared = [resp EXCEPT !.cookie = text(n)]
  <2> PICK n \in LeftInMemory : prepared = [resp EXCEPT !.cookie = text(n)]
    BY <1>4
  <2> DEFINE c == text(n)
  <2>1. c \in Seq(P) /\ prepared = [resp EXCEPT !.cookie = c]
    BY <1>1
  <2> HIDE DEF c
  <2> QED BY <1>3, <2>1
<1> QED BY <1>2, <1>4

LEMMA PageType ==
  ASSUME NEW P, NEW N, Serves(P, N), NEW resp \in Responses(P, N), NEW content \in PageWords
  PROVE  Page(resp, content) \in Responses(P, N) /\ Page(resp, content).status = resp.status
<1>1. resp.status \in N /\ content \in N /\ "<h1>" \in N /\ "</h1>" \in N /\ "text/html" \in P
  BY DEF Responses, Serves, PageWords, TypeWords
<1>2. <<"<h1>", resp.status, "</h1>", content>> \in Seq(N)
  BY <1>1
<1> DEFINE body == resp.body \o <<"<h1>", resp.status, "</h1>", content>>
<1>3. body \in Seq(N)
  <2>1. resp.body \in Seq(N)
    BY DEF Responses
  <2> QED BY <1>2, <2>1, ConcatProperties
<1>4. Page(resp, content) = [resp EXCEPT !.type = "text/html", !.body = body]
  BY Zenon DEF Page, basePage
<1> HIDE DEF body
<1> QED BY <1>1, <1>3, <1>4 DEF Responses

LEMMA DefaultType ==
  ASSUME NEW P, NEW N, Serves(P, N), NEW resp \in Responses(P, N), NEW path
  PROVE  /\ Default(resp, path) \in Responses(P, N)
         /\ resp.status = "400" => Default(resp, path).status = "400"
         /\ resp.status = "200" /\ path \in DOMAIN Files => Default(resp, path).status = "200"
<1> DEFINE p == IF path = <<"/">> THEN <<"/", "index", ".html">> ELSE path
           missing == [resp EXCEPT !.status = "404"]
           type == Ext2HttpContentType[ExtensionOf(p)]
           found == [resp EXCEPT !.type = type, !.body = <<>>, !.file = Files[p]]
<1>1. path \in DOMAIN Files => p = path
  BY HttpAssumption
<1>2. missing \in Responses(P, N) /\ missing.status = "404"
  BY DEF Responses
<1>3. ExtensionOf(p) \in DOMAIN Ext2HttpContentType => type \in P
  <2> DEFINE pairs == {<<e, "text/html">> : e \in HtmlTypes}
                      \cup {<<".txt", "text/plain">>, <<".jpg", "image/jpeg">>, <<".png", "image/png">>}
  <2>1. \A q \in pairs : q[2] \in P
    BY DEF Serves, TypeWords
  <2>2. Ext2HttpContentType = TableOf(pairs)
    BY Zenon DEF Ext2HttpContentType
  <2> HIDE DEF pairs, p
  <2>3. \A x \in DOMAIN TableOf(pairs) : \E q \in pairs : TableOf(pairs)[x] = q[2]
    <3> TAKE x \in DOMAIN TableOf(pairs)
    <3>1. x \in {q[1] : q \in pairs}
      BY DEF TableOf
    <3>2. TableOf(pairs)[x] = (CHOOSE q \in pairs : q[1] = x)[2]
      BY <3>1, Zenon DEF TableOf
    <3>3. (CHOOSE q \in pairs : q[1] = x) \in pairs
      BY <3>1, Zenon
    <3> QED BY <3>2, <3>3
  <2> QED BY <2>1, <2>2, <2>3
<1>4. p \in DOMAIN Files /\ ExtensionOf(p) \in DOMAIN Ext2HttpContentType
        => found \in Responses(P, N) /\ found.status = resp.status
  <2> HIDE DEF type, p
  <2>1. p \in DOMAIN Files => Files[p] \in Seq(N)
    BY DEF Serves
  <2>2. <<>> \in Seq(N)
    OBVIOUS
  <2> QED BY <1>3, <2>1, <2>2 DEF Responses
<1>5. Default(resp, path) =
        IF resp.status = "400" THEN Page(resp, "HAHA")
        ELSE IF p \notin DOMAIN Files THEN Page(missing, "HAHA")
        ELSE IF ExtensionOf(p) \in DOMAIN Ext2HttpContentType THEN found
        ELSE Page(resp, "what?")
  BY Zenon DEF Default
<1> HIDE DEF p, missing, found
<1>6. /\ Page(resp, "HAHA") \in Responses(P, N) /\ Page(resp, "HAHA").status = resp.status
      /\ Page(resp, "what?") \in Responses(P, N) /\ Page(resp, "what?").status = resp.status
      /\ Page(missing, "HAHA") \in Responses(P, N)
  BY <1>2, PageType DEF PageWords
<1> QED BY <1>1, <1>4, <1>5, <1>6

IsServlet(servlet) == \E p \in DOMAIN Servlets : servlet = Servlets[p]

(* find_match returns a registered servlet, or the default.                *)
LEMMA MatchFound ==
  ASSUME NEW path, NEW servlet \in FindMatch(path)
  PROVE  /\ IsServlet(servlet) \/ servlet = DefaultServlet
         /\ path \in DOMAIN Servlets => servlet = Servlets[path]
<1> DEFINE matching == {p \in DOMAIN Servlets : Matches(p, path)}
<1>1. FindMatch(path) = IF path \in DOMAIN Servlets THEN {Servlets[path]}
                        ELSE IF matching # {} THEN {Servlets[p] : p \in matching}
                        ELSE {DefaultServlet}
  BY Zenon DEF FindMatch
<1>2. matching \subseteq DOMAIN Servlets
  OBVIOUS
<1> HIDE DEF matching
<1> QED BY <1>1, <1>2 DEF IsServlet

LEMMA HandledType ==
  ASSUME NEW P, NEW N, Serves(P, N), NEW resp \in Responses(P, N), NEW path,
         NEW servlet \in FindMatch(path), resp.body = <<>>, resp.file = <<>>
  PROVE  LET new == Handled(servlet, resp, path)
         IN /\ new \in Responses(P, N)
            /\ resp.status = "400" => new.status = "400"
            /\ path \in DOMAIN Servlets => new.body = Servlets[path].content /\ new.file = <<>>
            /\ path \in DOMAIN Servlets \cup DOMAIN Files /\ resp.status = "200"
                 => new.status = "200"
<1> DEFINE new == Handled(servlet, resp, path)
<1>1. CASE IsServlet(servlet)
  <2>1. servlet.kind \in {"append", "set"} /\ servlet.type \in P /\ servlet.content \in Seq(N)
    BY <1>1, HttpAssumption DEF IsServlet, Serves
  <2> DEFINE body == resp.body \o servlet.content
             a == [resp EXCEPT !.type = servlet.type, !.body = body]
             s == [resp EXCEPT !.type = servlet.type, !.body = servlet.content, !.clears = TRUE]
  <2>2. body = servlet.content
    BY <2>1, ConcatEmptySeq
  <2>3. new = a \/ new = s
    <3> HIDE DEF body
    <3>1. servlet.kind = "append" => new = a
      BY SMT DEF Handled, body
    <3>2. servlet.kind = "set" => new = s
      BY SMT DEF Handled
    <3> QED BY <2>1, <3>1, <3>2
  <2> HIDE DEF new, body
  <2>4. /\ a \in Responses(P, N) /\ a.status = resp.status
        /\ a.body = servlet.content /\ a.file = <<>>
        /\ s \in Responses(P, N) /\ s.status = resp.status
        /\ s.body = servlet.content /\ s.file = <<>>
    BY <2>1, <2>2 DEF Responses
  <2> HIDE DEF a, s
  <2>5. path \in DOMAIN Servlets => servlet = Servlets[path]
    BY MatchFound
  <2>6. /\ new \in Responses(P, N) /\ new.status = resp.status
        /\ new.body = servlet.content /\ new.file = <<>>
    BY <2>3, <2>4
  <2> QED BY <2>5, <2>6 DEF new
<1>2. CASE ~IsServlet(servlet)
  <2>1. servlet = DefaultServlet /\ path \notin DOMAIN Servlets
    BY <1>2, MatchFound DEF IsServlet
  <2>2. new = Default(resp, path)
    <3>1. servlet.kind = "default"
      BY <2>1 DEF DefaultServlet
    <3> QED BY <3>1, SMT DEF Handled
  <2> QED BY <2>1, <2>2, DefaultType
<1> QED BY <1>1, <1>2

LEMMA CodeWords ==
  ASSUME NEW w \in HexDigit \cup DOMAIN CodeOf
  PROVE  w \in Byte /\ w \notin Versions /\ w # "CR"
<1> DEFINE semi == ";"
           pairs == {<<Blank, 32>>, <<"%", 37>>, <<"&", 38>>, <<"+", 43>>, <<"/", 47>>,
                     <<":", 58>>, <<semi, 59>>, <<"=", 61>>, <<"?", 63>>}
           words == {Blank, "%", "&", "+", "/", ":", semi, "=", "?"}
<1>1. HexDigit \cup DOMAIN CodeOf \subseteq Byte
  BY HttpAssumption, Zenon DEF Words, HexDigit
<1>2. CASE w \in HexDigit
  <2>1. \A i \in 1 .. 16 : UpperDigits[i] \notin {"HTTP/1.0", "HTTP/1.1", "HTTP/2.0", "CR"}
    BY DEF UpperDigits, Digits
  <2> QED BY <1>1, <1>2, <2>1 DEF HexDigit, Versions
<1>3. CASE w \in DOMAIN CodeOf
  <2>1. CodeOf = TableOf(pairs)
    BY Zenon DEF CodeOf, Blank
  <2>2. \A p \in pairs : p[1] \in words
    <3> HIDE DEF semi
    <3> QED OBVIOUS
  <2> HIDE DEF pairs
  <2>3. w \in words
    BY <1>3, <2>1, <2>2 DEF TableOf
  <2>4. \A x \in words : x \notin Versions /\ x # "CR"
    BY Zenon DEF Versions, Blank
  <2> QED BY <1>1, <1>3, <2>3, <2>4
<1> QED BY <1>2, <1>3

LEMMA AnswerWords ==
  /\ {"sessionid", "Max-Age"} \cup TypeWords \cup PageWords \subseteq Byte
  /\ {"content-type", "content-length", "connection", "Close", "set-cookie", "CR", "LF"} \cup Versions
       \subseteq Byte
<1>1. /\ {"200", "400", "404", "content-type", "content-length",
          "connection", "Close", "set-cookie", "sessionid", "Max-Age", "<h1>", "</h1>",
          "HAHA", "what?", "application/octet-stream", "text/html", "text/plain",
          "image/jpeg", "image/png", "CR", "LF"} \subseteq Byte
      /\ Versions \subseteq Byte
  BY HttpAssumption DEF Words
<1> QED BY <1>1 DEF TypeWords, PageWords

LEMMA ServesBytes == Serves(Byte, Byte)
<1>1. HexDigit \subseteq Byte /\ DOMAIN CodeOf \subseteq Byte
  BY CodeWords
<1>2. \A p \in DOMAIN Servlets : Servlets[p].type \in Byte /\ Servlets[p].content \in Seq(Byte)
  BY HttpAssumption
<1>3. \A p \in DOMAIN Files : Files[p] \in Seq(Byte)
  BY HttpAssumption
<1> QED BY <1>1, <1>2, <1>3, AnswerWords DEF Serves

LEMMA ServesPlain == ASSUME PlainServlets PROVE Serves(HeadSymbol, BodySymbol)
<1>1. HexDigit \subseteq HeadSymbol /\ DOMAIN CodeOf \subseteq HeadSymbol
  BY CodeWords DEF HeadSymbol
<1>2. {"sessionid", "Max-Age"} \cup TypeWords \subseteq HeadSymbol
  <2>1. \A w \in {"sessionid", "Max-Age"} \cup TypeWords : w \notin Versions /\ w # "CR"
    BY DEF TypeWords, Versions
  <2> QED BY <2>1, AnswerWords DEF HeadSymbol
<1>3. PageWords \subseteq BodySymbol
  <2>1. \A w \in PageWords : w \notin Versions
    BY DEF PageWords, Versions
  <2> QED BY <2>1, AnswerWords DEF BodySymbol
<1> QED BY <1>1, <1>2, <1>3 DEF Serves, PlainServlets

-----------------------------------------------------------------------------
(* The lines of a head, and the whole answer.                              *)
StartLine(resp) == <<resp.version, Blank, resp.status>>
TypeLine(resp) == <<"content-type", ":", resp.type>>
LengthField == <<"content-length", ":">>
CloseLine == <<"connection", ":", "Close">>
CookieLine(resp) == <<"set-cookie", ":">> \o resp.cookie
FirstLines(resp) ==
  StartLine(resp) \o CRLF \o TypeLine(resp) \o CRLF \o LengthField \o Decimal(ContentLength(resp))
Optional(line, there) == IF there THEN line \o CRLF ELSE <<>>

(* ~HttpResponse, line by line (HttpResponse.cpp:20-45).                   *)
LEMMA TextOfResponse ==
  ASSUME NEW resp
  PROVE  ResponseText(resp) =
           FirstLines(resp) \o CRLF \o Optional(CloseLine, resp.close)
           \o Optional(CookieLine(resp), resp.cookie # <<>>) \o CRLF \o resp.body
<1>1. Optional(CloseLine, resp.close)
        = IF resp.close THEN <<"connection", ":", "Close">> \o CRLF ELSE <<>>
  BY Zenon DEF Optional, CloseLine
<1>2. Optional(CookieLine(resp), resp.cookie # <<>>)
        = IF resp.cookie = <<>> THEN <<>> ELSE <<"set-cookie", ":">> \o resp.cookie \o CRLF
  BY Zenon DEF Optional, CookieLine
<1> QED BY <1>1, <1>2, Zenon
        DEF ResponseText, FirstLines, StartLine, TypeLine, LengthField, Blank

LEMMA SixJoined ==
  ASSUME NEW S, NEW a \in Seq(S), NEW b \in Seq(S), NEW c \in Seq(S), NEW d \in Seq(S),
         NEW e \in Seq(S), NEW f \in Seq(S)
  PROVE  a \o b \o c \o d \o e \o f \in Seq(S)
<1>1. a \o b \o c \in Seq(S)
  BY ConcatProperties, Zenon
<1>2. a \o b \o c \o d \o e \in Seq(S)
  BY <1>1, ConcatProperties, Zenon
<1> QED BY <1>2, ConcatProperties, Zenon

(* The symbols of each line.                                               *)
LEMMA PieceTypes ==
  ASSUME NEW P \in {Byte, HeadSymbol}, NEW N, Serves(P, N), NEW resp \in Responses(P, N)
  PROVE  /\ <<Blank, resp.status>> \in Seq(P) /\ TypeLine(resp) \in Seq(P)
         /\ LengthField \in Seq(P) /\ CloseLine \in Seq(P) /\ CookieLine(resp) \in Seq(P)
         /\ resp.file \in Seq(N) /\ resp.body \in Seq(N)
         /\ StartLine(resp) \in Seq(Byte) /\ StartLine(resp) = <<resp.version>> \o <<Blank, resp.status>>
         /\ ContentLength(resp) \in Nat /\ Decimal(ContentLength(resp)) \in Seq(P)
<1>1. {"200", "400", "404", "content-type", "content-length", "connection", "Close",
       "set-cookie"} \subseteq P
  <2>1. \A w \in {"200", "400", "404", "content-type", "content-length", "connection", "Close",
                  "set-cookie"} : w \in Byte /\ w \notin Versions /\ w # "CR"
    BY AnswerWords DEF Versions, PageWords
  <2> QED BY <2>1 DEF HeadSymbol
<1>2. HexDigit \subseteq P /\ Blank \in P /\ ":" \in P
  BY CodedSymbols DEF Serves
<1>3. /\ resp.status \in {"200", "400", "404"} /\ resp.type \in P /\ resp.cookie \in Seq(P)
      /\ resp.file \in Seq(N) /\ resp.body \in Seq(N) /\ resp.version \in Versions
  BY DEF Responses
<1>4. P \subseteq Byte
  BY DEF HeadSymbol
<1>5. ContentLength(resp) \in Nat
  <2>1. resp.body \o resp.file \in Seq(N)
    BY <1>3, ConcatProperties
  <2> QED BY <2>1, LenProperties DEF ContentLength
<1>6. Decimal(ContentLength(resp)) \in Seq(P)
  <2>1. Decimal(ContentLength(resp)) \in Seq(HexDigit)
    BY <1>5, DecimalType
  <2> QED BY <1>2, <2>1, SequencesGrow
<1>7. resp.status \in P /\ resp.version \in Byte
  BY <1>1, <1>3, AnswerWords
<1>8. <<Blank, resp.status>> \in Seq(P) /\ StartLine(resp) \in Seq(Byte)
      /\ StartLine(resp) = <<resp.version>> \o <<Blank, resp.status>>
  <2>1. Blank \in Byte /\ resp.status \in Byte
    BY <1>2, <1>4, <1>7
  <2> QED BY <1>2, <1>7, <2>1 DEF StartLine
<1>9. TypeLine(resp) \in Seq(P) /\ LengthField \in Seq(P) /\ CloseLine \in Seq(P)
  BY <1>1, <1>2, <1>3 DEF TypeLine, LengthField, CloseLine
<1>10. CookieLine(resp) \in Seq(P)
  <2>1. <<"set-cookie", ":">> \in Seq(P)
    BY <1>1, <1>2
  <2> QED BY <1>3, <2>1, ConcatProperties DEF CookieLine
<1> QED BY <1>3, <1>5, <1>6, <1>8, <1>9, <1>10

(* So an answer is a text.                                                 *)
LEMMA ResponseTextType ==
  ASSUME NEW resp \in Responses(Byte, Byte)
  PROVE  ResponseText(resp) \in Seq(Byte) /\ resp.file \in Seq(Byte)
<1> DEFINE a == StartLine(resp)
           t == TypeLine(resp)
           d == Decimal(ContentLength(resp))
           first == FirstLines(resp)
           o == Optional(CloseLine, resp.close)
           k == Optional(CookieLine(resp), resp.cookie # <<>>)
<1>1. /\ a \in Seq(Byte) /\ t \in Seq(Byte) /\ LengthField \in Seq(Byte) /\ d \in Seq(Byte)
      /\ CloseLine \in Seq(Byte) /\ CookieLine(resp) \in Seq(Byte)
      /\ resp.body \in Seq(Byte) /\ resp.file \in Seq(Byte)
  BY PieceTypes, ServesBytes, Zenon
<1>2. CRLF \in Seq(Byte)
  BY WordsAreBytes
<1>3. first \in Seq(Byte)
  <2> HIDE DEF a, t, d
  <2>1. a \o CRLF \o t \o CRLF \o LengthField \o d \in Seq(Byte)
    BY <1>1, <1>2, SixJoined
  <2> QED BY <2>1, Zenon DEF a, t, d, FirstLines
<1>4. o \in Seq(Byte) /\ k \in Seq(Byte)
  <2>1. \A line \in Seq(Byte) : \A there : Optional(line, there) \in Seq(Byte)
    BY <1>2, ConcatProperties, EmptySeq DEF Optional
  <2> QED BY <1>1, <2>1
<1>5. ResponseText(resp) = first \o CRLF \o o \o k \o CRLF \o resp.body
  BY TextOfResponse, Zenon
<1> HIDE DEF first, o, k
<1> QED BY <1>1, <1>2, <1>3, <1>4, <1>5, SixJoined

-----------------------------------------------------------------------------
(* While the parser works the connection is idle, and it waits closed only *)
(* for a client that has gone.                                             *)
LinkInv ==
  /\ Answerable(req)
  /\ phase \in {"recv", "respond"} \cup Phases => link = "idle"
  /\ phase = "wait" => link = "idle" \/ (link = "closed" /\ gone)

(* A response to a path, of the symbols P in its head and N in its body.   *)
IsAnswer(P, N, status, path, resp) ==
  /\ resp \in Responses(P, N)
  /\ status = "400" => resp.status = "400"
  /\ path \in DOMAIN Servlets => resp.body = Servlets[path].content /\ resp.file = <<>>
  /\ path \in DOMAIN Servlets \cup DOMAIN Files /\ status = "200" => resp.status = "200"

(* The responses a request may get.                                        *)
LEMMA DispatchedType ==
  ASSUME Answerable(req), NEW P, NEW N, Serves(P, N), req.cookie.sessionId \in Seq(P),
         NEW status \in {"200", "400"}, NEW close \in BOOLEAN,
         NEW prepared \in beforeServlet([NewResponse EXCEPT !.status = status, !.close = close]),
         NEW path, NEW servlet \in FindMatch(path),
         NEW resp, resp = Handled(servlet, prepared, path)
  PROVE  IsAnswer(P, N, status, path, resp)
<1> DEFINE fresh == [NewResponse EXCEPT !.status = status, !.close = close]
<1>1. NewResponse \in Responses(P, N) /\ NewResponse.body = <<>> /\ NewResponse.file = <<>>
  <2>1. NewResponse.body = <<>> /\ NewResponse.file = <<>>
    BY DEF NewResponse
  <2> QED BY <2>1, NewResponseType
<1>2. /\ fresh \in Responses(P, N) /\ fresh.status = status
      /\ fresh.body = <<>> /\ fresh.file = <<>>
  BY <1>1 DEF Responses
<1> HIDE DEF fresh
<1>3. prepared \in beforeServlet(fresh)
  BY DEF fresh
<1>4. /\ prepared \in Responses(P, N) /\ prepared.status = status
      /\ prepared.body = <<>> /\ prepared.file = <<>>
  BY <1>2, <1>3, PreparedType
<1>5. LET r == Handled(servlet, prepared, path)
      IN /\ r \in Responses(P, N)
         /\ prepared.status = "400" => r.status = "400"
         /\ path \in DOMAIN Servlets => r.body = Servlets[path].content /\ r.file = <<>>
         /\ path \in DOMAIN Servlets \cup DOMAIN Files /\ prepared.status = "200"
              => r.status = "200"
  BY <1>4, HandledType, Zenon
<1>6. /\ resp \in Responses(P, N)
      /\ prepared.status = "400" => resp.status = "400"
      /\ path \in DOMAIN Servlets => resp.body = Servlets[path].content /\ resp.file = <<>>
      /\ path \in DOMAIN Servlets \cup DOMAIN Files /\ prepared.status = "200"
           => resp.status = "200"
  BY <1>5, Zenon
<1> QED BY <1>4, <1>6 DEF IsAnswer

(* Both ways to answer are an Answer of the connection.                    *)
LEMMA AnswerStep ==
  ASSUME ServerTypeOK, LinkInv, AnswerAgain \/ Dispatch
  PROVE  Answer
<1>1. link = "idle" /\ Answerable(req) /\ Symbol = Byte
  BY HttpAssumption DEF LinkInv, AnswerAgain, Dispatch
<1>2. CASE AnswerAgain
  <2> DEFINE bytes == ResponseText(NewResponse)
  <2>1. bytes \in Seq(Symbol) /\ <<>> \in Seq(Symbol)
    BY <1>1, ServesBytes, NewResponseType, ResponseTextType, EmptySeq
  <2>2. Respond(bytes, <<>>, FALSE) /\ link' = link
    BY <1>2 DEF AnswerAgain
  <2> HIDE DEF bytes
  <2> QED BY <1>1, <2>1, <2>2, Zenon DEF Answer
<1>3. CASE Dispatch
  <2> DEFINE status == IF verdict = "BAD" THEN "400" ELSE "200"
             close == (verdict = "BAD")
             path == req.url.path
             fresh == [NewResponse EXCEPT !.status = IF verdict = "BAD" THEN "400" ELSE @,
                                          !.close = (verdict = "BAD")]
  <2>1. PICK servlet \in FindMatch(path), prepared \in beforeServlet(fresh) :
          Respond(ResponseText(Handled(servlet, prepared, path)),
                  Handled(servlet, prepared, path).file, Handled(servlet, prepared, path).clears)
    BY <1>3, Zenon DEF Dispatch
  <2> DEFINE resp == Handled(servlet, prepared, path)
  <2>2. fresh = [NewResponse EXCEPT !.status = status, !.close = close]
    <3>1. NewResponse.status = "200"
      BY DEF NewResponse
    <3> QED BY <3>1
  <2>3. resp \in Responses(Byte, Byte)
    <3>1. status \in {"200", "400"} /\ close \in BOOLEAN
      OBVIOUS
    <3>2. req.cookie.sessionId \in Seq(Byte)
      BY <1>1 DEF Answerable
    <3> HIDE DEF status, close, fresh
    <3>3. prepared \in beforeServlet([NewResponse EXCEPT !.status = status, !.close = close])
      BY <2>1, <2>2
    <3>4. resp = Handled(servlet, prepared, path)
      OBVIOUS
    <3> HIDE DEF path, resp
    <3>5. IsAnswer(Byte, Byte, status, path, resp)
      BY <1>1, <2>1, <3>1, <3>2, <3>3, <3>4, DispatchedType, ServesBytes, Zenon
    <3> QED BY <3>5 DEF IsAnswer
  <2> HIDE DEF resp, fresh, path, status, close
  <2>4. Respond(ResponseText(resp), resp.file, resp.clears)
    BY <2>1, Zenon DEF resp
  <2>5. ResponseText(resp) \in Seq(Symbol) /\ resp.file \in Seq(Symbol) /\ resp.clears \in BOOLEAN
    BY <1>1, <2>3, ResponseTextType DEF Responses
  <2>6. link' = "armed"
    BY <1>3, Zenon DEF Dispatch
  <2> DEFINE bytes == ResponseText(resp)
             content == resp.file
             clears == resp.clears
  <2>7. /\ bytes \in Seq(Symbol) /\ content \in Seq(Symbol) /\ clears \in BOOLEAN
        /\ Respond(bytes, content, clears)
    BY <2>4, <2>5
  <2> HIDE DEF bytes, content, clears
  <2> QED BY <1>1, <2>6, <2>7 DEF Answer
<1> QED BY <1>2, <1>3

(* Every step is one of the connection's, or does not touch it.            *)
LEMMA ConnectionStep ==
  ASSUME ServerTypeOK, LinkInv, [HNext]_hvars PROVE [CNext]_cvars
<1>1. CASE ClientSends \/ OnRecv \/ Recv \/ OnMessage \/ Parse \/ UNCHANGED hvars
  <2>1. UNCHANGED cvars
    BY <1>1, Zenon DEF ClientSends, OnRecv, Recv, OnMessage, Parse, hvars
  <2> QED BY <2>1
<1>2. CASE RecvCloses
  <2>1. HangUp
    BY <1>2 DEF RecvCloses, HangUp, LinkInv
  <2> QED BY <2>1 DEF CNext, Transfer
<1>3. CASE AnswerAgain \/ Dispatch
  BY <1>3, AnswerStep DEF CNext
<1>4. CASE Send
  <2>1. Transfer
    BY <1>4 DEF Send, Transfer
  <2> QED BY <2>1 DEF CNext
<1>5. CASE ClientEnd
  <2>1. ClientReads \/ ClientCloses
    BY <1>5 DEF ClientEnd
  <2> QED BY <2>1 DEF CNext
<1> QED BY <1>1, <1>2, <1>3, <1>4, <1>5 DEF HNext, ServerStep

LEMMA LinkStep ==
  ASSUME ServerTypeOK, LinkInv, [HNext]_hvars PROVE LinkInv'
<1>1. CASE Parse
  <2>1. /\ phase \in Phases /\ req' = Doing.req /\ UNCHANGED cvars
        /\ phase' = "respond" \/ phase' \in Phases
    BY <1>1, ParseStep
  <2>2. Answerable(req')
    <3>1. TooLong => Doing = Ends(req, "BAD")
      BY DEF Doing
    <3>2. CASE TooLong
      <4>1. Doing.req = req
        BY <3>1, <3>2 DEF Ends, Did
      <4> QED BY <2>1, <4>1 DEF LinkInv
    <3>3. CASE ~TooLong
      <4>1. Doing = Iteration(phase, req, view)
        BY <3>3 DEF Doing
      <4>2. WellFormed(req) /\ view \in Seq(Byte) /\ Answerable(req)
        BY ViewFacts DEF ServerTypeOK, LinkInv
      <4>3. Answerable(Iteration(phase, req, view).req)
        BY <2>1, <4>2, IterationAnswerable
      <4> QED BY <2>1, <4>1, <4>3
    <3> QED BY <3>2, <3>3
  <2> QED BY <2>1, <2>2 DEF LinkInv, cvars, Phases
<1>2. CASE OnMessage
  <2>1. req' = RequestOf /\ UNCHANGED cvars /\ phase = "recv" /\ phase' = "parse"
    BY <1>2 DEF OnMessage
  <2> QED BY <2>1, NewRequestIsAnswerable DEF RequestOf, LinkInv, cvars, Phases
<1>3. CASE ClientSends \/ Recv \/ UNCHANGED hvars
  <2>1. UNCHANGED <<phase, req, link, gone>>
    BY <1>3 DEF ClientSends, Recv, hvars, cvars
  <2> QED BY <2>1 DEF LinkInv
<1>4. CASE OnRecv
  BY <1>4 DEF OnRecv, LinkInv, cvars, Phases
<1>5. CASE RecvCloses
  BY <1>5 DEF RecvCloses, LinkInv, Phases
<1>6. CASE AnswerAgain
  BY <1>6 DEF AnswerAgain, LinkInv, Phases
<1>7. CASE Dispatch
  BY <1>7 DEF Dispatch, LinkInv, Phases
<1>8. CASE Send
  <2>1. UNCHANGED <<phase, req>>
    BY <1>8 DEF Send
  <2>2. CASE HangUp /\ phase \in {"wait", "out"}
    BY <2>1, <2>2 DEF LinkInv, HangUp, Phases
  <2>3. CASE OnSend \/ SendBuffer \/ SendFile \/ SendReturns
    <3>1. link \in {"armed", "sending"}
      BY <2>3 DEF OnSend, SendBuffer, SendFile, SendReturns, MayWrite
    <3> QED BY <2>1, <3>1 DEF LinkInv
  <2> QED BY <1>8, <2>2, <2>3 DEF Send
<1>9. CASE ClientEnd
  <2>1. UNCHANGED <<phase, req, link>> /\ (gone' = gone \/ link # "closed")
    BY <1>9 DEF ClientEnd, ClientReads, ClientCloses
  <2> QED BY <2>1 DEF LinkInv
<1> QED BY <1>1, <1>2, <1>3, <1>4, <1>5, <1>6, <1>7, <1>8, <1>9 DEF HNext, ServerStep

LEMMA LinkHolds == HSpec => [](ServerInv /\ LinkInv)
<1>1. HInit => LinkInv
  BY NewRequestIsAnswerable DEF HInit, CInit, LinkInv, Phases
<1>2. ServerInv /\ LinkInv /\ [HNext]_hvars => LinkInv'
  BY LinkStep DEF ServerInv
<1> QED BY <1>1, <1>2, ServerInvHolds, PTL DEF HSpec

(* The server answers through a connection as TcpConnection has it: one    *)
(* response at a time, made while the connection is idle                   *)
(* (TcpServer.cpp:200-263, HttpServer.cpp:11-56).                          *)
THEOREM ServerUsesAConnection == HSpec => CSpec
<1>1. HInit => CInit
  BY DEF HInit
<1>2. ServerInv /\ LinkInv /\ [HNext]_hvars => [CNext]_cvars
  BY ConnectionStep DEF ServerInv
<1> QED BY <1>1, <1>2, LinkHolds, PTL DEF HSpec, CSpec

(* So the bytes of its answers reach the client in their order, the head   *)
(* before the file (TcpConnection.cpp:51-76, HttpResponse.cpp:20-45).      *)
THEOREM ServerAnswersInOrder == HSpec => []AnswersInOrder
BY ServerUsesAConnection, HeadBeforeFile

(* And the server ends the connection only after the whole answer          *)
(* (TcpServer.cpp:244-263).                                                *)
THEOREM ServerCutsNothingOff == HSpec => []NothingCutOff
BY ServerUsesAConnection, ClosedAfterTheLastByte

-----------------------------------------------------------------------------
(* An answer begins with its version, and has no other.                    *)
Opened(s) ==
  /\ s \in Seq(Byte) /\ Len(s) >= 3 /\ s[1] \in Versions
  /\ \A i \in 2 .. Len(s) : s[i] \notin Versions

(* A text without a version may follow.                                    *)
LEMMA OpenedLonger ==
  ASSUME NEW s, Opened(s), NEW t \in Seq(BodySymbol)
  PROVE  Opened(s \o t) /\ (s \o t)[1] = s[1] /\ (s \o t)[3] = s[3]
<1>1. s \in Seq(Byte) /\ t \in Seq(Byte) /\ Len(s) \in Nat /\ Len(t) \in Nat /\ Len(s) >= 3
  <2>1. t \in Seq(Byte)
    BY SequencesGrow DEF BodySymbol
  <2> QED BY <2>1, LenProperties DEF Opened
<1> DEFINE u == s \o t
<1>2. /\ u \in Seq(Byte) /\ Len(u) = Len(s) + Len(t)
      /\ \A i \in 1 .. Len(s) + Len(t) : u[i] = IF i <= Len(s) THEN s[i] ELSE t[i - Len(s)]
  BY <1>1, ConcatProperties
<1> HIDE DEF u
<1>3. u[1] = s[1] /\ u[3] = s[3]
  <2>1. 1 \in 1 .. Len(s) + Len(t) /\ 3 \in 1 .. Len(s) + Len(t) /\ 1 <= Len(s) /\ 3 <= Len(s)
    BY <1>1
  <2> QED BY <1>2, <2>1
<1>4. ASSUME NEW i \in 2 .. Len(u) PROVE u[i] \notin Versions
  <2>1. CASE i <= Len(s)
    <3>1. i \in 2 .. Len(s) /\ u[i] = s[i]
      BY <1>1, <1>2, <2>1
    <3> QED BY <3>1 DEF Opened
  <2>2. CASE ~(i <= Len(s))
    <3>1. i - Len(s) \in 1 .. Len(t) /\ u[i] = t[i - Len(s)]
      BY <1>1, <1>2, <2>2
    <3>2. \A j \in 1 .. Len(t) : t[j] \notin Versions
      BY DEF BodySymbol
    <3> QED BY <3>1, <3>2
  <2> QED BY <2>1, <2>2
<1>5. Opened(u)
  BY <1>1, <1>2, <1>3, <1>4 DEF Opened
<1> QED BY <1>3, <1>5 DEF u

(* The last version in what the client got is where the last answer starts.*)
LEMMA LastOpened ==
  ASSUME NEW p \in Seq(Byte), NEW a, Opened(a), got = p \o a
  PROVE  LastAnswer = a
<1> DEFINE starts == {i \in DOMAIN got : got[i] \in Versions}
           n == Len(p) + 1
           last == CHOOSE i \in starts : \A j \in starts : j <= i
<1>1. /\ a \in Seq(Byte) /\ Len(a) \in Nat /\ Len(a) >= 3 /\ Len(p) \in Nat
  BY LenProperties DEF Opened
<1>2. /\ got \in Seq(Byte) /\ Len(got) = Len(p) + Len(a)
      /\ \A i \in 1 .. Len(p) + Len(a) : got[i] = IF i <= Len(p) THEN p[i] ELSE a[i - Len(p)]
  BY <1>1, ConcatProperties
<1>3. DOMAIN got = 1 .. Len(p) + Len(a)
  BY <1>2, LenProperties
<1>4. n \in starts
  <2>1. n \in 1 .. Len(p) + Len(a) /\ ~(n <= Len(p)) /\ n - Len(p) = 1
    BY <1>1
  <2>2. got[n] = a[1]
    <3> HIDE DEF n
    <3> QED BY <1>2, <2>1
  <2> QED BY <1>3, <2>1, <2>2 DEF Opened
<1>5. ASSUME NEW j \in starts PROVE j <= n
  <2> SUFFICES ASSUME ~(j <= n) PROVE FALSE
    OBVIOUS
  <2>1. j \in 1 .. Len(p) + Len(a) /\ got[j] \in Versions
    BY <1>3
  <2>2. j - Len(p) \in 2 .. Len(a) /\ ~(j <= Len(p))
    BY <1>1, <2>1
  <2>3. got[j] = a[j - Len(p)]
    BY <1>2, <2>1, <2>2
  <2> QED BY <2>1, <2>2, <2>3 DEF Opened
<1>6. \A j \in starts : j \in Int
  BY <1>1, <1>3
<1> HIDE DEF starts
<1>7. last \in starts /\ \A j \in starts : j <= last
  <2>1. \E i \in starts : \A j \in starts : j <= i
    BY <1>4, <1>5
  <2> QED BY <2>1
<1> HIDE DEF last
<1>8. last = n
  <2>1. last <= n /\ n <= last /\ last \in Int /\ n \in Int
    BY <1>1, <1>4, <1>5, <1>6, <1>7
  <2> HIDE DEF n
  <2> QED BY <2>1
<1>9. LastAnswer = From(got, last)
  BY Zenon DEF LastAnswer, last, starts
<1>10. From(p \o a, n) = a
  <2>1. From(p \o a, n) = From(p, n) \o a
    <3>1. n \in 1 .. Len(p) + 1
      BY <1>1
    <3> QED BY <1>1, <3>1, RestKept
  <2>2. From(p, n) = <<>>
    <3>1. n \in Int /\ Len(p) \in Int /\ Len(p) < n
      BY <1>1
    <3> HIDE DEF n
    <3> QED BY <3>1, SubSeqEmpty DEF From
  <2> QED BY <1>1, <2>1, <2>2, ConcatEmptySeq
<1> QED BY <1>8, <1>9, <1>10

LEMMA PlainSymbols ==
  /\ Seq(HeadSymbol) \subseteq Seq(BodySymbol) /\ Seq(BodySymbol) \subseteq Seq(Byte)
  /\ Seq(HeadSymbol) \subseteq Seq(Byte)
  /\ CRLF \in Seq(BodySymbol) /\ CRLF \in Seq(Byte) /\ Len(CRLF) = 2
<1>1. HeadSymbol \subseteq BodySymbol /\ BodySymbol \subseteq Byte /\ HeadSymbol \subseteq Byte
  BY DEF HeadSymbol, BodySymbol
<1>2. Seq(HeadSymbol) \subseteq Seq(BodySymbol) /\ Seq(BodySymbol) \subseteq Seq(Byte)
      /\ Seq(HeadSymbol) \subseteq Seq(Byte)
  BY <1>1, SequencesGrow
<1>3. "CR" \in BodySymbol /\ "LF" \in BodySymbol
  BY WordsAreBytes DEF BodySymbol, Versions
<1>4. CRLF \in Seq(BodySymbol)
  BY <1>3 DEF CRLF
<1> QED BY <1>2, <1>4, WordsAreBytes

(* Lines that may be there.                                                *)
LEMMA OptionalLine ==
  ASSUME NEW s, NoGap(Byte, s), NEW line \in Seq(HeadSymbol), Len(line) > 0, NEW there \in BOOLEAN
  PROVE  \E h : NoGap(Byte, h) /\ (s \o CRLF) \o Optional(line, there) = h \o CRLF
<1>1. s \in Seq(Byte) /\ line \in Seq(Byte) /\ CRLF \in Seq(Byte)
  BY PlainSymbols DEF NoGap
<1>2. CASE there
  <2> DEFINE h == (s \o CRLF) \o line
  <2>1. NoGap(Byte, line) /\ line[1] # "CR"
    <3>1. \A i \in 1 .. Len(line) : line[i] # "CR"
      BY DEF HeadSymbol
    <3>2. 1 \in 1 .. Len(line)
      OBVIOUS
    <3> QED BY <1>1, <3>1, <3>2, NoGapPiece
  <2>2. NoGap(Byte, h)
    <3>1. "CR" \in Byte /\ "LF" \in Byte
      BY WordsAreBytes
    <3> QED BY <2>1, <3>1, NoGapLine
  <2>3. (s \o CRLF) \o (line \o CRLF) = h \o CRLF
    <3> DEFINE a == s \o CRLF
    <3>1. a \in Seq(Byte) /\ line \in Seq(Byte) /\ CRLF \in Seq(Byte)
      BY <1>1, ConcatProperties
    <3> HIDE DEF a
    <3>2. a \o (line \o CRLF) = (a \o line) \o CRLF
      BY <3>1, ConcatAssociative
    <3> QED BY <3>2, Zenon DEF a
  <2> HIDE DEF h
  <2> QED BY <1>2, <2>2, <2>3 DEF Optional
<1>3. CASE ~there
  <2>1. (s \o CRLF) \o <<>> = s \o CRLF
    <3>1. s \o CRLF \in Seq(Byte)
      BY <1>1, ConcatProperties
    <3> QED BY <3>1, ConcatEmptySeq
  <2> QED BY <1>3, <2>1 DEF Optional
<1> QED BY <1>2, <1>3

(* The lines every head has.                                               *)
LEMMA FirstLinesNoGap ==
  ASSUME PlainServlets, NEW resp \in Responses(HeadSymbol, BodySymbol)
  PROVE  NoGap(Byte, FirstLines(resp))
<1> DEFINE a == StartLine(resp)
           t == TypeLine(resp)
           d == Decimal(ContentLength(resp))
           l == LengthField \o d
<1>1. /\ t \in Seq(HeadSymbol) /\ LengthField \in Seq(HeadSymbol) /\ d \in Seq(HeadSymbol)
      /\ a \in Seq(Byte) /\ <<Blank, resp.status>> \in Seq(HeadSymbol)
  BY PieceTypes, ServesPlain
<1>2. "CR" \in Byte /\ "LF" \in Byte /\ CRLF \in Seq(Byte)
  BY WordsAreBytes
<1>3. NoGap(Byte, a)
  <2>1. resp.version # "CR"
    BY DEF Responses, Versions
  <2>2. Blank # "CR" /\ resp.status # "CR"
    <3>1. Blank # "CR"
      BY CodeWords, CodedSymbols
    <3> QED BY <3>1 DEF Responses
  <2>3. \A i \in 1 .. Len(a) : a[i] # "CR"
    BY <2>1, <2>2 DEF StartLine
  <2> HIDE DEF a
  <2> QED BY <1>1, <2>3, NoGapPiece
<1>4. \A x \in Seq(HeadSymbol) : x \in Seq(Byte) /\ \A i \in 1 .. Len(x) : x[i] # "CR"
  BY PlainSymbols DEF HeadSymbol
<1>5. Len(t) > 0 /\ t[1] # "CR" /\ NoGap(Byte, t)
  <2>1. Len(t) > 0 /\ t[1] # "CR"
    BY DEF TypeLine
  <2> HIDE DEF t
  <2> QED BY <1>1, <1>4, <2>1, NoGapPiece
<1>6. l \in Seq(HeadSymbol) /\ Len(l) > 0 /\ NoGap(Byte, l) /\ l[1] # "CR"
  <2>1. l \in Seq(HeadSymbol) /\ Len(l) = Len(LengthField) + Len(d) /\ Len(d) \in Nat
    BY <1>1, ConcatProperties
  <2>2. Len(LengthField) = 2
    BY DEF LengthField
  <2> HIDE DEF l
  <2>3. Len(l) > 0 /\ 1 \in 1 .. Len(l)
    BY <2>1, <2>2
  <2> QED BY <1>4, <2>1, <2>3, NoGapPiece
<1> DEFINE x == (a \o CRLF) \o t
           y == (x \o CRLF) \o l
<1> HIDE DEF a, t, d, l
<1>7. NoGap(Byte, x)
  BY <1>2, <1>3, <1>5, NoGapLine
<1> HIDE DEF x
<1>8. NoGap(Byte, y)
  BY <1>2, <1>6, <1>7, NoGapLine
<1>9. FirstLines(resp) = y
  <2>1. FirstLines(resp) = (x \o CRLF) \o LengthField \o d
    BY Zenon DEF FirstLines, x, a, t, d
  <2>2. x \o CRLF \in Seq(Byte) /\ LengthField \in Seq(Byte) /\ d \in Seq(Byte)
    BY <1>1, <1>2, <1>4, <1>7, ConcatProperties DEF NoGap
  <2>3. (x \o CRLF) \o LengthField \o d = (x \o CRLF) \o (LengthField \o d)
    BY <2>2, ConcatAssociative
  <2> QED BY <2>1, <2>3 DEF l
<1> QED BY <1>8, <1>9

(* The head of an answer is a text in which no line is empty, and an empty *)
(* line comes behind it.                                                   *)
LEMMA HeadAndBody ==
  ASSUME PlainServlets, NEW resp \in Responses(HeadSymbol, BodySymbol)
  PROVE  \E h : /\ NoGap(Byte, h)
                /\ ResponseText(resp) \o resp.file
                     = ((h \o CRLF) \o CRLF) \o (resp.body \o resp.file)
<1> DEFINE f == FirstLines(resp)
           closes == resp.close
           k == CookieLine(resp)
           has == resp.cookie # <<>>
           o1 == Optional(CloseLine, closes)
           o2 == Optional(k, has)
           b == resp.body
           c == resp.file
<1>1. NoGap(Byte, f) /\ closes \in BOOLEAN /\ has \in BOOLEAN
  BY FirstLinesNoGap DEF Responses
<1>2. CloseLine \in Seq(HeadSymbol) /\ k \in Seq(HeadSymbol)
      /\ b \in Seq(Byte) /\ c \in Seq(Byte) /\ CRLF \in Seq(Byte)
  <2>1. CloseLine \in Seq(HeadSymbol) /\ k \in Seq(HeadSymbol)
        /\ b \in Seq(BodySymbol) /\ c \in Seq(BodySymbol)
    BY PieceTypes, ServesPlain
  <2> QED BY <2>1, PlainSymbols
<1>3. Len(CloseLine) > 0
  BY DEF CloseLine
<1>4. Len(k) > 0
  <2> DEFINE w == <<"set-cookie", ":">>
  <2>1. Len(w) = 2
    OBVIOUS
  <2>2. "set-cookie" \in Byte /\ ":" \in Byte /\ resp.cookie \in Seq(HeadSymbol)
    BY AnswerWords, WordsAreBytes DEF Responses
  <2>3. w \in Seq(Byte) /\ resp.cookie \in Seq(Byte)
    BY <2>2, PlainSymbols
  <2> HIDE DEF w
  <2>4. Len(w \o resp.cookie) = Len(w) + Len(resp.cookie) /\ Len(resp.cookie) \in Nat
    BY <2>3, ConcatProperties
  <2>5. k = w \o resp.cookie
    BY Zenon DEF CookieLine, w
  <2>6. Len(w \o resp.cookie) > 0
    BY <2>1, <2>4
  <2> QED BY <2>5, <2>6, Zenon
<1>5. ResponseText(resp) = f \o CRLF \o o1 \o o2 \o CRLF \o b
  BY TextOfResponse, Zenon
<1> HIDE DEF f, closes, k, has, b, c
<1>6. PICK h1 : NoGap(Byte, h1) /\ (f \o CRLF) \o o1 = h1 \o CRLF
  BY <1>1, <1>2, <1>3, OptionalLine
<1>7. PICK h2 : NoGap(Byte, h2) /\ (h1 \o CRLF) \o o2 = h2 \o CRLF
  BY <1>1, <1>2, <1>4, <1>6, OptionalLine
<1>8. ResponseText(resp) = ((h2 \o CRLF) \o CRLF) \o b
  BY <1>5, <1>6, <1>7, Zenon
<1>9. (((h2 \o CRLF) \o CRLF) \o b) \o c = ((h2 \o CRLF) \o CRLF) \o (b \o c)
  <2> DEFINE x == (h2 \o CRLF) \o CRLF
  <2>1. x \in Seq(Byte)
    BY <1>2, <1>7, ConcatProperties DEF NoGap
  <2> HIDE DEF x
  <2>2. b \in Seq(Byte) /\ c \in Seq(Byte)
    BY <1>2
  <2>3. (x \o b) \o c = x \o (b \o c)
    BY <2>1, <2>2, ConcatAssociative
  <2> QED BY <2>3 DEF x
<1>10. ResponseText(resp) \o c = ((h2 \o CRLF) \o CRLF) \o (b \o c)
  BY <1>8, <1>9
<1>11. ResponseText(resp) \o resp.file = ((h2 \o CRLF) \o CRLF) \o (resp.body \o resp.file)
  BY <1>10, Zenon DEF b, c
<1> QED BY <1>7, <1>11

(* An answer has its version in front, and no other.                       *)
LEMMA AnswerOpened ==
  ASSUME PlainServlets, NEW resp \in Responses(HeadSymbol, BodySymbol)
  PROVE  LET text == ResponseText(resp) \o resp.file
         IN Opened(text) /\ text[3] = resp.status
<1> DEFINE a == StartLine(resp)
           t == TypeLine(resp)
           d == Decimal(ContentLength(resp))
           o == Optional(CloseLine, resp.close)
           k == Optional(CookieLine(resp), resp.cookie # <<>>)
           b == resp.body
           c == resp.file
           Same(s) == Opened(s) /\ s[3] = resp.status
<1>1. /\ t \in Seq(BodySymbol) /\ LengthField \in Seq(BodySymbol) /\ d \in Seq(BodySymbol)
      /\ CloseLine \in Seq(BodySymbol) /\ CookieLine(resp) \in Seq(BodySymbol)
      /\ b \in Seq(BodySymbol) /\ c \in Seq(BodySymbol) /\ CRLF \in Seq(BodySymbol)
  <2>1. /\ t \in Seq(HeadSymbol) /\ LengthField \in Seq(HeadSymbol) /\ d \in Seq(HeadSymbol)
        /\ CloseLine \in Seq(HeadSymbol) /\ CookieLine(resp) \in Seq(HeadSymbol)
        /\ b \in Seq(BodySymbol) /\ c \in Seq(BodySymbol)
    BY PieceTypes, ServesPlain
  <2> QED BY <2>1, PlainSymbols
<1>2. o \in Seq(BodySymbol) /\ k \in Seq(BodySymbol)
  <2>1. \A line \in Seq(BodySymbol) : \A there : Optional(line, there) \in Seq(BodySymbol)
    BY <1>1, ConcatProperties, EmptySeq DEF Optional
  <2> QED BY <1>1, <2>1
<1>3. Same(a)
  <2>1. resp.version \in Versions /\ resp.version \in Byte
    BY AnswerWords DEF Responses
  <2>2. /\ Blank \in Byte /\ Blank \notin Versions
        /\ resp.status \in Byte /\ resp.status \notin Versions
    <3>1. Blank \in Byte /\ Blank \notin Versions
      BY CodeWords, CodedSymbols
    <3> QED BY <3>1, AnswerWords DEF Responses, PageWords, Versions
  <2> QED BY <2>1, <2>2 DEF StartLine, Opened
<1>4. \A s : \A x \in Seq(BodySymbol) : Same(s) => Same(s \o x)
  BY OpenedLonger
<1>5. ResponseText(resp) \o c
        = a \o CRLF \o t \o CRLF \o LengthField \o d \o CRLF \o o \o k \o CRLF \o b \o c
  BY TextOfResponse, Zenon DEF FirstLines
<1> HIDE DEF a, t, d, o, k, b, c, Same
<1>6. Same(a \o CRLF \o t \o CRLF \o LengthField)
  <2>1. Same(a \o CRLF \o t)
    BY <1>1, <1>3, <1>4, Zenon
  <2> QED BY <1>1, <1>4, <2>1, Zenon
<1>7. Same(a \o CRLF \o t \o CRLF \o LengthField \o d \o CRLF)
  BY <1>1, <1>4, <1>6, Zenon
<1>8. Same(a \o CRLF \o t \o CRLF \o LengthField \o d \o CRLF \o o \o k)
  BY <1>2, <1>4, <1>7, Zenon
<1>9. Same(a \o CRLF \o t \o CRLF \o LengthField \o d \o CRLF \o o \o k \o CRLF \o b)
  BY <1>1, <1>4, <1>8, Zenon
<1>10. Same(a \o CRLF \o t \o CRLF \o LengthField \o d \o CRLF \o o \o k \o CRLF \o b \o c)
  BY <1>1, <1>4, <1>9, Zenon
<1>11. Same(ResponseText(resp) \o c)
  BY <1>5, <1>10
<1> QED BY <1>11, Zenon DEF Same, c

-----------------------------------------------------------------------------
(* The text in front of the announced length.                              *)
Announcing(resp) ==
  <<resp.version, Blank, resp.status, "CR", "LF", "content-type", ":", resp.type, "CR", "LF",
    "content-length", ":">>

LEMMA AnnouncingIs ==
  ASSUME NEW resp
  PROVE  Announcing(resp) = StartLine(resp) \o CRLF \o TypeLine(resp) \o CRLF \o LengthField
<1> DEFINE v == resp.version
           s == resp.status
           t == resp.type
           B == Blank
<1> HIDE DEF v, s, t, B
<1>1. <<v, B, s, "CR", "LF", "content-type", ":", t, "CR", "LF", "content-length", ":">>
        = <<v, B, s>> \o <<"CR", "LF">> \o <<"content-type", ":", t>> \o <<"CR", "LF">>
          \o <<"content-length", ":">>
  OBVIOUS
<1> QED BY <1>1, Zenon DEF v, s, t, B, Announcing, StartLine, TypeLine, CRLF, LengthField

LEMMA LengthFieldFound ==
  ASSUME PlainServlets, NEW resp \in Responses(HeadSymbol, BodySymbol)
  PROVE  /\ Announcing(resp) \in Seq(Byte) /\ Len(Announcing(resp)) = 12
         /\ Find(Announcing(resp), LengthField) = 11
<1> DEFINE p == Announcing(resp)
           w == LengthField
<1>1. /\ resp.version \in Versions /\ resp.version \in Byte /\ resp.status \in {"200", "400", "404"}
      /\ resp.type \in Byte /\ resp.status \in Byte
  BY AnswerWords DEF Responses, HeadSymbol, PageWords
<1>2. Blank \in Byte /\ ":" \in Byte /\ "CR" \in Byte /\ "LF" \in Byte
      /\ "content-type" \in Byte /\ "content-length" \in Byte
  BY WordsAreBytes, AnswerWords
<1>3. p \in Seq(Byte) /\ Len(p) = 12 /\ w \in Seq(Byte) /\ Len(w) = 2
      /\ w[1] = "content-length" /\ w[2] = ":"
  BY <1>1, <1>2 DEF Announcing, LengthField
<1>4. /\ p[1] \in Versions /\ p[3] \in {"200", "400", "404"} /\ p[4] = "CR"
      /\ p[5] = "LF" /\ p[6] = "content-type" /\ p[7] = ":" /\ p[9] = "CR" /\ p[10] = "LF"
      /\ p[11] = "content-length" /\ p[12] = ":"
  BY <1>1 DEF Announcing
<1> HIDE DEF p, w
<1>5. \A j \in 1 .. 11 : Hit(p, w, j) <=> p[j] = "content-length" /\ p[j + 1] = ":"
  <2> TAKE j \in 1 .. 11
  <2>1. j \in Nat \ {0} /\ j + Len(w) - 1 <= Len(p)
    BY <1>3
  <2>2. Hit(p, w, j) <=> \A k \in 1 .. Len(w) : p[j + k - 1] = w[k]
    <3>1. p \in Seq(Byte) /\ w \in Seq(Byte)
      BY <1>3
    <3>2. \A i \in Nat \ {0} : i + Len(w) - 1 <= Len(p)
            => (Hit(p, w, i) <=> \A k \in 1 .. Len(w) : p[i + k - 1] = w[k])
      BY <3>1, HitHas
    <3> QED BY <2>1, <3>2, Zenon
  <2>3. j + 1 - 1 = j /\ j + 2 - 1 = j + 1
    OBVIOUS
  <2>4. (\A k \in 1 .. 2 : p[j + k - 1] = w[k]) <=> p[j + 1 - 1] = w[1] /\ p[j + 2 - 1] = w[2]
    OBVIOUS
  <2> QED BY <1>3, <2>2, <2>3, <2>4
<1>6. Hit(p, w, 11)
  BY <1>4, <1>5
<1>7. \A j \in 1 .. 10 : p[j] = "content-length" => j \in {2, 8}
  BY <1>4 DEF Versions
<1>8. \A j \in 1 .. 11 - 1 : ~Hit(p, w, j)
  BY <1>4, <1>5, <1>7
<1>9. 11 \in 1 .. Len(p) - Len(w) + 1
  BY <1>3
<1>10. Find(p, w) = 11
  BY <1>3, <1>6, <1>8, <1>9, FindIs
<1> QED BY <1>3, <1>10 DEF p, w

(* What comes behind the announced length.                                 *)
LEMMA AnnouncedLine ==
  ASSUME PlainServlets, NEW resp \in Responses(HeadSymbol, BodySymbol)
  PROVE  \E z \in Seq(Byte) :
           ResponseText(resp) \o resp.file
             = Announcing(resp) \o (Decimal(ContentLength(resp)) \o (CRLF \o z))
<1> DEFINE p == Announcing(resp)
           d == Decimal(ContentLength(resp))
           o == Optional(CloseLine, resp.close)
           k == Optional(CookieLine(resp), resp.cookie # <<>>)
           b == resp.body
           c == resp.file
           text == ResponseText(resp) \o resp.file
<1>1. /\ p \in Seq(Byte) /\ d \in Seq(Byte) /\ CloseLine \in Seq(Byte)
      /\ CookieLine(resp) \in Seq(Byte) /\ b \in Seq(Byte) /\ c \in Seq(Byte)
      /\ CRLF \in Seq(Byte)
  <2>1. /\ d \in Seq(HeadSymbol) /\ CloseLine \in Seq(HeadSymbol)
        /\ CookieLine(resp) \in Seq(HeadSymbol)
        /\ b \in Seq(BodySymbol) /\ c \in Seq(BodySymbol)
    BY PieceTypes, ServesPlain
  <2>2. p \in Seq(Byte)
    BY LengthFieldFound
  <2> QED BY <2>1, <2>2, PlainSymbols
<1>2. o \in Seq(Byte) /\ k \in Seq(Byte)
  <2>1. \A line \in Seq(Byte) : \A there : Optional(line, there) \in Seq(Byte)
    BY <1>1, ConcatProperties, EmptySeq DEF Optional
  <2> QED BY <1>1, <2>1
<1>3. text = p \o d \o CRLF \o o \o k \o CRLF \o b \o c
  BY TextOfResponse, AnnouncingIs, Zenon DEF FirstLines
<1> HIDE DEF p, d, o, k, b, c, text
<1> DEFINE z == o \o k \o CRLF \o b \o c
<1>4. z \in Seq(Byte)
  <2>1. o \o k \o CRLF \o b \in Seq(Byte)
    <3>1. o \o k \o CRLF \in Seq(Byte)
      <4>1. o \o k \in Seq(Byte)
        BY <1>2, ConcatProperties
      <4> QED BY <1>1, <4>1, ConcatProperties
    <3> QED BY <1>1, <3>1, ConcatProperties
  <2> QED BY <1>1, <2>1, ConcatProperties
<1>5. CRLF \in Seq(Byte) /\ c \in Seq(Byte) /\ b \in Seq(Byte) /\ d \in Seq(Byte) /\ p \in Seq(Byte)
  BY <1>1
<1>6. p \o d \o CRLF \o o \o k \o CRLF \o b \o c = (p \o d \o CRLF) \o z
  <2> DEFINE f == p \o d \o CRLF
             ok == o \o k
             okr == ok \o CRLF
             okb == okr \o b
  <2>1. f \in Seq(Byte)
    <3>1. p \o d \in Seq(Byte)
      BY <1>5, ConcatProperties
    <3> QED BY <1>5, <3>1, ConcatProperties
  <2> HIDE DEF f
  <2>2. (f \o o) \o k = f \o ok /\ ok \in Seq(Byte)
    BY <1>2, <2>1, ConcatAssociative, ConcatProperties
  <2> HIDE DEF ok
  <2>3. (f \o ok) \o CRLF = f \o okr /\ okr \in Seq(Byte)
    <3>1. CRLF \in Seq(Byte) /\ ok \in Seq(Byte)
      BY <1>5, <2>2
    <3> QED BY <2>1, <3>1, ConcatAssociative, ConcatProperties
  <2> HIDE DEF okr
  <2>4. (f \o okr) \o b = f \o okb /\ okb \in Seq(Byte)
    <3>1. b \in Seq(Byte) /\ okr \in Seq(Byte)
      BY <1>5, <2>3
    <3> QED BY <2>1, <3>1, ConcatAssociative, ConcatProperties
  <2> HIDE DEF okb
  <2>5. (f \o okb) \o c = f \o (okb \o c)
    <3>1. c \in Seq(Byte) /\ okb \in Seq(Byte)
      BY <1>5, <2>4
    <3> QED BY <2>1, <3>1, ConcatAssociative
  <2>6. z = okb \o c
    BY Zenon DEF ok, okr, okb
  <2> HIDE DEF z
  <2>7. f \o o \o k \o CRLF \o b \o c = f \o z
    BY <2>2, <2>3, <2>4, <2>5, <2>6
  <2> QED BY <2>7, Zenon DEF f
<1> HIDE DEF z
<1>7. (p \o d \o CRLF) \o z = p \o (d \o (CRLF \o z))
  <2> DEFINE e == d \o CRLF
  <2>0. CRLF \in Seq(Byte) /\ d \in Seq(Byte) /\ p \in Seq(Byte)
    BY <1>5
  <2>1. (p \o d) \o CRLF = p \o e /\ e \in Seq(Byte)
    BY <2>0, ConcatAssociative, ConcatProperties
  <2>2. e \o z = d \o (CRLF \o z)
    <3>1. CRLF \in Seq(Byte) /\ d \in Seq(Byte)
      BY <1>5
    <3> QED BY <1>4, <3>1, ConcatAssociative
  <2> HIDE DEF e
  <2>3. (p \o e) \o z = p \o (e \o z)
    <3>1. p \in Seq(Byte) /\ e \in Seq(Byte)
      BY <1>5, <2>1
    <3> QED BY <1>4, <3>1, ConcatAssociative
  <2> QED BY <2>1, <2>2, <2>3
<1>8. text = p \o (d \o (CRLF \o z))
  BY <1>3, <1>6, <1>7
<1> QED BY <1>4, <1>8 DEF text, p, d

(* A client that got such an answer last sees its status, its body and the *)
(* length it announces.                                                    *)
LEMMA AnswerRead ==
  ASSUME PlainServlets, NEW resp \in Responses(HeadSymbol, BodySymbol),
         NEW prefix \in Seq(Byte), got = prefix \o (ResponseText(resp) \o resp.file)
  PROVE  /\ Status = resp.status
         /\ Body = resp.body \o resp.file
         /\ Announced = Decimal(Len(Body))
<1> DEFINE text == ResponseText(resp) \o resp.file
<1>1. Opened(text) /\ text[3] = resp.status
  BY AnswerOpened
<1>2. LastAnswer = text
  <2> HIDE DEF text
  <2>1. got = prefix \o text
    BY DEF text
  <2> QED BY <1>1, <2>1, LastOpened
<1>3. Status = resp.status
  BY <1>1, <1>2 DEF Status
<1>4. "CR" \in Byte /\ "LF" \in Byte
  BY WordsAreBytes
<1>5. Body = resp.body \o resp.file
  <2> DEFINE rest == resp.body \o resp.file
  <2>1. PICK h : NoGap(Byte, h) /\ text = ((h \o CRLF) \o CRLF) \o rest
    BY HeadAndBody
  <2>2. rest \in Seq(Byte)
    <3>1. resp.body \in Seq(Byte) /\ resp.file \in Seq(Byte)
      BY PlainSymbols DEF Responses
    <3> QED BY <3>1, ConcatProperties
  <2> HIDE DEF rest, text
  <2> DEFINE t == ((h \o CRLF) \o CRLF) \o rest
  <2>3. Find(t, CRLF \o CRLF) = Len(h) + 1 /\ From(t, Len(h) + 1 + 4) = rest
    BY <1>4, <2>1, <2>2, GapFound, Zenon
  <2>4. text = t
    BY <2>1
  <2> HIDE DEF t
  <2>5. Body = From(text, Find(text, CRLF \o CRLF) + 4)
    BY <1>2 DEF Body
  <2> QED BY <2>3, <2>4, <2>5 DEF rest
<1>6. Announced = Decimal(ContentLength(resp))
  <2> DEFINE p == Announcing(resp)
             d == Decimal(ContentLength(resp))
  <2>1. PICK z \in Seq(Byte) : text = p \o (d \o (CRLF \o z))
    BY AnnouncedLine
  <2> DEFINE y == d \o (CRLF \o z)
  <2>2. p \in Seq(Byte) /\ Len(p) = 12 /\ Find(p, LengthField) = 11
    BY LengthFieldFound
  <2>3. d \in Seq(HeadSymbol) /\ LengthField \in Seq(HeadSymbol)
    BY PieceTypes, ServesPlain
  <2>4. d \in Seq(Byte) /\ LengthField \in Seq(Byte) /\ CRLF \in Seq(Byte)
        /\ \A i \in 1 .. Len(d) : d[i] # "CR"
    BY <2>3, PlainSymbols DEF HeadSymbol
  <2> HIDE DEF p, d
  <2>5. SubSeq(y, 1, Find(y, CRLF) - 1) = d
    BY <1>4, <2>4, LineFound, Zenon
  <2>6. y \in Seq(Byte)
    <3>1. CRLF \o z \in Seq(Byte)
      BY <2>4, ConcatProperties
    <3> QED BY <2>4, <3>1, ConcatProperties
  <2> HIDE DEF y, text
  <2>7. text = p \o y
    BY <2>1 DEF y
  <2>8. Find(text, LengthField) = 11
    BY <2>2, <2>4, <2>6, <2>7, FindKept
  <2>9. From(text, 13) = y
    <3>1. 13 \in 1 .. Len(p) + 1 /\ 13 \in Int /\ Len(p) \in Int /\ Len(p) < 13
      BY <2>2
    <3>2. From(p \o y, 13) = From(p, 13) \o y
      BY <2>2, <2>6, <3>1, RestKept
    <3>3. From(p, 13) = <<>>
      BY <3>1, SubSeqEmpty DEF From
    <3> QED BY <2>6, <2>7, <3>2, <3>3, ConcatEmptySeq
  <2>10. Announced = SubSeq(From(text, 13), 1, Find(From(text, 13), CRLF) - 1)
    <3>1. Find(LastAnswer, <<"content-length", ":">>) = 11
      BY <1>2, <2>8 DEF LengthField
    <3>2. 11 + 2 = 13
      OBVIOUS
    <3> DEFINE at == Find(LastAnswer, <<"content-length", ":">>) + 2
    <3>3. Announced = SubSeq(From(LastAnswer, at), 1, Find(From(LastAnswer, at), CRLF) - 1)
      BY Zenon DEF Announced
    <3>4. at = 13
      BY <3>1, <3>2
    <3> HIDE DEF at
    <3> QED BY <1>2, <3>3, <3>4
  <2> QED BY <2>5, <2>9, <2>10 DEF d
<1> QED BY <1>3, <1>5, <1>6 DEF ContentLength

-----------------------------------------------------------------------------
(* The cookie of a request is one the run on the whole wire comes to.      *)
CookieTracked == \E n \in Nat : req.cookie = Parsed(wire, n).req.cookie

LEMMA CookieTracksOn ==
  ASSUME ServerInv, LinkInv, CookieTracked, [HNext]_hvars PROVE CookieTracked'
<1>1. ServerTypeOK
  BY DEF ServerInv
<1>2. CASE Parse
  <2> DEFINE did == Doing
  <2>1. /\ phase \in Phases /\ req' = did.req /\ wire' = wire
        /\ Sound(did, req, view)
    BY <1>1, <1>2, ParseStep DEF clientvars
  <2>2. TooLong => did.next = "BAD"
    <3>1. TooLong => did = Ends(req, "BAD")
      BY DEF Doing
    <3> HIDE DEF did
    <3> QED BY <3>1 DEF Ends, Did
  <2>3. did.next \in {"BAD", "AGAIN"} => did.req = req
    BY <2>1 DEF Sound
  <2>4. CASE did.next \in {"BAD", "AGAIN"}
    BY <2>1, <2>3, <2>4 DEF CookieTracked
  <2>5. CASE did.next \notin {"BAD", "AGAIN"} /\ Endless
    <3>1. did = Iteration(phase, req, view)
      BY <2>2, <2>5 DEF Doing
    <3>2. WellFormed(req) /\ view \in Seq(Byte) /\ Answerable(req)
      BY <1>1, ViewFacts DEF ServerTypeOK, LinkInv
    <3>3. phase # "parts" /\ EndlessBody(req)
      BY <2>5 DEF Endless
    <3> DEFINE e == Iteration(phase, req, view)
    <3>4. e.next \in {"decode", "BAD", "AGAIN"}
      BY <2>1, <3>2, <3>3, IterationEnds, Zenon
    <3>5. e.req.cookie = req.cookie \/ e.next = "parse"
      BY <2>1, <3>2, IterationAnswerable, Zenon
    <3> HIDE DEF did, e
    <3>6. did.req.cookie = req.cookie
      BY <3>1, <3>4, <3>5 DEF e
    <3> QED BY <2>1, <3>6 DEF CookieTracked
  <2>6. CASE did.next \notin {"BAD", "AGAIN"} /\ ~Endless
    <3>1. Tracks(phase, req) /\ ~TooLong
      BY <2>1, <2>2, <2>6 DEF ServerInv, InStep
    <3>2. Reaches(wire, Progress(did.next, did.req, At + did.retrieved))
      BY <1>1, <2>1, <2>6, <3>1, TracksOn
    <3> HIDE DEF did
    <3>3. PICK n \in Nat : Parsed(wire, n) = Progress(did.next, did.req, At + did.retrieved)
      BY <3>2 DEF Reaches
    <3>4. Parsed(wire, n).req = did.req
      BY <3>3 DEF Progress
    <3>5. req'.cookie = Parsed(wire', n).req.cookie
      BY <2>1, <3>4
    <3> QED BY <3>5 DEF CookieTracked
  <2> QED BY <2>4, <2>5, <2>6
<1>3. CASE ~Parse
  <2>1. wire' = wire /\ (req' = req \/ req' = NewRequest)
    BY <1>1, <1>3, OtherStep DEF RequestOf
  <2>2. Parsed(wire, 0).req = NewRequest
    BY ParsedSteps DEF Start, Progress
  <2>3. CASE req' = req
    BY <2>1, <2>3 DEF CookieTracked
  <2>4. CASE req' = NewRequest
    <3>1. req'.cookie = Parsed(wire', 0).req.cookie /\ 0 \in Nat
      BY <2>1, <2>2, <2>4
    <3> QED BY <3>1 DEF CookieTracked
  <2> QED BY <2>1, <2>3, <2>4
<1> QED BY <1>2, <1>3

(* The last response owed to a client that is still there.                 *)
Fits(resp) ==
  IF client = NoRequest THEN resp.status = "400"
  ELSE /\ client.path \in DOMAIN Servlets
            => resp.body \o resp.file = Servlets[client.path].content
       /\ client.path \in DOMAIN Servlets \cup DOMAIN Files => resp.status = "200"

(* The server that has answered owes, last, an answer that fits.           *)
AnswerInv ==
  phase = "out" /\ ~gone =>
    \E prefix \in Seq(Byte), resp \in Responses(HeadSymbol, BodySymbol) :
      owed = prefix \o (ResponseText(resp) \o resp.file) /\ Fits(resp)

(* The session's id that goes back is a plain one.                         *)
LEMMA SessionIsPlain ==
  ASSUME ServerTypeOK, UnderstoodAtOnce, PlainSessions, CookieTracked, UnderstoodAsMeant,
         RefusesOnlyMalformed, phase = "respond", verdict # "AGAIN"
  PROVE  req.cookie.sessionId \in Seq(HeadSymbol)
<1>1. verdict \in {"OK", "BAD"}
  BY DEF ServerTypeOK, Verdicts
<1>2. CASE verdict = "OK"
  <2>1. client \in Requests /\ Understood(req) = Meant(client)
    BY <1>2 DEF UnderstoodAsMeant, ServerTypeOK
  <2>2. Understood(req).sessionId = req.cookie.sessionId
    BY DEF Understood
  <2> QED BY <2>1, <2>2 DEF PlainSessions
<1>3. CASE verdict = "BAD"
  <2>1. client = NoRequest /\ wire \in Malformed /\ wire \in Seq(Byte)
    BY <1>3 DEF RefusesOnlyMalformed, ServerTypeOK
  <2> PICK n \in Nat : req.cookie = Parsed(wire, n).req.cookie
    BY DEF CookieTracked
  <2>2. CASE n <= Enough
    <3>1. n \in 0 .. Enough
      BY <2>2, EnoughAssumption
    <3> QED BY <2>1, <3>1 DEF PlainSessions
  <2>3. CASE ~(n <= Enough)
    <3>1. Enough \in 0 .. Enough /\ Enough <= n
      BY <2>3, EnoughAssumption
    <3>2. Parsed(wire, Enough).phase \in Verdicts
      BY <2>1 DEF UnderstoodAtOnce, MalformedAtOnce, Verdicts
    <3>3. Parsed(wire, n) = Parsed(wire, Enough)
      BY <2>1, <3>1, <3>2, EnoughAssumption, VerdictStands
    <3> QED BY <2>1, <3>1, <3>3 DEF PlainSessions
  <2> QED BY <2>2, <2>3
<1> QED BY <1>1, <1>2, <1>3

(* The answer that is dispatched fits the request it is for.               *)
LEMMA DispatchAnswers ==
  ASSUME ServerTypeOK, LinkInv, CTypeOK, UnderstoodAtOnce, PlainAnswers, CookieTracked,
         UnderstoodAsMeant, RefusesOnlyMalformed, Dispatch
  PROVE  AnswerInv'
<1> DEFINE status == IF verdict = "BAD" THEN "400" ELSE "200"
           close == (verdict = "BAD")
           path == req.url.path
           fresh == [NewResponse EXCEPT !.status = IF verdict = "BAD" THEN "400" ELSE @,
                                        !.close = (verdict = "BAD")]
<1>1. /\ phase = "respond" /\ verdict \in {"OK", "BAD"} /\ Answerable(req)
      /\ got \in Seq(Byte) /\ owed \in Seq(Byte) /\ PlainServlets
  BY HttpAssumption DEF Dispatch, ServerTypeOK, Verdicts, LinkInv, CTypeOK, PlainAnswers
<1>2. PICK servlet \in FindMatch(path), prepared \in beforeServlet(fresh) :
        Respond(ResponseText(Handled(servlet, prepared, path)),
                Handled(servlet, prepared, path).file, Handled(servlet, prepared, path).clears)
  BY Zenon DEF Dispatch
<1> DEFINE resp == Handled(servlet, prepared, path)
<1>3. fresh = [NewResponse EXCEPT !.status = status, !.close = close]
  <2>1. NewResponse.status = "200"
    BY DEF NewResponse
  <2> QED BY <2>1
<1>4. req.cookie.sessionId \in Seq(HeadSymbol)
  BY <1>1, SessionIsPlain DEF PlainAnswers
<1>5. /\ resp \in Responses(HeadSymbol, BodySymbol)
      /\ status = "400" => resp.status = "400"
      /\ path \in DOMAIN Servlets => resp.body = Servlets[path].content /\ resp.file = <<>>
      /\ path \in DOMAIN Servlets \cup DOMAIN Files /\ status = "200" => resp.status = "200"
  <2>1. status \in {"200", "400"} /\ close \in BOOLEAN
    OBVIOUS
  <2> HIDE DEF status, close, fresh
  <2>2. prepared \in beforeServlet([NewResponse EXCEPT !.status = status, !.close = close])
    BY <1>2, <1>3
  <2>3. Serves(HeadSymbol, BodySymbol)
    BY <1>1, ServesPlain
  <2>4. resp = Handled(servlet, prepared, path)
    OBVIOUS
  <2> HIDE DEF path, resp
  <2>5. servlet \in FindMatch(path) /\ Answerable(req)
    BY <1>1, <1>2
  <2>6. IsAnswer(HeadSymbol, BodySymbol, status, path, resp)
    BY <1>4, <2>1, <2>2, <2>3, <2>4, <2>5, DispatchedType, Zenon
  <2> QED BY <2>6 DEF IsAnswer
<1>7. UNCHANGED <<client>>
  BY DEF Dispatch, clientvars
<1> DEFINE prefix == IF resp.clears THEN got ELSE owed
<1>8. owed' = prefix \o (ResponseText(resp) \o resp.file)
  <2> HIDE DEF resp
  <2>1. owed' = prefix \o ResponseText(resp) \o resp.file
    BY <1>2, Zenon DEF Respond, resp
  <2>2. /\ ResponseText(resp) \in Seq(Byte) /\ resp.file \in Seq(Byte) /\ prefix \in Seq(Byte)
    <3>1. resp \in Responses(Byte, Byte)
      <4>1. HeadSymbol \subseteq Byte
        BY DEF HeadSymbol
      <4> QED BY <1>5, <4>1, PlainSymbols DEF Responses
    <3> QED BY <1>1, <3>1, ResponseTextType
  <2> DEFINE t == ResponseText(resp)
             f == resp.file
  <2>3. t \in Seq(Byte) /\ f \in Seq(Byte) /\ prefix \in Seq(Byte)
    BY <2>2
  <2> HIDE DEF t, f, prefix
  <2>4. (prefix \o t) \o f = prefix \o (t \o f)
    BY <2>3, ConcatAssociative
  <2> QED BY <2>1, <2>4 DEF t, f
<1>9. ASSUME client # NoRequest
      PROVE  verdict = "OK" /\ path = client.path
  <2>1. verdict = "OK"
    BY <1>1, <1>9 DEF RefusesOnlyMalformed
  <2>2. Understood(req) = Meant(client)
    BY <1>1, <2>1 DEF UnderstoodAsMeant
  <2>3. Understood(req).path = req.url.path
    BY DEF Understood
  <2>4. Meant(client).path = client.path
    BY DEF Meant
  <2> QED BY <2>1, <2>2, <2>3, <2>4
<1>10. ASSUME client = NoRequest
       PROVE  verdict = "BAD"
  BY <1>1, <1>10 DEF UnderstoodAsMeant
<1>11. /\ verdict = "BAD" => status = "400"
       /\ verdict = "OK" => status = "200"
  OBVIOUS
<1>12. prefix \in Seq(Byte)
  BY <1>1
<1> HIDE DEF resp, status, close, path, fresh, prefix
<1>13. Fits(resp)
  <2>1. CASE client = NoRequest
    BY <1>5, <1>10, <1>11, <2>1 DEF Fits
  <2>2. CASE client # NoRequest
    <3>1. path \in DOMAIN Servlets => resp.body \o resp.file = Servlets[path].content
      <4>1. resp.body \in Seq(BodySymbol)
        BY <1>5 DEF Responses
      <4> QED BY <1>5, <4>1, ConcatEmptySeq
    <3> QED BY <1>5, <1>9, <1>11, <2>2, <3>1 DEF Fits
  <2> QED BY <2>1, <2>2
<1> DEFINE FitsOne(c, r) ==
      IF c = NoRequest THEN r.status = "400"
      ELSE /\ c.path \in DOMAIN Servlets => r.body \o r.file = Servlets[c.path].content
           /\ c.path \in DOMAIN Servlets \cup DOMAIN Files => r.status = "200"
<1>14. FitsOne(client', resp)
  BY <1>7, <1>13 DEF Fits
<1>15. \E pre \in Seq(Byte), r \in Responses(HeadSymbol, BodySymbol) :
         owed' = pre \o (ResponseText(r) \o r.file) /\ FitsOne(client', r)
  BY <1>5, <1>8, <1>12, <1>14
<1> QED BY <1>15 DEF AnswerInv, Fits

(* An answered connection is left alone.                                   *)
LEMMA AnsweredStays ==
  ASSUME ServerTypeOK, CTypeOK, ~Dispatch, [HNext]_hvars, phase' = "out", ~gone'
  PROVE  phase = "out" /\ ~gone /\ owed' = owed /\ client' = client
<1>1. CASE Parse
  <2>1. phase' = "respond" \/ phase' \in Phases
    BY <1>1, ParseStep
  <2> QED BY <2>1 DEF Phases
<1>2. CASE OnRecv \/ OnMessage \/ RecvCloses \/ AnswerAgain
  BY <1>2 DEF OnRecv, OnMessage, RecvCloses, AnswerAgain
<1>3. CASE ClientSends \/ Recv \/ UNCHANGED hvars
  <2>1. UNCHANGED <<phase, gone, owed, client>>
    BY <1>3 DEF ClientSends, Recv, hvars, cvars, clientvars
  <2> QED BY <2>1
<1>4. CASE Send
  <2>1. UNCHANGED <<phase, client>>
    BY <1>4 DEF Send, clientvars
  <2>2. UNCHANGED <<gone, owed>>
    BY <1>4, Zenon DEF Send, HangUp, OnSend, SendBuffer, SendFile, SendReturns
  <2> QED BY <2>1, <2>2
<1>5. CASE ClientEnd
  <2>1. UNCHANGED <<phase, client>>
    BY <1>5 DEF ClientEnd, clientvars
  <2>2. owed' = owed /\ (gone' = gone \/ gone' = TRUE)
    BY <1>5 DEF ClientEnd, ClientReads, ClientCloses
  <2> QED BY <2>1, <2>2
<1> QED BY <1>1, <1>2, <1>3, <1>4, <1>5 DEF HNext, ServerStep

LEMMA AnswerInvKept ==
  ASSUME ServerTypeOK, LinkInv, CTypeOK, UnderstoodAtOnce, PlainAnswers, CookieTracked,
         UnderstoodAsMeant, RefusesOnlyMalformed, AnswerInv, [HNext]_hvars
  PROVE  AnswerInv'
<1>1. CASE Dispatch
  BY <1>1, DispatchAnswers
<1>2. CASE ~Dispatch
  <2>1. phase' = "out" /\ ~gone' => phase = "out" /\ ~gone /\ owed' = owed /\ client' = client
    BY <1>2, AnsweredStays
  <2> QED BY <2>1 DEF AnswerInv, Fits
<1> QED BY <1>1, <1>2

WorkingInv == ServerInv /\ LinkInv /\ CookieTracked /\ AnswerInv
Understands == UnderstoodAsMeant /\ RefusesOnlyMalformed

LEMMA AnswersHold ==
  ASSUME UnderstoodAtOnce, PlainAnswers
  PROVE  HSpec => [](WorkingInv /\ CTypeOK)
<1>1. HInit => CookieTracked /\ AnswerInv
  <2> SUFFICES ASSUME HInit PROVE CookieTracked /\ AnswerInv
    OBVIOUS
  <2>1. AnswerInv
    BY DEF HInit, AnswerInv
  <2>2. req.cookie = Parsed(wire, 0).req.cookie
    BY ParsedSteps DEF HInit, Start, Progress
  <2> QED BY <2>1, <2>2 DEF CookieTracked
<1>2. ServerInv /\ LinkInv /\ CTypeOK /\ Understands /\ CookieTracked /\ AnswerInv /\ [HNext]_hvars
        => CookieTracked' /\ AnswerInv'
  <2> SUFFICES ASSUME ServerInv, LinkInv, CTypeOK, Understands, CookieTracked, AnswerInv,
                      [HNext]_hvars
               PROVE  CookieTracked' /\ AnswerInv'
    OBVIOUS
  <2>1. ServerTypeOK /\ UnderstoodAsMeant /\ RefusesOnlyMalformed
    BY DEF ServerInv, Understands
  <2>2. CookieTracked'
    BY CookieTracksOn
  <2>3. AnswerInv'
    BY <2>1, AnswerInvKept
  <2> QED BY <2>2, <2>3
<1>3. HSpec => []UnderstoodAsMeant
  BY PiecesAreUnderstood
<1>4. HSpec => []RefusesOnlyMalformed
  BY RequestsAreNotRefused
<1>5. HSpec => []Understands
  BY <1>3, <1>4, PTL DEF Understands
<1>6. HSpec => []CTypeOK
  BY ServerUsesAConnection, ConnectionType, PTL
<1>7. HSpec => [](ServerInv /\ LinkInv)
  BY LinkHolds
<1> QED BY <1>1, <1>2, <1>5, <1>6, <1>7, PTL DEF HSpec, WorkingInv

(* What a client has got when the server ends the connection.              *)
LEMMA EndedAnswer ==
  ASSUME WorkingInv, CTypeOK, NothingCutOff, PlainAnswers, Ended
  PROVE  \E resp \in Responses(HeadSymbol, BodySymbol) :
           /\ Fits(resp) /\ Status = resp.status /\ Body = resp.body \o resp.file
           /\ Announced = Decimal(Len(Body))
<1>1. phase = "out" /\ ~gone /\ got = owed
  <2>1. link = "closed" /\ ~gone
    BY DEF Ended
  <2>2. phase \in {"wait", "recv", "respond", "out"} \cup Phases
    BY DEF WorkingInv, ServerInv, ServerTypeOK
  <2> QED BY <2>1, <2>2 DEF WorkingInv, LinkInv, NothingCutOff
<1>2. PICK prefix \in Seq(Byte), resp \in Responses(HeadSymbol, BodySymbol) :
        owed = prefix \o (ResponseText(resp) \o resp.file) /\ Fits(resp)
  BY <1>1 DEF WorkingInv, AnswerInv
<1>3. /\ Status = resp.status /\ Body = resp.body \o resp.file
      /\ Announced = Decimal(Len(Body))
  BY <1>1, <1>2, AnswerRead DEF PlainAnswers
<1> QED BY <1>2, <1>3

(* The length a head announces is that of what follows the head, whatever  *)
(* the servlet, the file, the cookie and the pieces                        *)
(* (HttpResponse.cpp:20-45, Servlet.cpp:20-66).                            *)
THEOREM AnswersAreFramed ==
  ASSUME UnderstoodAtOnce, PlainAnswers PROVE HSpec => []AnswerIsFramed
<1>1. WorkingInv /\ CTypeOK /\ NothingCutOff => AnswerIsFramed
  BY EndedAnswer DEF AnswerIsFramed
<1> QED BY <1>1, AnswersHold, ServerCutsNothingOff, PTL

(* The client of a connection that was ended by the server has the page it *)
(* asked for, or the refusal of what was no request                        *)
(* (HttpServer.cpp:11-56, Servlet.cpp:20-66, 107-121).                     *)
THEOREM AnswersMatchRequests ==
  ASSUME UnderstoodAtOnce, PlainAnswers PROVE HSpec => []AnswerMatchesRequest
<1>1. WorkingInv /\ CTypeOK /\ NothingCutOff => AnswerMatchesRequest
  <2> SUFFICES ASSUME WorkingInv, CTypeOK, NothingCutOff, Ended
               PROVE  IF client = NoRequest THEN Status = "400"
                      ELSE /\ client.path \in DOMAIN Servlets
                                => Body = Servlets[client.path].content
                           /\ client.path \in DOMAIN Files \ DOMAIN Servlets => Status = "200"
                           /\ Status = "404"
                                => client.path \notin DOMAIN Servlets \cup DOMAIN Files
    BY DEF AnswerMatchesRequest
  <2>1. PICK resp \in Responses(HeadSymbol, BodySymbol) :
          Fits(resp) /\ Status = resp.status /\ Body = resp.body \o resp.file
    BY EndedAnswer
  <2> HIDE DEF Status, Body
  <2> QED BY <2>1 DEF Fits
<1> QED BY <1>1, AnswersHold, ServerCutsNothingOff, PTL

=============================================================================
