--------------------------- MODULE TcpConnection ----------------------------
(***************************************************************************)
(* The sending side of one connection (net/TcpConnection.cpp,              *)
(* net/Socket.cpp, base/FileUtil.cpp, and onSend of net/TcpServer.cpp): a  *)
(* response is a head, or head and body, in the sender buffer, and         *)
(* possibly a file that follows it.  Each writability event writes what    *)
(* the socket takes.  The socket is non-blocking, and nothing in src sets  *)
(* the connection's keepAlive_, so a completed response ends it.           *)
(***************************************************************************)
EXTENDS Naturals, Sequences

CONSTANTS
  Symbol,   \* what is sent
  Room      \* what the socket's send buffer holds

ASSUME ConnectionAssumption == Room \in Nat \ {0}

VARIABLES
  link,     \* "idle", "armed" for EPOLLOUT, "sending" inside onSend, "closed"
  len,      \* the result of the last write: "none" (-10086), "some" (> 0),
            \* "again" (EAGAIN) or "failed"
  sender,   \* the content of sender_
  file,     \* the bytes fileSender_ has still to send; empty without a file
  room,     \* the room in the socket's send buffer
  got,      \* the bytes the socket took, which are those the client gets (history)
  owed,     \* all the bytes of the responses (history)
  gone      \* the client has closed its end

cvars == <<link, len, sender, file, room, got, owed, gone>>

-----------------------------------------------------------------------------
CInit ==
  /\ link = "idle" /\ len = "none"
  /\ sender = <<>> /\ file = <<>>
  /\ room = Room
  /\ got = <<>> /\ owed = <<>>
  /\ gone = FALSE

(* A response is destroyed: its head, or head and body, is appended to     *)
(* sender_; the stream over its file was made before.  setBody empties     *)
(* sender_ first.                                                          *)
Respond(bytes, content, clears) ==
  /\ sender' = (IF clears THEN <<>> ELSE sender) \o bytes
  /\ file' = content
  /\ owed' = (IF clears THEN got ELSE owed) \o bytes \o content
  /\ UNCHANGED <<len, room, got, gone>>

(* EPOLLRDHUP, which is looked at before EPOLLOUT.                         *)
HangUp ==
  /\ gone /\ link \in {"idle", "armed"}
  /\ link' = "closed"
  /\ UNCHANGED <<len, sender, file, room, got, owed, gone>>

(* EPOLLOUT: onSend calls send.                                            *)
OnSend ==
  /\ link = "armed" /\ room > 0 /\ ~gone
  /\ link' = "sending" /\ len' = "none"
  /\ UNCHANGED <<sender, file, room, got, owed, gone>>

Least(a, b) == IF a < b THEN a ELSE b

(* What one write of s takes, and its result.                              *)
Taken(s) == IF gone THEN 0 ELSE Least(room, Len(s))
WriteResult == IF gone THEN "failed" ELSE IF room = 0 THEN "again" ELSE "some"

Wrote(s) ==
  /\ len' = WriteResult
  /\ room' = room - Taken(s)
  /\ got' = got \o SubSeq(s, 1, Taken(s))

Left(s) == SubSeq(s, Taken(s) + 1, Len(s))

MayWrite == link = "sending" /\ len \in {"none", "some"}

(* Socket::send: one iteration of its loop.                                *)
SendBuffer ==
  /\ MayWrite /\ sender # <<>>
  /\ Wrote(sender) /\ sender' = Left(sender)
  /\ UNCHANGED <<link, file, owed, gone>>

\* Mutant: the file does not wait for the head.
SendFileAtOnce ==
  /\ MayWrite /\ file # <<>>
  /\ Wrote(file) /\ file' = Left(file)
  /\ UNCHANGED <<link, sender, owed, gone>>

(* FileSendStream::send: one iteration, once the head is written.          *)
SendFile ==
  /\ MayWrite /\ sender = <<>> /\ file # <<>>
  /\ Wrote(file) /\ file' = Left(file)
  /\ UNCHANGED <<link, sender, owed, gone>>

Sendable == sender # <<>> \/ file # <<>>

\* Mutant: a file that is left does not count.
StatusOfSendBufferOnly ==
  IF len = "some" /\ sender = <<>> THEN "COMPLETED"
  ELSE IF len = "again" /\ sender # <<>> THEN "AGAIN"
  ELSE "ERROR"

(* What TcpConnection::send returns.                                       *)
StatusOfSend ==
  IF len = "some" /\ ~Sendable THEN "COMPLETED"
  ELSE IF len = "again" /\ Sendable THEN "AGAIN"
  ELSE "ERROR"

(* The loops of send have ended; onSend closes the connection or waits for *)
(* the next writability.                                                   *)
SendReturns ==
  /\ link = "sending"
  /\ len \in {"again", "failed"} \/ ~Sendable
  /\ link' = IF StatusOfSend = "AGAIN" THEN "armed" ELSE "closed"
  /\ UNCHANGED <<len, sender, file, room, got, owed, gone>>

(* The client reads some of what has been sent.                            *)
ClientReads ==
  /\ ~gone /\ link # "closed"
  /\ room' \in room + 1 .. Room
  /\ UNCHANGED <<link, len, sender, file, got, owed, gone>>

ClientCloses ==
  /\ ~gone /\ link # "closed"
  /\ gone' = TRUE
  /\ UNCHANGED <<link, len, sender, file, room, got, owed>>

(* Any responses: requests that are answered and, before an answer, those  *)
(* that are not complete yet.                                              *)
Answer ==
  \E bytes \in Seq(Symbol), content \in Seq(Symbol), clears \in BOOLEAN :
    /\ link = "idle"
    /\ link' \in {"idle", "armed"} /\ (link' = "idle" => content = <<>>)
    /\ Respond(bytes, content, clears)

Transfer == HangUp \/ OnSend \/ SendBuffer \/ SendFile \/ SendReturns

CNext == Answer \/ Transfer \/ ClientReads \/ ClientCloses

CSpec == CInit /\ [][CNext]_cvars

-----------------------------------------------------------------------------
CTypeOK ==
  /\ link \in {"idle", "armed", "sending", "closed"}
  /\ len \in {"none", "some", "again", "failed"}
  /\ sender \in Seq(Symbol) /\ file \in Seq(Symbol)
  /\ got \in Seq(Symbol) /\ owed \in Seq(Symbol)
  /\ room \in 0 .. Room
  /\ gone \in BOOLEAN

(* However the sending is cut into writes and writability events, the      *)
(* client gets the bytes of the responses in their order, the head before  *)
(* the file, and what it has not got yet is still to be sent               *)
(* (TcpConnection.cpp:51-76).                                              *)
AnswersInOrder == got \o sender \o file = owed

(* The server ends a connection of its own accord only after the whole     *)
(* response was taken by the socket (TcpServer.cpp:244-263).               *)
NothingCutOff == link = "closed" /\ ~gone => got = owed

=============================================================================
