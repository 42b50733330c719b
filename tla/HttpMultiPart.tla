--------------------------- MODULE HttpMultiPart ----------------------------
(***************************************************************************)
(* The reader of multipart bodies (http/HttpMultiPart.cpp): a machine over *)
(* the body, here one step per iteration of its loop.                      *)
(*                                                                         *)
(* i is the place the machine looks at, state its state, and the parts     *)
(* that are complete are in form and files.  The words of a part's head    *)
(* are one symbol each, so that "skip 13" and "skip 14" of the code are    *)
(* five and three symbols.                                                 *)
(***************************************************************************)
EXTENDS HttpText

Part(name, filename, type, data) ==
  [name |-> name, file_name |-> filename, file_type |-> type, data |-> data]

MultiPart ==
  [i |-> 1, state |-> "start_body", name |-> <<>>, filename |-> <<>>,
   type |-> <<>>, data |-> <<>>, file_mark |-> FALSE,
   form |-> EmptyMap, files |-> EmptyMap]

(* The text t is at place i of the body.                                   *)
IsAt(body, i, t) == SubSeq(body, i, IF i + Len(t) - 1 <= Len(body)
                                      THEN i + Len(t) - 1 ELSE Len(body)) = t

MoveTo(mp, i, state) == [mp EXCEPT !.i = i, !.state = state]

(* One iteration of the loop over name="..."; filename="..." up to the end *)
(* of the line.  d.started is start_name_filename.                         *)
DispositionStep(d, body) ==
  LET i == d.mp.i
  IN IF i > Len(body) \/ d.mp.state = "end_content_disposition" THEN d
     ELSE IF IsAt(body, i, CRLF)
       THEN [d EXCEPT !.mp = MoveTo(@, i + 2, "end_content_disposition")]
     ELSE IF IsAt(body, i, <<"=", "\"">>) THEN [d EXCEPT !.mp.i = i + 2, !.started = TRUE]
     ELSE IF body[i] = "\""
       THEN [d EXCEPT !.mp.i = i + 1, !.started = FALSE, !.isName = ~@]
     ELSE IF d.started /\ d.isName
       THEN [d EXCEPT !.mp.i = i + 1, !.mp.name = Append(@, body[i])]
     ELSE IF d.started THEN [d EXCEPT !.mp.i = i + 1, !.mp.filename = Append(@, body[i])]
     ELSE [d EXCEPT !.mp.i = i + 1]

Disposition(body, mp) ==
  LET after[k \in 0 .. Len(body)] ==
        IF k = 0 THEN [mp |-> [mp EXCEPT !.i = @ + 5], started |-> FALSE, isName |-> TRUE]
                 ELSE DispositionStep(after[k - 1], body)
  IN after[Len(body)].mp

(* The first of some places of the body, or its end.                       *)
FirstAt(body, places) ==
  IF places = {} THEN Len(body) + 1 ELSE CHOOSE k \in places : \A l \in places : k <= l

(* The end of the data: CRLF, two dashes and the boundary.                 *)
IsDelimiter(body, boundary, k) ==
  k + 4 <= Len(body) /\ IsAt(body, k, CRLF \o <<"-", "-">> \o boundary)

(* A part is complete.  files_.get returns a copy of the files of a name:  *)
(* what is added to it is lost.                                            *)
Stored(mp) ==
  LET kept == IF ~mp.file_mark THEN [mp EXCEPT !.form = Put(@, mp.name, mp.data)]
              ELSE IF mp.name \in DOMAIN mp.files THEN mp
              ELSE [mp EXCEPT !.files = Put(@, mp.name,
                                <<Part(mp.name, mp.filename, mp.type, mp.data)>>)]
  IN [MoveTo(kept, mp.i, "start_body")
        EXCEPT !.name = <<>>, !.filename = <<>>, !.type = <<>>, !.data = <<>>,
               !.file_mark = FALSE]

(* One iteration of the loop of parse; the branches the comments call "bad *)
(* body" change nothing.                                                   *)
PartStep(body, boundary, mp) ==
  LET i == mp.i
      at(t) == IsAt(body, i, t)
  IN CASE mp.state = "start_body" ->
            IF at(<<"-", "-">>) THEN MoveTo(mp, i + 2, "start_boundary") ELSE mp
       [] mp.state = "start_boundary" ->
            IF at(boundary \o CRLF) THEN MoveTo(mp, i + Len(boundary) + 2, "end_boundary")
            ELSE IF at(boundary \o <<"-", "-">>)
              THEN MoveTo(mp, i + Len(boundary) + 2, "end_body")
            ELSE IF at(boundary) THEN MoveTo(mp, i + Len(boundary), mp.state)
            ELSE mp
       [] mp.state = "end_boundary" ->
            IF at(<<"Content-Disposition">>)
              THEN MoveTo(mp, i + 1, "start_content_disposition") ELSE mp
       [] mp.state = "start_content_disposition" -> Disposition(body, mp)
       [] mp.state = "end_content_disposition" ->
            IF at(CRLF) THEN MoveTo([mp EXCEPT !.file_mark = FALSE], i + 2, "start_content_data")
            ELSE IF at(<<"Content-Type">>)
              THEN MoveTo([mp EXCEPT !.file_mark = TRUE], i + 3, "start_content_type")
            ELSE mp
       [] mp.state = "start_content_type" ->
            LET end == FirstAt(body, {k \in i .. Len(body) : IsAt(body, k, CRLF)})
                read == [mp EXCEPT !.type = @ \o SubSeq(body, i, end - 1)]
            IN IF end > Len(body) THEN MoveTo(read, end, mp.state)
               ELSE MoveTo(read, end + 2, "end_content_type")
       [] mp.state = "end_content_type" ->
            IF at(CRLF) THEN MoveTo(mp, i + 2, "start_content_data") ELSE mp
       [] mp.state = "start_content_data" ->
            LET end == FirstAt(body, {k \in i .. Len(body) : IsDelimiter(body, boundary, k)})
            IN IF end > Len(body) THEN MoveTo(mp, end, mp.state)
               ELSE MoveTo([mp EXCEPT !.data = SubSeq(body, i, end - 1)], end + 2,
                           "end_content_data")
       [] mp.state = "end_content_data" -> Stored(mp)
       [] mp.state = "end_body" -> MoveTo(mp, i + 2, "end_body")

PartsDone(body, mp) == mp.i > Len(body)

=============================================================================
