--------------------------------- MODULE Bodies ---------------------------------
(***************************************************************************)
(* Bodies of POST requests (parse_body.cpp): multipart/form-data, parsed   *)
(* as its bytes come and trimmed by build(), and forms, parsed by build(). *)
(* Bytes are tokens.  What a handler collects before it looks at it (the   *)
(* line of a header) is one token.                                         *)
(***************************************************************************)
EXTENDS Integers, Sequences, SequencesExt

CONSTANT Boundary   \* the request's boundary, a sequence of tokens

(* A sequence, of whatever is in it.                                       *)
IsSequence(s) == s \in Seq(ToSet(s))

ASSUME BoundaryAssumption == Boundary \in Seq(ToSet(Boundary)) /\ "CR" \notin ToSet(Boundary)

(* The header lines of a part, and the media type each means; the file     *)
(* name in a disposition, which nothing uses, is left out.                 *)
Disposition == "content-disposition: form-data; name="
MediaOf == [t \in {"content-type: image/png", "content-type: image/jpeg",
                   "content-type: text/plain", "content-type: application/x"} |->
              CASE t = "content-type: image/png" -> "png"
                [] t = "content-type: image/jpeg" -> "jpg"
                [] t = "content-type: text/plain" -> "text"
                [] t = "content-type: application/x" -> "unsupported"]

(* _multipart_step, _multipart_tmp, the media type of the request, the     *)
(* data collected in _body, and the status of the first error or 0.        *)
Started == [step |-> "INITIAL_BOUNDARY", tmp |-> <<>>, media |-> "multipart",
            data |-> <<>>, error |-> 0]

Bad(p) == [p EXCEPT !.error = 400]
Collect(p, c) == [p EXCEPT !.tmp = Append(@, c)]
NextStep(p, step) == [p EXCEPT !.step = step, !.tmp = <<>>]

BoundaryDelimiter(p, c) ==
  LET tmp == Append(p.tmp, c)
  IN IF Len(tmp) < 2 THEN Collect(p, c)
     ELSE IF tmp = <<"-", "-">> THEN NextStep(p, "BOUNDARY") ELSE Bad(p)

(* A line is looked at when its CR comes.                                  *)
BoundaryLine(p) == IF p.tmp = Boundary THEN NextStep(p, "CRLF_BOUNDARY") ELSE Bad(p)

DispositionLine(p) ==
  IF p.tmp = <<Disposition>> THEN NextStep(p, "CRLF_DISPOSITION") ELSE Bad(p)

ContentTypeLine(p) ==
  IF p.tmp = <<>> THEN NextStep(p, "CRLF_CONTENT_TYPE")
  ELSE IF Len(p.tmp) > 1 \/ p.tmp[1] \notin DOMAIN MediaOf THEN Bad(p)
  ELSE IF MediaOf[p.tmp[1]] = "unsupported" THEN [p EXCEPT !.error = 415]
  ELSE [NextStep(p, "CRLF_CONTENT_TYPE") EXCEPT !.media = MediaOf[p.tmp[1]]]

LineEnd(p) == CASE p.step = "BOUNDARY" -> BoundaryLine(p)
                [] p.step = "CONTENT_DISPOSITION" -> DispositionLine(p)
                [] p.step = "CONTENT_TYPE" -> ContentTypeLine(p)

LineFeed == [CRLF_BOUNDARY |-> "CONTENT_DISPOSITION", CRLF_DISPOSITION |-> "CONTENT_TYPE",
             CRLF_CONTENT_TYPE |-> "CRLF_INITIAL_CONTENT1",
             CRLF_INITIAL_CONTENT2 |-> "CONTENT"]

(* _parse_multipart(): once in the content, everything is data; no byte    *)
(* leads to CRLF_CONTENT.                                                  *)
ParseMultipart(p, c) ==
  CASE p.error # 0 -> p
    [] p.error = 0 /\ p.step = "INITIAL_BOUNDARY" -> BoundaryDelimiter(p, c)
    [] p.error = 0 /\ p.step \in {"BOUNDARY", "CONTENT_DISPOSITION", "CONTENT_TYPE"} ->
         IF c = "CR" THEN LineEnd(p) ELSE Collect(p, c)
    [] p.error = 0 /\ p.step = "CRLF_INITIAL_CONTENT1" ->
         IF c = "CR" THEN NextStep(p, "CRLF_INITIAL_CONTENT2") ELSE Bad(p)
    [] p.error = 0 /\ p.step \in DOMAIN LineFeed ->
         IF c = "LF" THEN NextStep(p, LineFeed[p.step]) ELSE Bad(p)
    [] p.error = 0 /\ p.step = "CONTENT" -> [p EXCEPT !.data = Append(@, c)]

Multipart(bytes) == FoldLeft(ParseMultipart, Started, bytes)

(* _remove_boundary(): CRLF, "--", the boundary, "--", CRLF are cut off    *)
(* the end, whether or not they are there.                                 *)
Ending == 8 + Len(Boundary)
TooShort(data) == Len(data) < Ending

WithoutEndingShort(data) ==   \* faulty: the closing "--" is forgotten
  SubSeq(data, 1, Len(data) - (Ending - 2))

WithoutEnding(data) == SubSeq(data, 1, Len(data) - Ending)

(* A body as a client means it: one part, with the line of its type, and   *)
(* data, which may look like anything.                                     *)
Line(tokens) == tokens \o <<"CR", "LF">>
Part(type, data) ==
  Line(<<"-", "-">> \o Boundary) \o Line(<<Disposition>>) \o (IF type = <<>> THEN <<>> ELSE Line(type))
    \o Line(<<>>) \o data
    \o Line(<<>>) \o Line(<<"-", "-">> \o Boundary \o <<"-", "-">>)

----------------------------------------------------------------------------
(* Forms: name=value&name=value, with %XX for some characters.             *)

(* What a client escapes; a space and the two of a line end stand for all  *)
(* that no URI has.                                                        *)
HexOf ==
  [c \in {"&", "=", "%", "+", "SP", "CR", "LF"} |->
     CASE c = "&" -> <<"2", "6">> [] c = "=" -> <<"3", "D">> [] c = "%" -> <<"2", "5">>
       [] c = "+" -> <<"2", "B">> [] c = "SP" -> <<"2", "0">>
       [] c = "CR" -> <<"0", "D">> [] c = "LF" -> <<"0", "A">>]

Decoded(hex) == CHOOSE c \in DOMAIN HexOf : HexOf[c] = hex

IsUriChar(c) == c \notin {"SP", "CR", "LF"}

(* _field_name, _field_value, whether a value is being read, the digits    *)
(* after a "%", the fields so far, and whether _bad_request() was thrown.  *)
FormStarted == [name |-> <<>>, value |-> <<>>, inValue |-> FALSE, escaped |-> FALSE,
                hex |-> <<>>, fields |-> {}, thrown |-> FALSE]

(* _post_data is a std::map.                                               *)
AddPostData(fields, name, value) == {f \in fields : f[1] # name} \cup {<<name, value>>}

Put(p, c) == IF p.inValue THEN [p EXCEPT !.value = Append(@, c)]
                          ELSE [p EXCEPT !.name = Append(@, c)]

EndField(p) == [p EXCEPT !.fields = AddPostData(@, p.name, p.value),
                         !.name = <<>>, !.value = <<>>, !.inValue = FALSE]

FormCharUnescaped(p, c) ==   \* faulty: "%" is a character like any other
  CASE p.thrown -> p
    [] ~p.thrown /\ ~p.inValue /\ c = "=" -> [p EXCEPT !.inValue = TRUE]
    [] ~p.thrown /\ p.inValue /\ c = "&" -> EndField(p)
    [] ~p.thrown /\ c # (IF p.inValue THEN "&" ELSE "=") -> Put(p, c)

FormChar(p, c) ==
  CASE p.thrown -> p
    [] ~p.thrown /\ ~p.inValue /\ c = "=" -> [p EXCEPT !.inValue = TRUE]
    [] ~p.thrown /\ p.inValue /\ c = "&" -> EndField(p)
    [] ~p.thrown /\ c # (IF p.inValue THEN "&" ELSE "=") ->
         IF ~IsUriChar(c) THEN [p EXCEPT !.thrown = TRUE]
         ELSE IF p.escaped /\ Len(p.hex) = 1
           THEN Put([p EXCEPT !.escaped = FALSE, !.hex = <<>>], Decoded(Append(p.hex, c)))
         ELSE IF p.escaped THEN [p EXCEPT !.hex = Append(@, c)]
         ELSE IF c = "%" THEN [p EXCEPT !.escaped = TRUE]
         ELSE Put(p, c)

(* The last field is added at the end of the body, whatever it lacks.      *)
Form(bytes) == EndField(FoldLeft(FormChar, FormStarted, bytes))

(* A form as a client means it: pairs of a name and a value, with every    *)
(* character escaped that would mean something else.  Clients may leave    *)
(* "=" plain in values, and send a space as a "+", as browsers do.         *)
Spelled(c, plain) ==
  IF c \in DOMAIN HexOf \ plain THEN <<"%">> \o HexOf[c] ELSE <<IF c = "SP" THEN "+" ELSE c>>
SpelledText(text, plain) == FlattenSeq([k \in 1..Len(text) |-> Spelled(text[k], plain)])
FormBody(pairs, plain) ==
  LET Field(k) ==
        SpelledText(pairs[k][1], plain \ {"="}) \o <<"=">> \o SpelledText(pairs[k][2], plain)
  IN FlattenSeq([k \in 1..Len(pairs) |-> IF k = 1 THEN Field(k) ELSE <<"&">> \o Field(k)])

(* What the server can make of it at best: a "+" stays one.                *)
Heard(c, plain) == IF c = "SP" /\ "SP" \in plain THEN "+" ELSE c
HeardText(text, plain) == [k \in 1..Len(text) |-> Heard(text[k], plain)]
HeardPairs(pairs, plain) ==
  [k \in 1..Len(pairs) |-> <<HeardText(pairs[k][1], plain), HeardText(pairs[k][2], plain)>>]

(* Of pairs with one name the last counts.                                 *)
LastOfEach(pairs) ==
  {pairs[k] : k \in {j \in DOMAIN pairs : \A h \in j + 1..Len(pairs) : pairs[h][1] # pairs[j][1]}}
=============================================================================
