-------------------------- MODULE RequestParserCuts --------------------------
(***************************************************************************)
(* The parser does not depend on how the bytes of a request are cut into   *)
(* reads, nor on the requests parsed in between (CutsNeverMatter), as long *)
(* as no two request lines are parsed by turns.                            *)
(*   - Parsed(s) is the parser of one request alone, after each byte.      *)
(*   - ParsedAlone: every parser of the server follows its own Parsed(),   *)
(*     because the statics tell at the start of each read what the request *)
(*     alone would have left there (FlagTells).  After a request line that *)
(*     broke off they may tell otherwise, and then a request with more     *)
(*     spaces than one may be Lost.                                        *)
(*   - LengthEnds: what the end of a read adds, that a body which reached  *)
(*     its length is over, happens only at the last byte of the request.   *)
(*     For this every kind of request is followed through its line         *)
(*     (FirstTurns), its headers (HeadTurns) and its checks (BodyBegins).  *)
(***************************************************************************)
EXTENDS RequestParserProofs

(***************************************************************************)
(* The parser of one request alone                                         *)
(***************************************************************************)

(* One byte, with the statics as the request alone would have left them.   *)
Turn(p, t) ==
  IF p.step = "END" THEN p ELSE Dispatch(p, t, p.uri = <<>>, p.protocol = <<>>)

(* The parser before the first byte and after each.                        *)
Parsed(s) ==
  LET parsed[k \in 0..Len(s)] == IF k = 0 THEN Fresh ELSE Turn(parsed[k - 1], s[k])
  IN parsed

(* A turn keeps the parser's type.                                         *)
LEMMA TurnType ==
  ASSUME NEW p \in ParserType, NEW t \in Token
  PROVE  Turn(p, t) \in ParserType
<1>1. (p.uri = <<>>) \in BOOLEAN /\ (p.protocol = <<>>) \in BOOLEAN  OBVIOUS
<1> QED  BY <1>1, DispatchType DEF Turn

(* What holds of m, and of k + 1 if it holds of k, holds from m to n.      *)
LEMMA Counting ==
  ASSUME NEW m \in Nat, NEW n \in Nat, NEW S, m \in S,
         \A k \in m..n - 1 : k \in S => k + 1 \in S
  PROVE  \A k \in m..n : k \in S
<1> DEFINE Out == {k \in m..n : k \notin S}
<1> SUFFICES ASSUME Out # {} PROVE FALSE  OBVIOUS
<1>1. Out \in SUBSET Nat  OBVIOUS
<1> HIDE DEF Out
<1>2. PICK k \in Out : \A j \in Out : k <= j  BY <1>1, LeastExists
<1>3. k \in m..n /\ k \notin S  BY DEF Out
<1>4. k - 1 \in m..n - 1 /\ (k - 1) + 1 = k /\ ~(k <= k - 1)
  <2>1. k # m  BY <1>3
  <2> QED  BY <1>3, <2>1
<1>5. k - 1 \notin Out  BY <1>2, <1>4
<1>6. k - 1 \in S  BY <1>4, <1>5 DEF Out
<1> QED  BY <1>3, <1>4, <1>6

(* Each state of Parsed() comes from the one before.                       *)
LEMMA ParsedSteps ==
  ASSUME NEW s \in Seq(Token)
  PROVE  /\ Parsed(s) \in [0..Len(s) -> ParserType]
         /\ Parsed(s)[0] = Fresh
         /\ \A k \in 1..Len(s) : Parsed(s)[k] = Turn(Parsed(s)[k - 1], s[k])
<1> DEFINE N == Len(s)
           Upto(g, n) == /\ g \in [0..n -> ParserType] /\ g[0] = Fresh
                         /\ \A k \in 1..n : g[k] = Turn(g[k - 1], s[k])
           Whole(f) == f = [k \in 0..N |-> IF k = 0 THEN Fresh ELSE Turn(f[k - 1], s[k])]
           whole == CHOOSE f : Whole(f)
<1>1. N \in Nat /\ \A k \in 1..N : s[k] \in Token  OBVIOUS
<1>2. \A n \in 0..N : \E g : Upto(g, n)
  <2> DEFINE S == {n \in 0..N : \E g : Upto(g, n)}
  <2>1. 0 \in S
    <3>1. Upto([k \in 0..0 |-> Fresh], 0)  BY FreshType
    <3>2. 0 \in 0..N  BY <1>1
    <3> HIDE DEF Upto
    <3> QED  BY <3>1, <3>2
  <2>2. ASSUME NEW n \in 0..N - 1, n \in S PROVE n + 1 \in S
    <3>1. PICK g : Upto(g, n)  BY <2>2
    <3> DEFINE h == [k \in 0..n + 1 |-> IF k = n + 1 THEN Turn(g[n], s[n + 1]) ELSE g[k]]
    <3>2. g[n] \in ParserType /\ s[n + 1] \in Token  BY <1>1, <3>1
    <3>3. Turn(g[n], s[n + 1]) \in ParserType  BY <3>2, TurnType
    <3>4. h \in [0..n + 1 -> ParserType] /\ h[0] = Fresh  BY <3>1, <3>3
    <3>5. \A k \in 1..n + 1 : h[k] = Turn(h[k - 1], s[k])
      <4> TAKE k \in 1..n + 1
      <4>1. CASE k = n + 1
        <5>1. (n + 1) - 1 = n /\ n \in 0..n + 1 /\ n # n + 1  BY <1>1
        <5>2. h[n + 1] = Turn(g[n], s[n + 1]) /\ h[n] = g[n]  BY <5>1
        <5> HIDE DEF h
        <5> QED  BY <4>1, <5>1, <5>2
      <4>2. CASE k # n + 1
        <5>1. k \in 1..n /\ k - 1 \in 0..n /\ k - 1 # n + 1  BY <1>1, <4>2
        <5>2. h[k] = g[k] /\ h[k - 1] = g[k - 1]  BY <5>1
        <5> HIDE DEF h
        <5> QED  BY <3>1, <5>1, <5>2
      <4> QED  BY <4>1, <4>2
    <3>6. n + 1 \in 0..N  BY <1>1
    <3> HIDE DEF h
    <3> QED  BY <3>4, <3>5, <3>6
  <2> HIDE DEF S
  <2>3. \A n \in 0..N : n \in S  BY <1>1, <2>1, <2>2, Counting
  <2> QED  BY <2>3 DEF S
<1>3. PICK g : Upto(g, N)
  <2> HIDE DEF Upto
  <2> QED  BY <1>1, <1>2
<1>4. Whole(g)  BY <1>1, <1>3
<1>5. Whole(whole)  BY <1>4
<1>6. \A k \in 0..N : whole[k] = IF k = 0 THEN Fresh ELSE Turn(whole[k - 1], s[k])
  BY <1>5
<1>7. whole[0] = Fresh  BY <1>1, <1>6
<1>8. \A k \in 1..N : whole[k] = Turn(whole[k - 1], s[k])
  <2> HIDE DEF whole
  <2> QED  BY <1>1, <1>6
<1>9. \A k \in 0..N : whole[k] \in ParserType
  <2> HIDE DEF whole
  <2> DEFINE S == {k \in 0..N : whole[k] \in ParserType}
  <2>1. 0 \in S  BY <1>1, <1>7, FreshType
  <2>2. \A k \in 0..N - 1 : k \in S => k + 1 \in S
    <3> TAKE k \in 0..N - 1
    <3>1. k + 1 \in 1..N /\ (k + 1) - 1 = k  BY <1>1
    <3>2. whole[k + 1] = Turn(whole[k], s[k + 1]) /\ s[k + 1] \in Token  BY <1>1, <1>8, <3>1
    <3> QED  BY <3>1, <3>2, TurnType
  <2> HIDE DEF S
  <2>3. \A k \in 0..N : k \in S  BY <1>1, <2>1, <2>2, Counting
  <2> QED  BY <2>3 DEF S
<1>10. DOMAIN whole = 0..N /\ whole = [k \in 0..N |-> whole[k]]
  BY <1>5
<1>11. Parsed(s) = whole  BY DEF Parsed
<1> HIDE DEF whole
<1> QED  BY <1>7, <1>8, <1>9, <1>10, <1>11

(***************************************************************************)
(* Where the parts of a request are among its bytes                        *)
(***************************************************************************)

(* A part of the bytes, after the first k.                                 *)
At(s, k, part) ==
  /\ part \in Seq(Token) /\ k \in Nat /\ k + Len(part) <= Len(s)
  /\ \A i \in 1..Len(part) : s[k + i] = part[i]

(* One part after the other.                                               *)
LEMMA AtSplit ==
  ASSUME NEW s \in Seq(Token), NEW k, NEW a \in Seq(Token), NEW b \in Seq(Token),
         At(s, k, a \o b)
  PROVE  /\ At(s, k, a) /\ At(s, k + Len(a), b)
         /\ k + Len(a \o b) = (k + Len(a)) + Len(b)
<1>1. /\ Len(a \o b) = Len(a) + Len(b)
      /\ \A i \in 1..Len(a) : (a \o b)[i] = a[i]
      /\ \A i \in 1..Len(b) : (a \o b)[Len(a) + i] = b[i]
  BY Concat
<1>2. k \in Nat /\ Len(a) \in Nat /\ Len(b) \in Nat /\ Len(s) \in Nat  BY DEF At
<1>3. k + (Len(a) + Len(b)) <= Len(s)
      /\ \A i \in 1..Len(a) + Len(b) : s[k + i] = (a \o b)[i]
  BY <1>1 DEF At
<1>4. At(s, k, a)
  <2>1. \A i \in 1..Len(a) : i \in 1..Len(a) + Len(b)  BY <1>2
  <2>2. k + Len(a) <= Len(s)  BY <1>2, <1>3
  <2> QED  BY <1>1, <1>2, <1>3, <2>1, <2>2 DEF At
<1>5. At(s, k + Len(a), b)
  <2>1. \A i \in 1..Len(b) : /\ Len(a) + i \in 1..Len(a) + Len(b)
                             /\ k + (Len(a) + i) = (k + Len(a)) + i
    BY <1>2
  <2>2. \A i \in 1..Len(b) : s[(k + Len(a)) + i] = b[i]
    <3> TAKE i \in 1..Len(b)
    <3> QED  BY <1>1, <1>3, <2>1
  <2>3. (k + Len(a)) + Len(b) <= Len(s) /\ k + Len(a) \in Nat  BY <1>2, <1>3
  <2> QED  BY <2>2, <2>3 DEF At
<1> QED  BY <1>1, <1>2, <1>4, <1>5

(* The whole of it.                                                        *)
LEMMA AtWhole == ASSUME NEW s \in Seq(Token) PROVE At(s, 0, s)
<1>1. \A i \in 1..Len(s) : 0 + i = i  OBVIOUS
<1> QED  BY <1>1 DEF At

(* The ends of the parts of a request.                                     *)
FirstEnd(r) == Len(FirstLine(r))
HostEnd(r) == FirstEnd(r) + Len(HostLines(r))
OtherEnd(r) == HostEnd(r) + Len(OtherLines(r))
HeadEnd(r) == OtherEnd(r) + Len(Eol(r))

(* The parts of a request are where these ends say.                        *)
LEMMA PartsAt ==
  ASSUME NEW r \in Request
  PROVE  LET s == Bytes(r)
         IN /\ s \in Seq(Token)
            /\ At(s, 0, FirstLine(r)) /\ At(s, FirstEnd(r), HostLines(r))
            /\ At(s, HostEnd(r), OtherLines(r)) /\ At(s, OtherEnd(r), Eol(r))
            /\ At(s, HeadEnd(r), Content(r)) /\ Len(s) = HeadEnd(r) + Len(Content(r))
<1> DEFINE f == FirstLine(r)
           h == HostLines(r)
           o == OtherLines(r)
           e == Eol(r)
           c == Content(r)
           s == Bytes(r)
<1>1. f \in Seq(Token) /\ h \in Seq(Token) /\ o \in Seq(Token) /\ e \in Seq(Token)
      /\ c \in Seq(Token) /\ s \in Seq(Token)
  BY BytesType
<1>2. s = (((f \o h) \o o) \o e) \o c  BY DEF Bytes
<1>3. At(s, 0, s)  BY <1>1, AtWhole
<1> HIDE DEF f, h, o, e, c, s
<1>a. /\ f \o h \in Seq(Token) /\ (f \o h) \o o \in Seq(Token)
      /\ ((f \o h) \o o) \o e \in Seq(Token)
  BY <1>1
<1>4. At(s, 0, ((f \o h) \o o) \o e) /\ At(s, 0 + Len(((f \o h) \o o) \o e), c)
  <2> DEFINE a == ((f \o h) \o o) \o e
  <2>1. At(s, 0, a \o c) /\ a \in Seq(Token)  BY <1>2, <1>3, <1>a
  <2> HIDE DEF a
  <2>2. At(s, 0, a) /\ At(s, 0 + Len(a), c)  BY <1>1, <2>1, AtSplit
  <2> QED  BY <2>2 DEF a
<1>5. At(s, 0, (f \o h) \o o) /\ At(s, 0 + Len((f \o h) \o o), e)
  <2> DEFINE a == (f \o h) \o o
  <2>1. At(s, 0, a \o e) /\ a \in Seq(Token)  BY <1>4, <1>a
  <2> HIDE DEF a
  <2>2. At(s, 0, a) /\ At(s, 0 + Len(a), e)  BY <1>1, <2>1, AtSplit
  <2> QED  BY <2>2 DEF a
<1>6. At(s, 0, f \o h) /\ At(s, 0 + Len(f \o h), o)
  <2> DEFINE a == f \o h
  <2>1. At(s, 0, a \o o) /\ a \in Seq(Token)  BY <1>5, <1>a
  <2> HIDE DEF a
  <2>2. At(s, 0, a) /\ At(s, 0 + Len(a), o)  BY <1>1, <2>1, AtSplit
  <2> QED  BY <2>2 DEF a
<1>7. At(s, 0, f) /\ At(s, 0 + Len(f), h)  BY <1>1, <1>6, AtSplit
<1>8. /\ Len(f \o h) = Len(f) + Len(h) /\ Len((f \o h) \o o) = (Len(f) + Len(h)) + Len(o)
      /\ Len(((f \o h) \o o) \o e) = ((Len(f) + Len(h)) + Len(o)) + Len(e)
  BY <1>1
<1>9. /\ Len(f) \in Nat /\ Len(f \o h) \in Nat /\ Len((f \o h) \o o) \in Nat
      /\ Len(((f \o h) \o o) \o e) \in Nat
  BY <1>1
<1>10. /\ 0 + Len(f) = Len(f) /\ 0 + Len(f \o h) = Len(f \o h)
       /\ 0 + Len((f \o h) \o o) = Len((f \o h) \o o)
       /\ 0 + Len(((f \o h) \o o) \o e) = Len(((f \o h) \o o) \o e)
  BY <1>9
<1>11. /\ FirstEnd(r) = Len(f) /\ HostEnd(r) = Len(f) + Len(h)
       /\ OtherEnd(r) = (Len(f) + Len(h)) + Len(o)
       /\ HeadEnd(r) = ((Len(f) + Len(h)) + Len(o)) + Len(e)
  BY DEF FirstEnd, HostEnd, OtherEnd, HeadEnd, f, h, o, e
<1>12. /\ At(s, FirstEnd(r), h) /\ At(s, HostEnd(r), o) /\ At(s, OtherEnd(r), e)
       /\ At(s, HeadEnd(r), c)
  BY <1>4, <1>5, <1>6, <1>7, <1>8, <1>10, <1>11
<1>13. Len(s) = HeadEnd(r) + Len(c)
  <2>1. Len(s) = Len(((f \o h) \o o) \o e) + Len(c)  BY <1>1, <1>2, <1>a
  <2> QED  BY <1>8, <1>11, <2>1
<1> QED  BY <1>1, <1>7, <1>12, <1>13 DEF f, h, o, e, c, s

(***************************************************************************)
(* Where a turn can lead                                                   *)
(***************************************************************************)

(* The steps before the version, those of a header line, and those that    *)
(* follow the last byte of a body with a length.                           *)
Opening == {"INIT", "METHOD", "URI", "PROTOCOL"}
HeaderSteps == {"HEADER", "HEADER_NAME"} \cup ValueSteps
AfterBody == {"CR_BODY", "END"} \cup InChunks

(* The parser never goes back: not to the start of the request line, not   *)
(* out of the body, and not into a body with a length once that is over.   *)
LEMMA NoWayBack ==
  ASSUME NEW p \in ParserType, NEW t, NEW init1, NEW init2
  PROVE  LET q == Dispatch(p, t, init1, init2)
         IN /\ p.step \notin Opening => q.step \notin Opening
            /\ p.step = "BODY" => q.step \in {"BODY", "BODY_LENGTH_END"}
            /\ p.step = "BODY_LENGTH_END" => q.step \in AfterBody
            /\ p.step \in AfterBody => q.step \in AfterBody
<1> DEFINE q == Dispatch(p, t, init1, init2)
<1>1. /\ \A x \in ParserType : \A s : Fail(x, s).step = "END"
      /\ \A x \in ParserType : \A s : Goto(x, s).step = s
  BY DEF Fail, Goto, ParserType
<1>2. \A x \in ParserType : \A s : Goto(AddHeader(x), s).step = s
  BY <1>1, AddHeaderType
<1>3. InChunks = {"CHUNK_SIZE", "CHUNK_PARAMETERS", "CR_CHUNK_SIZE", "CHUNK_DATA",
                  "CHUNK_DATA_END", "CR_CHUNK_DATA", "CHUNK_END", "CR_CHUNK_END",
                  "SECOND_CR_CHUNK_END"}
  BY DEF InChunks, Steps, Before, Measured
<1>4. ASSUME p.step = "VERSION" PROVE q.step \notin Opening
  <2> DEFINE longer == [p EXCEPT !.version = Append(@, t)]
  <2>1. longer.step = "VERSION"  BY <1>4 DEF ParserType
  <2>2. q = Version(p, t)  BY <1>4 DEF Dispatch, AfterCr
  <2> HIDE DEF q
  <2>3. CASE t \in {"CR", "LF"}
    <3>1. t # "SP" /\ t \notin Digits \cup Versions  BY <2>3 DEF Digits, Versions
    <3> QED  BY <1>1, <2>2, <2>3, <3>1 DEF Version, Opening
  <2>4. CASE t \notin {"CR", "LF"}
    <3>1. q \in {p, longer, Fail(p, 400)}  BY <2>2, <2>4 DEF Version
    <3> HIDE DEF longer
    <3> QED  BY <1>1, <1>4, <2>1, <3>1 DEF Opening
  <2> QED  BY <2>3, <2>4
<1>5. \A x \in ParserType : x.step = "HEADER_NAME" =>
        FieldName(x, t).step \in {"HEADER_VALUE_INIT", "CR_HEADER", "END", "HEADER_NAME"}
  <2> TAKE x \in ParserType
  <2>1. \A text : [x EXCEPT !.name = text].step = x.step  BY DEF ParserType
  <2> QED  BY <1>1, <1>2, <2>1 DEF FieldName
<1>6. \A x \in ParserType : x.step = "HEADER_VALUE" =>
        FieldValue(x, t).step \in {"HEADER", "CR_HEADER", "HEADER_VALUE"}
  <2> TAKE x \in ParserType
  <2>1. \A text : [x EXCEPT !.value = text].step = x.step  BY DEF ParserType
  <2> QED  BY <1>1, <1>2, <2>1 DEF FieldValue
<1>7. ASSUME p.step \in HeaderSteps PROVE q.step \notin Opening
  <2>1. q = Header(p, t)
    BY <1>7 DEF Dispatch, HeaderSteps, ValueSteps, AfterCr
  <2>2. /\ Goto(p, "HEADER_NAME") \in ParserType /\ Goto(p, "HEADER_VALUE") \in ParserType
        /\ Goto(p, "HEADER_NAME").step = "HEADER_NAME"
        /\ Goto(p, "HEADER_VALUE").step = "HEADER_VALUE"
    BY <1>1, GotoType DEF Steps
  <2>3. \/ q = Goto(p, "SECOND_CR_HEADER") \/ q = Goto(p, "END")
        \/ q = [p EXCEPT !.name = p.last, !.step = "HEADER_VALUE_INIT"]
        \/ q = FieldName(Goto(p, "HEADER_NAME"), t)
        \/ q = FieldName(p, t) /\ p.step = "HEADER_NAME"
        \/ q = p
        \/ q = FieldValue(Goto(p, "HEADER_VALUE"), t)
    <3> HIDE DEF q
    <3> QED  BY <1>7, <2>1 DEF Header, HeaderSteps, ValueSteps, Blank
  <2> HIDE DEF q
  <2>4. [p EXCEPT !.name = p.last, !.step = "HEADER_VALUE_INIT"].step = "HEADER_VALUE_INIT"
    BY DEF ParserType
  <2>5. p.step \notin Opening  BY <1>7 DEF HeaderSteps, ValueSteps, Opening
  <2>6. /\ FieldName(Goto(p, "HEADER_NAME"), t).step \notin Opening
        /\ p.step = "HEADER_NAME" => FieldName(p, t).step \notin Opening
        /\ FieldValue(Goto(p, "HEADER_VALUE"), t).step \notin Opening
    BY <1>5, <1>6, <2>2 DEF Opening
  <2>7. Goto(p, "SECOND_CR_HEADER").step \notin Opening /\ Goto(p, "END").step \notin Opening
    BY <1>1 DEF Opening
  <2> QED  BY <2>3, <2>4, <2>5, <2>6, <2>7 DEF Opening
<1>8. ASSUME p.step \in DOMAIN AfterCr, p.step # "SECOND_CR_HEADER"
      PROVE  q.step \in {AfterCr[p.step], "END"}
  <2>1. q = CheckCrlf(p, t)  BY <1>8 DEF Dispatch, AfterCr
  <2> HIDE DEF q
  <2> QED  BY <1>1, <1>8, <2>1 DEF CheckCrlf
<1>9. p.step = "SECOND_CR_HEADER" => q.step \in {"BODY", "CHUNK_SIZE", "END"}
  <2> SUFFICES ASSUME p.step = "SECOND_CR_HEADER"
               PROVE  q.step \in {"BODY", "CHUNK_SIZE", "END"}
    OBVIOUS
  <2>1. q = CheckCrlf(p, t)  BY DEF Dispatch, AfterCr
  <2>2. Goto(p, "END") \in ParserType  BY GotoType DEF Steps
  <2> HIDE DEF q
  <2>3. Passed(Goto(p, "END")).step \in {"BODY", "CHUNK_SIZE", "END"}
    BY <2>2 DEF Passed, ParserType
  <2>4. CheckRequest(Goto(p, "END")).step \in {"BODY", "CHUNK_SIZE", "END"}
    BY <1>1, <2>2, <2>3, CheckOutcome
  <2> QED  BY <1>1, <2>1, <2>4 DEF CheckCrlf
<1>10. p.step = "BODY" => q.step \in {"BODY", "BODY_LENGTH_END"}
  <2>1. p.step = "BODY" => q = Body(p, t)  BY DEF Dispatch, AfterCr
  <2> HIDE DEF q
  <2> QED  BY <2>1 DEF Body, ParserType
<1>11. p.step = "BODY_LENGTH_END" => q.step \in {"CR_BODY", "END"}
  <2>1. p.step = "BODY_LENGTH_END" => q = EndBody(p, t)  BY DEF Dispatch, AfterCr
  <2> HIDE DEF q
  <2> QED  BY <1>1, <2>1 DEF EndBody
<1>12. p.step = "END" => q = p  BY DEF Dispatch, AfterCr
<1>13. ASSUME p.step \in InChunks PROVE q.step \in InChunks \cup {"END"}
  <2>1. CASE p.step \in {"CR_CHUNK_SIZE", "CR_CHUNK_DATA", "CR_CHUNK_END", "SECOND_CR_CHUNK_END"}
    <3>1. AfterCr[p.step] \in InChunks \cup {"END"}  BY <1>3, <2>1 DEF AfterCr
    <3>2. p.step \in DOMAIN AfterCr  BY <2>1 DEF AfterCr
    <3> HIDE DEF q
    <3> QED  BY <1>8, <2>1, <3>1, <3>2
  <2>2. CASE p.step = "CHUNK_SIZE"
    <3>1. q = ChunkSize(p, t)  BY <2>2 DEF Dispatch, AfterCr
    <3>2. \A s, n : [p EXCEPT !.step = s, !.chunkSize = n, !.chunkRead = 0,
                              !.chunkDigits = <<>>].step = s
      BY DEF ParserType
    <3>3. \A d : [p EXCEPT !.chunkDigits = d].step = p.step  BY DEF ParserType
    <3> HIDE DEF q
    <3> QED  BY <1>1, <1>3, <2>2, <3>1, <3>2, <3>3 DEF ChunkSize
  <2>3. CASE p.step = "CHUNK_PARAMETERS"
    <3>1. q = ChunkParameters(p, t)  BY <2>3 DEF Dispatch, AfterCr
    <3> HIDE DEF q
    <3> QED  BY <1>1, <1>3, <2>3, <3>1 DEF ChunkParameters
  <2>4. CASE p.step = "CHUNK_DATA"
    <3>1. q = ChunkData(p, t)  BY <2>4 DEF Dispatch, AfterCr
    <3>2. \A b, n, s : [p EXCEPT !.body = b, !.chunkRead = n, !.step = s].step = s
      BY DEF ParserType
    <3> HIDE DEF q
    <3> QED  BY <1>1, <1>3, <2>4, <3>1, <3>2 DEF ChunkData
  <2>5. CASE p.step \in {"CHUNK_DATA_END", "CHUNK_END"}
    <3>1. \/ q = ChunkLineEnd(p, t, "CR_CHUNK_DATA", "CHUNK_SIZE")
          \/ q = ChunkLineEnd(p, t, "SECOND_CR_CHUNK_END", "END")
      BY <2>5 DEF Dispatch, AfterCr
    <3> HIDE DEF q
    <3> QED  BY <1>1, <1>3, <3>1 DEF ChunkLineEnd
  <2> QED  BY <1>3, <1>13, <2>1, <2>2, <2>3, <2>4, <2>5
<1>14. /\ p.step \in {"CR_FIRST_LINE", "CR_HEADER"} => q.step \in {"HEADER", "END"}
       /\ p.step = "CR_BODY" => q.step = "END"
  <2> HIDE DEF q
  <2> QED  BY <1>8 DEF AfterCr
<1>15. p.step \in {"INIT", "METHOD", "URI", "PROTOCOL", "VERSION", "CR_FIRST_LINE",
                   "CR_HEADER", "SECOND_CR_HEADER", "BODY", "BODY_LENGTH_END", "CR_BODY", "END"}
                  \cup HeaderSteps \cup InChunks
  BY <1>3 DEF ParserType, Steps, HeaderSteps, ValueSteps
<1> HIDE DEF q
<1>16. p.step \notin Opening => q.step \notin Opening
  <2> SUFFICES ASSUME p.step \notin Opening PROVE q.step \notin Opening  OBVIOUS
  <2>1. CASE p.step \in HeaderSteps  BY <1>7, <2>1
  <2>2. CASE p.step \in InChunks  BY <1>3, <1>13, <2>2 DEF Opening
  <2>3. CASE p.step \notin HeaderSteps \cup InChunks
    BY <1>4, <1>9, <1>10, <1>11, <1>12, <1>14, <1>15, <2>3 DEF Opening
  <2> QED  BY <2>1, <2>2, <2>3
<1>17. p.step \in AfterBody => q.step \in AfterBody
  BY <1>12, <1>13, <1>14 DEF AfterBody
<1>18. q = Dispatch(p, t, init1, init2)  BY DEF q
<1> QED  BY <1>10, <1>11, <1>16, <1>17, <1>18 DEF AfterBody

(***************************************************************************)
(* The request line                                                        *)
(***************************************************************************)

(* No header and no body has been parsed yet.                              *)
Untouched(p) ==
  /\ p.name = <<>> /\ p.value = <<>> /\ p.last = <<>> /\ p.headers = <<>>
  /\ ~p.checked /\ p.body = <<>> /\ p.chunkDigits = <<>> /\ p.status = 0

(* The parser in the request line of r.                                    *)
Opened(p, r, step, uri, protocol, version) ==
  /\ p.step = step /\ p.method = <<r.method>> /\ p.uri = uri /\ p.protocol = protocol
  /\ p.version = version /\ Untouched(p)

(* The request has ended with an error.                                    *)
Failed(p) == p.step = "END" /\ p.status # 0

(* Each token of the request line, where it is expected.                   *)
LEMMA OpeningTurns ==
  ASSUME NEW r \in Request, NEW p \in ParserType
  PROVE  LET u == <<r.uri>>
             h == <<"HTTP">>
             v == <<r.version>>
         IN /\ Opened(Turn(Fresh, r.method), r, "METHOD", <<>>, <<>>, <<>>)
            /\ Opened(p, r, "METHOD", <<>>, <<>>, <<>>) =>
                 /\ Failed(Turn(p, r.uri))
                 /\ Opened(Turn(p, "SP"), r, "URI", <<>>, <<>>, <<>>)
            /\ Opened(p, r, "URI", <<>>, <<>>, <<>>) =>
                 /\ Turn(p, "SP") = p
                 /\ Opened(Turn(p, r.uri), r, "URI", u, <<>>, <<>>)
            /\ Opened(p, r, "URI", u, <<>>, <<>>) =>
                 /\ Opened(Turn(p, "SP"), r, "PROTOCOL", u, <<>>, <<>>)
                 /\ \A t \in {"CR", "LF", "HT"} : Failed(Turn(p, t))
            /\ Opened(p, r, "PROTOCOL", u, <<>>, <<>>) =>
                 /\ Turn(p, "SP") = p
                 /\ Opened(Turn(p, "HTTP"), r, "PROTOCOL", u, h, <<>>)
            /\ Opened(p, r, "PROTOCOL", u, h, <<>>) =>
                 /\ Opened(Turn(p, "SLASH"), r, "VERSION", u, h, <<>>)
                 /\ \A t \in {"CR", "LF"} : Failed(Turn(p, t))
            /\ Opened(p, r, "VERSION", u, h, <<>>) =>
                 Opened(Turn(p, r.version), r, "VERSION", u, h, v)
<1> DEFINE q(t) == Dispatch(p, t, p.uri = <<>>, p.protocol = <<>>)
           m == [Fresh EXCEPT !.step = "METHOD"]
<1>1. r.method \in UpperWords /\ r.uri \in Uris \cup {"v"} /\ r.version \in Versions \cup Digits
  BY DEF Request
<1>2. Opened(Turn(Fresh, r.method), r, "METHOD", <<>>, <<>>, <<>>)
  <2>1. Turn(Fresh, r.method) = Method(m, r.method)
    BY DEF Turn, Dispatch, ParseInit, Fresh, AfterCr
  <2>2. Method(m, r.method) = [m EXCEPT !.method = Append(@, r.method)]
    BY <1>1 DEF Method, UpperWords
  <2>3. m.method = <<>> /\ Append(<<>>, r.method) = <<r.method>>  BY DEF Fresh
  <2>4. [m EXCEPT !.method = Append(@, r.method)] = [m EXCEPT !.method = <<r.method>>]
    BY <2>3
  <2>5. Opened([m EXCEPT !.method = <<r.method>>], r, "METHOD", <<>>, <<>>, <<>>)
    BY DEF Opened, Untouched, Fresh
  <2> HIDE DEF m
  <2> QED  BY <2>1, <2>2, <2>4, <2>5
<1>3. \A t : p.step # "END" => Turn(p, t) = q(t)  BY DEF Turn
<1>4. ASSUME Opened(p, r, "METHOD", <<>>, <<>>, <<>>)
      PROVE  /\ Failed(Turn(p, r.uri))
             /\ Opened(Turn(p, "SP"), r, "URI", <<>>, <<>>, <<>>)
  <2>1. p.step = "METHOD" /\ p.method # <<>>  BY <1>4 DEF Opened
  <2>2. Turn(p, r.uri) = Method(p, r.uri) /\ Turn(p, "SP") = Method(p, "SP")
    BY <1>3, <2>1 DEF Dispatch, AfterCr
  <2>3. Method(p, r.uri) = Fail(p, 400)  BY <1>1 DEF Method, UpperWords, Uris
  <2>4. Method(p, "SP") = Goto(p, "URI")  BY <2>1 DEF Method, UpperWords
  <2>5. Failed(Fail(p, 400))  BY DEF Failed, Fail, ParserType
  <2>6. Opened(Goto(p, "URI"), r, "URI", <<>>, <<>>, <<>>)
    BY <1>4 DEF Opened, Untouched, Goto, ParserType
  <2> QED  BY <2>2, <2>3, <2>4, <2>5, <2>6
<1>5. ASSUME Opened(p, r, "URI", <<>>, <<>>, <<>>)
      PROVE  /\ Turn(p, "SP") = p
             /\ Opened(Turn(p, r.uri), r, "URI", <<r.uri>>, <<>>, <<>>)
  <2>1. p.step = "URI" /\ p.uri = <<>>  BY <1>5 DEF Opened
  <2>2. Turn(p, r.uri) = Uri(p, r.uri, TRUE) /\ Turn(p, "SP") = Uri(p, "SP", TRUE)
    BY <1>3, <2>1 DEF Dispatch, AfterCr
  <2>3. Uri(p, "SP", TRUE) = p  BY DEF Uri, IsUriChar
  <2>4. IsUriChar(r.uri) /\ r.uri # "SP"  BY <1>1 DEF IsUriChar, Uris, Controls
  <2>5. Uri(p, r.uri, TRUE) = [p EXCEPT !.uri = Append(@, r.uri)]  BY <2>4 DEF Uri
  <2>6. [p EXCEPT !.uri = Append(@, r.uri)] = [p EXCEPT !.uri = <<r.uri>>]
    <3>1. Append(p.uri, r.uri) = <<r.uri>>  BY <2>1
    <3> QED  BY <3>1
  <2>7. Opened([p EXCEPT !.uri = <<r.uri>>], r, "URI", <<r.uri>>, <<>>, <<>>)
    BY <1>5 DEF Opened, Untouched, ParserType
  <2> QED  BY <2>2, <2>3, <2>5, <2>6, <2>7
<1>6. ASSUME Opened(p, r, "URI", <<r.uri>>, <<>>, <<>>)
      PROVE  /\ Opened(Turn(p, "SP"), r, "PROTOCOL", <<r.uri>>, <<>>, <<>>)
             /\ \A t \in {"CR", "LF", "HT"} : Failed(Turn(p, t))
  <2>1. p.step = "URI" /\ p.uri # <<>>  BY <1>6 DEF Opened
  <2>2. Turn(p, "SP") = Uri(p, "SP", FALSE)
    BY <1>3, <2>1 DEF Dispatch, AfterCr
  <2>3. Uri(p, "SP", FALSE) = Goto(p, "PROTOCOL")  BY DEF Uri, IsUriChar
  <2>4. Opened(Goto(p, "PROTOCOL"), r, "PROTOCOL", <<r.uri>>, <<>>, <<>>)
    BY <1>6 DEF Opened, Untouched, Goto, ParserType
  <2>5. ASSUME NEW t \in {"CR", "LF", "HT"} PROVE Turn(p, t) = Fail(p, 400)
    <3>1. Turn(p, t) = Uri(p, t, FALSE)  BY <1>3, <2>1 DEF Dispatch, AfterCr
    <3>2. t # "SP" /\ ~IsUriChar(t)  BY DEF IsUriChar, Controls
    <3> QED  BY <3>1, <3>2 DEF Uri
  <2>6. Failed(Fail(p, 400))  BY DEF Failed, Fail, ParserType
  <2>7. \A t \in {"CR", "LF", "HT"} : Failed(Turn(p, t))  BY <2>5, <2>6
  <2> QED  BY <2>2, <2>3, <2>4, <2>7
<1>7. ASSUME Opened(p, r, "PROTOCOL", <<r.uri>>, <<>>, <<>>)
      PROVE  /\ Turn(p, "SP") = p
             /\ Opened(Turn(p, "HTTP"), r, "PROTOCOL", <<r.uri>>, <<"HTTP">>, <<>>)
  <2>1. p.step = "PROTOCOL" /\ p.protocol = <<>>  BY <1>7 DEF Opened
  <2>a. Turn(p, "SP") = Protocol(p, "SP", TRUE)
    BY <1>3, <2>1 DEF Dispatch, AfterCr
  <2>b. Protocol(p, "SP", TRUE) = p
    <3>1. "SP" # "SLASH" /\ "SP" \notin {"CR", "LF"} \cup Uris  BY DEF Uris
    <3> QED  BY <3>1 DEF Protocol
  <2>2. Turn(p, "HTTP") = Protocol(p, "HTTP", TRUE)
    BY <1>3, <2>1 DEF Dispatch, AfterCr
  <2>3. Protocol(p, "HTTP", TRUE) = [p EXCEPT !.protocol = Append(@, "HTTP")]
    BY DEF Protocol, Uris
  <2>4. [p EXCEPT !.protocol = Append(@, "HTTP")] = [p EXCEPT !.protocol = <<"HTTP">>]
    <3>1. Append(p.protocol, "HTTP") = <<"HTTP">>  BY <2>1
    <3> QED  BY <3>1
  <2>5. Opened([p EXCEPT !.protocol = <<"HTTP">>], r, "PROTOCOL", <<r.uri>>, <<"HTTP">>, <<>>)
    BY <1>7 DEF Opened, Untouched, ParserType
  <2> QED  BY <2>a, <2>b, <2>2, <2>3, <2>4, <2>5
<1>8. ASSUME Opened(p, r, "PROTOCOL", <<r.uri>>, <<"HTTP">>, <<>>)
      PROVE  /\ Opened(Turn(p, "SLASH"), r, "VERSION", <<r.uri>>, <<"HTTP">>, <<>>)
             /\ \A t \in {"CR", "LF"} : Failed(Turn(p, t))
  <2>1. p.step = "PROTOCOL" /\ p.protocol = <<"HTTP">>  BY <1>8 DEF Opened
  <2>2. Turn(p, "SLASH") = Protocol(p, "SLASH", p.protocol = <<>>)
    BY <1>3, <2>1 DEF Dispatch, AfterCr
  <2>3. Protocol(p, "SLASH", p.protocol = <<>>) = Goto(p, "VERSION")
    BY <2>1 DEF Protocol, Uris
  <2>4. Opened(Goto(p, "VERSION"), r, "VERSION", <<r.uri>>, <<"HTTP">>, <<>>)
    BY <1>8 DEF Opened, Untouched, Goto, ParserType
  <2>5. ASSUME NEW t \in {"CR", "LF"} PROVE Turn(p, t) = Fail(p, 400)
    <3>1. Turn(p, t) = Protocol(p, t, p.protocol = <<>>)
      BY <1>3, <2>1 DEF Dispatch, AfterCr
    <3>2. t # "SP" /\ t # "SLASH"  OBVIOUS
    <3> QED  BY <3>1, <3>2 DEF Protocol
  <2>6. Failed(Fail(p, 400))  BY DEF Failed, Fail, ParserType
  <2> QED  BY <2>2, <2>3, <2>4, <2>5, <2>6
<1>9. ASSUME Opened(p, r, "VERSION", <<r.uri>>, <<"HTTP">>, <<>>)
      PROVE  Opened(Turn(p, r.version), r, "VERSION", <<r.uri>>, <<"HTTP">>, <<r.version>>)
  <2>1. p.step = "VERSION" /\ p.version = <<>>  BY <1>9 DEF Opened
  <2>2. Turn(p, r.version) = Version(p, r.version)  BY <1>3, <2>1 DEF Dispatch, AfterCr
  <2>3. Version(p, r.version) = [p EXCEPT !.version = Append(@, r.version)]
    BY <1>1, <2>1 DEF Version, Versions, Digits
  <2>4. [p EXCEPT !.version = Append(@, r.version)] = [p EXCEPT !.version = <<r.version>>]
    <3>1. Append(p.version, r.version) = <<r.version>>  BY <2>1
    <3> QED  BY <3>1
  <2>5. Opened([p EXCEPT !.version = <<r.version>>], r, "VERSION", <<r.uri>>, <<"HTTP">>, <<r.version>>)
    BY <1>9 DEF Opened, Untouched, ParserType
  <2> QED  BY <2>2, <2>3, <2>4, <2>5
<1> QED  BY <1>2, <1>4, <1>5, <1>6, <1>7, <1>8, <1>9

(* Two texts, one after the other.                                         *)
LEMMA Joined ==
  \A a, b \in Seq(Token) :
    /\ a \o b \in Seq(Token) /\ Len(a \o b) = Len(a) + Len(b)
    /\ \A i \in 1..Len(a) : (a \o b)[i] = a[i]
    /\ \A i \in 1..Len(b) : (a \o b)[Len(a) + i] = b[i]
  OBVIOUS

(* Five parts, one after the other.                                        *)
InFive(a, b, c, d, e) == (((a \o b) \o c) \o d) \o e

LEMMA FiveParts ==
  ASSUME NEW s \in Seq(Token), NEW a \in Seq(Token), NEW b \in Seq(Token),
         NEW c \in Seq(Token), NEW d \in Seq(Token), NEW e \in Seq(Token),
         At(s, 0, InFive(a, b, c, d, e))
  PROVE  /\ At(s, 0, a) /\ At(s, Len(a), b) /\ At(s, Len(a) + Len(b), c)
         /\ At(s, (Len(a) + Len(b)) + Len(c), d)
         /\ At(s, ((Len(a) + Len(b)) + Len(c)) + Len(d), e)
         /\ Len(InFive(a, b, c, d, e)) = (((Len(a) + Len(b)) + Len(c)) + Len(d)) + Len(e)
<1> DEFINE x == a \o b
           y == x \o c
           z == y \o d
<1>1. /\ x \in Seq(Token) /\ Len(x) = Len(a) + Len(b)
      /\ y \in Seq(Token) /\ Len(y) = (Len(a) + Len(b)) + Len(c)
      /\ z \in Seq(Token) /\ Len(z) = ((Len(a) + Len(b)) + Len(c)) + Len(d)
  <2>1. x \in Seq(Token) /\ Len(x) = Len(a) + Len(b)  OBVIOUS
  <2> HIDE DEF x
  <2>2. y \in Seq(Token) /\ Len(y) = Len(x) + Len(c)  BY <2>1, Joined
  <2> HIDE DEF y
  <2>3. z \in Seq(Token) /\ Len(z) = Len(y) + Len(d)  BY <2>2, Joined
  <2> QED  BY <2>1, <2>2, <2>3
<1>2. InFive(a, b, c, d, e) = z \o e /\ At(s, 0, z \o e)  BY DEF InFive
<1> HIDE DEF z
<1>3. At(s, 0, z) /\ At(s, 0 + Len(z), e)  BY <1>1, <1>2, AtSplit
<1>4. At(s, 0, y \o d)  BY <1>3 DEF z
<1> HIDE DEF y
<1>5. At(s, 0, y) /\ At(s, 0 + Len(y), d)  BY <1>1, <1>4, AtSplit
<1>6. At(s, 0, x \o c)  BY <1>5 DEF y
<1> HIDE DEF x
<1>7. At(s, 0, x) /\ At(s, 0 + Len(x), c)  BY <1>1, <1>6, AtSplit
<1>8. At(s, 0, a) /\ At(s, 0 + Len(a), b)  BY <1>7, AtSplit DEF x
<1>9. /\ 0 + Len(a) = Len(a) /\ 0 + Len(x) = Len(x) /\ 0 + Len(y) = Len(y)
      /\ 0 + Len(z) = Len(z) /\ Len(z \o e) = Len(z) + Len(e)
  <2>1. Len(z \o e) = Len(z) + Len(e)  BY <1>1, Joined
  <2>2. Len(a) \in Nat /\ Len(x) \in Nat /\ Len(y) \in Nat /\ Len(z) \in Nat  BY <1>1
  <2> QED  BY <2>1, <2>2
<1> QED  BY <1>1, <1>2, <1>3, <1>5, <1>7, <1>8, <1>9

(* The last space before the protocol is the (SpaceEnd(r) + 2)-th token.   *)
SpaceEnd(r) == r.gap + r.space

(* The tokens of the request line, up to where it breaks off.              *)
LEMMA FirstTokens ==
  ASSUME NEW r \in Request
  PROVE  LET s == Bytes(r)
             g == r.gap
             n == SpaceEnd(r)
         IN /\ g \in Nat /\ n \in Nat /\ n >= g + 1 /\ s \in Seq(Token)
            /\ s[1] = r.method
            /\ \A k \in 2..g + 1 : s[k] = "SP"
            /\ s[g + 2] = r.uri /\ g + 3 <= Len(s)
            /\ FirstEnd(r) \in Nat /\ FirstEnd(r) <= Len(s)
            /\ r.cut \in {"uri", "tab"} => s[g + 3] \in {"CR", "LF", "HT"}
            /\ r.cut \notin {"uri", "tab"} =>
                 /\ \A k \in g + 3..n + 2 : s[k] = "SP"
                 /\ s[n + 3] = "HTTP" /\ n + 4 <= Len(s)
            /\ r.cut = "protocol" => s[n + 4] \in {"CR", "LF"}
            /\ r.cut = "no" => /\ s[n + 4] = "SLASH" /\ s[n + 5] = r.version
                               /\ At(s, n + 5, Eol(r))
                               /\ FirstEnd(r) = (n + 5) + Len(Eol(r))
<1> DEFINE s == Bytes(r)
           g == r.gap
           q == r.space
           a == <<r.method>>
           b == Times(g, "SP")
           u == <<r.uri>>
           sp == Times(q, "SP")
           w == AfterUri(r)
           e == Eol(r)
<1>1. /\ g \in Nat /\ q \in Nat /\ q >= 1 /\ r.cut \in {"no", "uri", "tab", "protocol"}
      /\ {r.method, r.uri, r.version, "SP", "HTTP", "SLASH", "HT"} \subseteq Token
  BY DEF Request, Token, UpperWords, Words, Separators, Controls
<1>2. /\ a \in Seq(Token) /\ b \in Seq(Token) /\ u \in Seq(Token) /\ sp \in Seq(Token)
      /\ w \in Seq(Token) /\ e \in Seq(Token)
  <2>1. b \in Seq(Token) /\ sp \in Seq(Token)  BY <1>1, TimesType
  <2>2. a \in Seq(Token) /\ u \in Seq(Token)  BY <1>1
  <2>3. \A x \in Seq(Token \ {"LF", "host"}) : x \in Seq(Token)  OBVIOUS
  <2>4. w \in Seq(Token)  BY <2>3, AfterUriPlain
  <2> QED  BY <2>1, <2>2, <2>4, BytesType
<1>3. s \in Seq(Token) /\ At(s, 0, (((a \o b) \o u) \o w) \o e)
  <2>1. FirstLine(r) = (((a \o b) \o u) \o w) \o e  BY DEF FirstLine
  <2> QED  BY <2>1, PartsAt
<1>4. /\ Len(a) = 1 /\ Len(b) = g /\ Len(u) = 1 /\ Len(sp) = q /\ Len(w) \in Nat
      /\ a[1] = r.method /\ u[1] = r.uri
      /\ (\A k \in 1..g : b[k] = "SP") /\ (\A k \in 1..q : sp[k] = "SP")
  BY <1>1, <1>2 DEF Times
<1>5. /\ e[1] \in {"CR", "LF"} /\ Len(e) \in 1..2 /\ Len(e) \in Nat /\ 1 \in 1..Len(e)
  BY DEF Eol
<1>6. FirstEnd(r) = Len((((a \o b) \o u) \o w) \o e)  BY DEF FirstEnd, FirstLine
<1>w. /\ r.cut = "uri" => w = <<>>
      /\ r.cut = "tab" => w = <<"HT">>
      /\ r.cut = "protocol" => w = sp \o <<"HTTP">>
      /\ r.cut = "no" => w = sp \o <<"HTTP", "SLASH", r.version>>
  BY DEF AfterUri
<1> HIDE DEF s, g, q, a, b, u, sp, w, e
<1>7. /\ At(s, 0, a) /\ At(s, 1, b) /\ At(s, 1 + g, u) /\ At(s, g + 2, w)
      /\ At(s, (g + 2) + Len(w), e) /\ FirstEnd(r) = ((g + 2) + Len(w)) + Len(e)
  <2>a. /\ At(s, 0, a) /\ At(s, Len(a), b) /\ At(s, Len(a) + Len(b), u)
        /\ At(s, (Len(a) + Len(b)) + Len(u), w)
        /\ At(s, ((Len(a) + Len(b)) + Len(u)) + Len(w), e)
        /\ FirstEnd(r) = (((Len(a) + Len(b)) + Len(u)) + Len(w)) + Len(e)
    <3>1. s \in Seq(Token) /\ At(s, 0, InFive(a, b, u, w, e))  BY <1>3 DEF InFive
    <3>2. /\ a \in Seq(Token) /\ b \in Seq(Token) /\ u \in Seq(Token)
          /\ w \in Seq(Token) /\ e \in Seq(Token)
      BY <1>2
    <3>3. /\ At(s, 0, a) /\ At(s, Len(a), b) /\ At(s, Len(a) + Len(b), u)
          /\ At(s, (Len(a) + Len(b)) + Len(u), w)
          /\ At(s, ((Len(a) + Len(b)) + Len(u)) + Len(w), e)
          /\ Len(InFive(a, b, u, w, e))
               = (((Len(a) + Len(b)) + Len(u)) + Len(w)) + Len(e)
      BY <3>1, <3>2, FiveParts
    <3> QED  BY <1>6, <3>3 DEF InFive
  <2>1. /\ At(s, 0, a) /\ At(s, 1, b) /\ At(s, 1 + g, u) /\ At(s, (1 + g) + 1, w)
        /\ At(s, ((1 + g) + 1) + Len(w), e)
        /\ FirstEnd(r) = (((1 + g) + 1) + Len(w)) + Len(e)
    BY <1>4, <2>a
  <2>2. (1 + g) + 1 = g + 2  BY <1>1
  <2> QED  BY <2>1, <2>2
<1>8. s[1] = r.method /\ s[g + 2] = r.uri
  <2>1. 1 \in 1..Len(a) /\ 1 \in 1..Len(u) /\ 0 + 1 = 1 /\ (1 + g) + 1 = g + 2  BY <1>1, <1>4
  <2>2. s[0 + 1] = a[1] /\ s[(1 + g) + 1] = u[1]  BY <1>7, <2>1 DEF At
  <2> QED  BY <1>4, <2>1, <2>2
<1>9. \A k \in 2..g + 1 : s[k] = "SP"
  <2> TAKE k \in 2..g + 1
  <2>1. k - 1 \in 1..g /\ 1 + (k - 1) = k  BY <1>1
  <2>2. s[1 + (k - 1)] = b[k - 1]  BY <1>4, <1>7, <2>1 DEF At
  <2> QED  BY <1>4, <2>1, <2>2
<1>10. /\ s[((g + 2) + Len(w)) + 1] = e[1] /\ Len(s) \in Nat
       /\ FirstEnd(r) \in Nat /\ FirstEnd(r) <= Len(s) /\ g + 3 <= Len(s)
       /\ (g + 2) + Len(w) + 1 <= Len(s)
  <2>1. s[((g + 2) + Len(w)) + 1] = e[1]  BY <1>5, <1>7 DEF At
  <2>2. Len(s) \in Nat /\ ((g + 2) + Len(w)) + Len(e) <= Len(s)  BY <1>3, <1>7 DEF At
  <2> QED  BY <1>1, <1>4, <1>5, <1>7, <2>1, <2>2
<1>11. ASSUME r.cut \in {"uri", "tab"} PROVE s[g + 3] \in {"CR", "LF", "HT"}
  <2>1. CASE r.cut = "uri"
    <3>1. Len(w) = 0 /\ ((g + 2) + Len(w)) + 1 = g + 3  BY <1>1, <1>w, <2>1
    <3> QED  BY <1>5, <1>10, <3>1
  <2>2. CASE r.cut = "tab"
    <3>1. 1 \in 1..Len(w) /\ w[1] = "HT"  BY <1>w, <2>2
    <3>3. (g + 2) + 1 = g + 3  BY <1>1
    <3>2. s[(g + 2) + 1] = w[1]  BY <1>7, <3>1 DEF At
    <3> QED  BY <3>1, <3>2, <3>3
  <2> QED  BY <1>11, <2>1, <2>2
<1> DEFINE n == g + q
<1>12. ASSUME NEW x \in Seq(Token), w = sp \o x, x # <<>>
       PROVE  /\ \A k \in g + 3..n + 2 : s[k] = "SP"
              /\ \A i \in 1..Len(x) : s[(n + 2) + i] = x[i]
              /\ (g + 2) + Len(w) = (n + 2) + Len(x)
              /\ Len(x) \in Nat \ {0}
  <2>1. At(s, g + 2, sp) /\ At(s, (g + 2) + q, x) /\ (g + 2) + Len(w) = ((g + 2) + q) + Len(x)
    BY <1>2, <1>3, <1>4, <1>7, <1>12, AtSplit
  <2>2. (g + 2) + q = n + 2  BY <1>1
  <2>3. \A k \in g + 3..n + 2 : s[k] = "SP"
    <3> TAKE k \in g + 3..n + 2
    <3>1. k - (g + 2) \in 1..q /\ (g + 2) + (k - (g + 2)) = k  BY <1>1
    <3>2. s[(g + 2) + (k - (g + 2))] = sp[k - (g + 2)]  BY <1>4, <2>1, <3>1 DEF At
    <3> QED  BY <1>4, <3>1, <3>2
  <2>4. \A i \in 1..Len(x) : s[(n + 2) + i] = x[i]  BY <2>1, <2>2 DEF At
  <2>5. Len(x) \in Nat \ {0}  BY <1>12
  <2> QED  BY <2>1, <2>2, <2>3, <2>4, <2>5
<1>13. /\ (n + 2) + 1 = n + 3 /\ (n + 2) + 2 = n + 4 /\ (n + 2) + 3 = n + 5
       /\ ((n + 2) + 1) + 1 = n + 4 /\ n \in Nat /\ n >= g + 1
  BY <1>1
<1>14. ASSUME r.cut = "protocol"
       PROVE  /\ \A k \in g + 3..n + 2 : s[k] = "SP"
              /\ s[n + 3] = "HTTP" /\ n + 4 <= Len(s) /\ s[n + 4] \in {"CR", "LF"}
  <2> DEFINE x == <<"HTTP">>
  <2>1. x \in Seq(Token) /\ w = sp \o x /\ x # <<>> /\ Len(x) = 1 /\ x[1] = "HTTP"
    BY <1>1, <1>w, <1>14
  <2> HIDE DEF x
  <2> HIDE DEF n
  <2>2. /\ \A k \in g + 3..n + 2 : s[k] = "SP"
        /\ s[(n + 2) + 1] = x[1] /\ (g + 2) + Len(w) = (n + 2) + 1
    <3>1. /\ \A k \in g + 3..n + 2 : s[k] = "SP"
          /\ \A i \in 1..Len(x) : s[(n + 2) + i] = x[i]
          /\ (g + 2) + Len(w) = (n + 2) + Len(x)
      BY <1>12, <2>1
    <3>2. 1 \in 1..Len(x)  BY <2>1
    <3> QED  BY <2>1, <3>1, <3>2
  <2>3. s[n + 3] = "HTTP" /\ s[n + 4] = e[1]  BY <1>10, <1>13, <2>1, <2>2
  <2>4. n + 4 <= Len(s)  BY <1>10, <1>13, <2>2
  <2> QED  BY <1>5, <2>2, <2>3, <2>4
<1>15. ASSUME r.cut = "no"
       PROVE  /\ \A k \in g + 3..n + 2 : s[k] = "SP"
              /\ s[n + 3] = "HTTP" /\ s[n + 4] = "SLASH" /\ s[n + 5] = r.version
              /\ n + 4 <= Len(s) /\ At(s, n + 5, e) /\ FirstEnd(r) = (n + 5) + Len(e)
  <2> DEFINE x == <<"HTTP", "SLASH", r.version>>
  <2>1. /\ x \in Seq(Token) /\ w = sp \o x /\ x # <<>> /\ Len(x) = 3
        /\ x[1] = "HTTP" /\ x[2] = "SLASH" /\ x[3] = r.version
    BY <1>1, <1>w, <1>15
  <2> HIDE DEF x
  <2> HIDE DEF n
  <2>2. /\ \A k \in g + 3..n + 2 : s[k] = "SP"
        /\ s[(n + 2) + 1] = x[1] /\ s[(n + 2) + 2] = x[2] /\ s[(n + 2) + 3] = x[3]
        /\ (g + 2) + Len(w) = (n + 2) + 3
    <3>1. /\ \A k \in g + 3..n + 2 : s[k] = "SP"
          /\ \A i \in 1..3 : s[(n + 2) + i] = x[i]
          /\ (g + 2) + Len(w) = (n + 2) + 3
      BY <1>12, <2>1
    <3> QED  BY <3>1
  <2>3. n + 4 <= Len(s)  BY <1>10, <1>13, <2>2
  <2> QED  BY <1>7, <1>13, <2>1, <2>2, <2>3
<1>16. n = SpaceEnd(r)  BY DEF SpaceEnd, g, q
<1> HIDE DEF n
<1>17. /\ r.cut \in {"uri", "tab"} => s[g + 3] \in {"CR", "LF", "HT"}
       /\ r.cut \notin {"uri", "tab"} =>
            /\ \A k \in g + 3..n + 2 : s[k] = "SP"
            /\ s[n + 3] = "HTTP" /\ n + 4 <= Len(s)
       /\ r.cut = "protocol" => s[n + 4] \in {"CR", "LF"}
       /\ r.cut = "no" => /\ s[n + 4] = "SLASH" /\ s[n + 5] = r.version /\ At(s, n + 5, e)
                          /\ FirstEnd(r) = (n + 5) + Len(e)
  BY <1>1, <1>11, <1>14, <1>15
<1> QED  BY <1>1, <1>3, <1>8, <1>9, <1>10, <1>13, <1>16, <1>17 DEF s, g, e

(* The end of the request line.                                            *)
LEMMA VersionTurns ==
  ASSUME NEW r \in Request, NEW p \in ParserType
  PROVE  LET u == <<r.uri>>
             h == <<"HTTP">>
             v == <<r.version>>
         IN /\ Opened(p, r, "VERSION", u, h, v) /\ r.version # "1.1" =>
                 Failed(Turn(p, "CR")) /\ Failed(Turn(p, "LF"))
            /\ Opened(p, r, "VERSION", u, h, v) /\ r.version = "1.1" =>
                 /\ Opened(Turn(p, "CR"), r, "CR_FIRST_LINE", u, h, v)
                 /\ Opened(Turn(p, "LF"), r, "HEADER", u, h, v)
            /\ Opened(p, r, "CR_FIRST_LINE", u, h, v) =>
                 Opened(Turn(p, "LF"), r, "HEADER", u, h, v)
<1> DEFINE u == <<r.uri>>
           h == <<"HTTP">>
           v == <<r.version>>
<1>1. \A t : p.step # "END" => Turn(p, t) = Dispatch(p, t, p.uri = <<>>, p.protocol = <<>>)
  BY DEF Turn
<1>2. /\ v = <<"1.1">> <=> r.version = "1.1"
      /\ v # <<>>
  OBVIOUS
<1> HIDE DEF u, h, v
<1>3. ASSUME Opened(p, r, "VERSION", u, h, v), NEW t \in {"CR", "LF"}
      PROVE  Turn(p, t) = IF VersionStatus(v) # 0 THEN Fail(p, VersionStatus(v))
                          ELSE Goto(p, IF t = "CR" THEN "CR_FIRST_LINE" ELSE "HEADER")
  <2>1. p.step = "VERSION" /\ p.version = v  BY <1>3 DEF Opened
  <2>2. Turn(p, t) = Version(p, t)  BY <1>1, <2>1 DEF Dispatch, AfterCr
  <2>3. t # "SP" /\ t \notin Digits \cup Versions  BY DEF Digits, Versions
  <2> QED  BY <2>1, <2>2, <2>3 DEF Version
<1>4. ASSUME r.version = "1.1" PROVE VersionStatus(v) = 0
  BY <1>2, <1>4 DEF VersionStatus
<1>5. ASSUME r.version # "1.1" PROVE VersionStatus(v) # 0
  BY <1>2, <1>5 DEF VersionStatus
<1>6. \A x : x # 0 => Failed(Fail(p, x))  BY DEF Failed, Fail, ParserType
<1>7. \A s, x : Opened(p, r, x, u, h, v) => Opened(Goto(p, s), r, s, u, h, v)
  BY DEF Opened, Untouched, Goto, ParserType
<1>8. ASSUME Opened(p, r, "CR_FIRST_LINE", u, h, v) PROVE Turn(p, "LF") = Goto(p, "HEADER")
  <2>1. p.step = "CR_FIRST_LINE"  BY <1>8 DEF Opened
  <2> QED  BY <1>1, <2>1 DEF Dispatch, AfterCr, CheckCrlf
<1>9. Opened(p, r, "VERSION", u, h, v) /\ r.version # "1.1" =>
        Failed(Turn(p, "CR")) /\ Failed(Turn(p, "LF"))
  BY <1>3, <1>5, <1>6
<1>10. Opened(p, r, "VERSION", u, h, v) /\ r.version = "1.1" =>
         /\ Opened(Turn(p, "CR"), r, "CR_FIRST_LINE", u, h, v)
         /\ Opened(Turn(p, "LF"), r, "HEADER", u, h, v)
  BY <1>3, <1>4, <1>7
<1> QED  BY <1>7, <1>8, <1>9, <1>10 DEF u, h, v

(* One byte further.                                                       *)
LEMMA Along ==
  ASSUME NEW s \in Seq(Token), NEW k \in Nat, k < Len(s)
  PROVE  /\ Parsed(s)[k] \in ParserType /\ Parsed(s)[k + 1] \in ParserType
         /\ Parsed(s)[k + 1] = Turn(Parsed(s)[k], s[k + 1])
<1>1. k \in 0..Len(s) /\ k + 1 \in 1..Len(s) /\ k + 1 \in 0..Len(s) /\ (k + 1) - 1 = k
  OBVIOUS
<1> QED  BY <1>1, ParsedSteps

(* The parser in the request line of a request that it reads alone.        *)
LEMMA FirstTurns ==
  ASSUME NEW r \in Request
  PROVE  LET T == Parsed(Bytes(r))
             g == r.gap
             n == SpaceEnd(r)
             u == <<r.uri>>
             h == <<"HTTP">>
             v == <<r.version>>
         IN /\ T[0] = Fresh /\ Opened(T[1], r, "METHOD", <<>>, <<>>, <<>>)
            /\ g = 0 => Failed(T[2])
            /\ g # 0 => /\ \A k \in 2..g + 1 : Opened(T[k], r, "URI", <<>>, <<>>, <<>>)
                        /\ Opened(T[g + 2], r, "URI", u, <<>>, <<>>)
            /\ g # 0 /\ r.cut \in {"uri", "tab"} => Failed(T[g + 3])
            /\ g # 0 /\ r.cut \notin {"uri", "tab"} =>
                 /\ \A k \in g + 3..n + 2 : Opened(T[k], r, "PROTOCOL", u, <<>>, <<>>)
                 /\ Opened(T[n + 3], r, "PROTOCOL", u, h, <<>>)
            /\ g # 0 /\ r.cut = "protocol" => Failed(T[n + 4])
            /\ g # 0 /\ r.cut = "no" =>
                 /\ Opened(T[n + 4], r, "VERSION", u, h, <<>>)
                 /\ Opened(T[n + 5], r, "VERSION", u, h, v)
                 /\ r.version # "1.1" => Failed(T[n + 6])
                 /\ r.version = "1.1" =>
                      /\ Opened(T[FirstEnd(r)], r, "HEADER", u, h, v)
                      /\ r.crlf => Opened(T[n + 6], r, "CR_FIRST_LINE", u, h, v)
<1> DEFINE s == Bytes(r)
           T == Parsed(s)
           g == r.gap
           n == SpaceEnd(r)
           u == <<r.uri>>
           h == <<"HTTP">>
           v == <<r.version>>
           e == Eol(r)
<1>1. /\ g \in Nat /\ n \in Nat /\ n >= g + 1 /\ s \in Seq(Token)
      /\ s[1] = r.method
      /\ \A k \in 2..g + 1 : s[k] = "SP"
      /\ s[g + 2] = r.uri /\ g + 3 <= Len(s)
      /\ FirstEnd(r) \in Nat /\ FirstEnd(r) <= Len(s)
      /\ r.cut \in {"uri", "tab"} => s[g + 3] \in {"CR", "LF", "HT"}
      /\ r.cut \notin {"uri", "tab"} =>
           /\ \A k \in g + 3..n + 2 : s[k] = "SP"
           /\ s[n + 3] = "HTTP" /\ n + 4 <= Len(s)
      /\ r.cut = "protocol" => s[n + 4] \in {"CR", "LF"}
      /\ r.cut = "no" => /\ s[n + 4] = "SLASH" /\ s[n + 5] = r.version
                         /\ At(s, n + 5, e) /\ FirstEnd(r) = (n + 5) + Len(e)
  BY FirstTokens
<1>2. /\ r.crlf => e = <<"CR", "LF">> /\ Len(e) = 2
      /\ ~r.crlf => e = <<"LF">> /\ Len(e) = 1
      /\ Len(e) \in 1..2
  BY DEF Eol, Request
<1>3. T[0] = Fresh  BY <1>1, ParsedSteps
<1>4. \A k \in Nat : k < Len(s) => /\ T[k] \in ParserType /\ T[k + 1] \in ParserType
                                   /\ T[k + 1] = Turn(T[k], s[k + 1])
  BY <1>1, Along
<1>a. g \in Nat /\ n \in Nat /\ n >= g + 1 /\ Len(s) \in Nat /\ g + 3 <= Len(s)
  BY <1>1
<1>b. /\ Opened(Turn(Fresh, r.method), r, "METHOD", <<>>, <<>>, <<>>)
      /\ \A p \in ParserType :
           /\ Opened(p, r, "METHOD", <<>>, <<>>, <<>>) =>
                /\ Failed(Turn(p, r.uri))
                /\ Opened(Turn(p, "SP"), r, "URI", <<>>, <<>>, <<>>)
           /\ Opened(p, r, "URI", <<>>, <<>>, <<>>) =>
                /\ Turn(p, "SP") = p
                /\ Opened(Turn(p, r.uri), r, "URI", u, <<>>, <<>>)
           /\ Opened(p, r, "URI", u, <<>>, <<>>) =>
                /\ Opened(Turn(p, "SP"), r, "PROTOCOL", u, <<>>, <<>>)
                /\ \A t \in {"CR", "LF", "HT"} : Failed(Turn(p, t))
           /\ Opened(p, r, "PROTOCOL", u, <<>>, <<>>) =>
                /\ Turn(p, "SP") = p
                /\ Opened(Turn(p, "HTTP"), r, "PROTOCOL", u, h, <<>>)
           /\ Opened(p, r, "PROTOCOL", u, h, <<>>) =>
                /\ Opened(Turn(p, "SLASH"), r, "VERSION", u, h, <<>>)
                /\ \A t \in {"CR", "LF"} : Failed(Turn(p, t))
           /\ Opened(p, r, "VERSION", u, h, <<>>) =>
                Opened(Turn(p, r.version), r, "VERSION", u, h, v)
  BY FreshType, OpeningTurns
<1> HIDE DEF s, T, e, g, n, u, h, v
<1>5. \A k \in 0..g + 2 : /\ T[k] \in ParserType /\ T[k + 1] \in ParserType
                          /\ T[k + 1] = Turn(T[k], s[k + 1])
  <2>1. \A k \in 0..g + 2 : k \in Nat /\ k < Len(s)  BY <1>a
  <2> QED  BY <1>4, <2>1
<1>6. /\ T[0 + 1] = Turn(T[0], s[0 + 1])
      /\ T[1 + 1] = Turn(T[1], s[1 + 1]) /\ T[1] \in ParserType
      /\ T[(g + 2) + 1] = Turn(T[g + 2], s[(g + 2) + 1]) /\ T[g + 2] \in ParserType
      /\ T[(g + 1) + 1] = Turn(T[g + 1], s[(g + 1) + 1]) /\ T[g + 1] \in ParserType
  <2>1. {0, 1, g + 1, g + 2} \subseteq 0..g + 2  BY <1>a
  <2> QED  BY <1>5, <2>1
<1>7. Opened(T[1], r, "METHOD", <<>>, <<>>, <<>>)
  BY <1>1, <1>3, <1>6, <1>b
<1>8. T[1] \in ParserType /\ T[2] = Turn(T[1], s[2])  BY <1>6
<1>9. ASSUME g = 0 PROVE Failed(T[2])
  <2>1. s[2] = r.uri  BY <1>1, <1>9
  <2> QED  BY <1>7, <1>8, <1>b, <2>1
<1>10. ASSUME g # 0
       PROVE  /\ \A k \in 2..g + 1 : Opened(T[k], r, "URI", <<>>, <<>>, <<>>)
              /\ Opened(T[g + 2], r, "URI", u, <<>>, <<>>)
              /\ T[g + 2] \in ParserType /\ T[g + 3] = Turn(T[g + 2], s[g + 3])
  <2> DEFINE S == {k \in 2..g + 1 : Opened(T[k], r, "URI", <<>>, <<>>, <<>>)}
  <2>1. 2 \in S
    <3>1. 2 \in 2..g + 1  BY <1>a, <1>10
    <3>2. Opened(T[2], r, "URI", <<>>, <<>>, <<>>)
      BY <1>1, <1>7, <1>8, <1>b, <3>1
    <3> QED  BY <3>1, <3>2
  <2>2. \A k \in 2..(g + 1) - 1 : k \in S => k + 1 \in S
    <3> SUFFICES ASSUME NEW k \in 2..(g + 1) - 1, k \in S PROVE k + 1 \in S  OBVIOUS
    <3>1. k + 1 \in 2..g + 1 /\ k \in 0..g + 2  BY <1>a
    <3>2. T[k + 1] = T[k]  BY <1>1, <1>5, <1>b, <3>1
    <3> QED  BY <3>1, <3>2
  <2> HIDE DEF S
  <2>3. \A k \in 2..g + 1 : k \in S
    <3>1. g + 1 \in Nat /\ 2 \in Nat  BY <1>a
    <3> QED  BY <2>1, <2>2, <3>1, Counting
  <2>4. \A k \in 2..g + 1 : Opened(T[k], r, "URI", <<>>, <<>>, <<>>)  BY <2>3 DEF S
  <2>5. Opened(T[g + 1], r, "URI", <<>>, <<>>, <<>>)
    <3>1. g + 1 \in 2..g + 1  BY <1>a, <1>10
    <3> QED  BY <2>4, <3>1
  <2>6. (g + 1) + 1 = g + 2 /\ (g + 2) + 1 = g + 3  BY <1>a
  <2>7. Opened(T[g + 2], r, "URI", u, <<>>, <<>>)  BY <1>1, <1>6, <1>b, <2>5, <2>6
  <2> QED  BY <1>6, <2>4, <2>6, <2>7
<1>11. ASSUME g # 0, r.cut \in {"uri", "tab"} PROVE Failed(T[g + 3])
  BY <1>1, <1>b, <1>10, <1>11
<1>12. ASSUME g # 0, r.cut \notin {"uri", "tab"}
       PROVE  /\ \A k \in g + 3..n + 2 : Opened(T[k], r, "PROTOCOL", u, <<>>, <<>>)
              /\ Opened(T[n + 3], r, "PROTOCOL", u, h, <<>>)
              /\ T[n + 3] \in ParserType /\ T[n + 4] = Turn(T[n + 3], s[n + 4])
  <2> DEFINE S == {k \in g + 3..n + 2 : Opened(T[k], r, "PROTOCOL", u, <<>>, <<>>)}
  <2>a. n + 4 <= Len(s) /\ g + 3 \in g + 3..n + 2  BY <1>1, <1>a, <1>12
  <2>1. g + 3 \in S
    <3>1. Opened(T[g + 3], r, "PROTOCOL", u, <<>>, <<>>)
      BY <1>1, <1>10, <1>12, <1>b, <2>a
    <3> QED  BY <2>a, <3>1
  <2>2. \A k \in g + 3..(n + 2) - 1 : k \in S => k + 1 \in S
    <3> SUFFICES ASSUME NEW k \in g + 3..(n + 2) - 1, k \in S PROVE k + 1 \in S  OBVIOUS
    <3>1. k + 1 \in g + 3..n + 2 /\ k \in Nat /\ k < Len(s)  BY <1>a, <2>a
    <3>2. s[k + 1] = "SP"  BY <1>1, <1>12, <3>1
    <3>3. T[k + 1] = Turn(T[k], s[k + 1]) /\ T[k] \in ParserType  BY <1>4, <3>1
    <3>4. T[k + 1] = T[k]  BY <1>b, <3>2, <3>3
    <3> QED  BY <3>1, <3>4
  <2> HIDE DEF S
  <2>3. \A k \in g + 3..n + 2 : k \in S
    <3>1. g + 3 \in Nat /\ n + 2 \in Nat  BY <1>a
    <3> QED  BY <2>1, <2>2, <3>1, Counting
  <2>4. \A k \in g + 3..n + 2 : Opened(T[k], r, "PROTOCOL", u, <<>>, <<>>)  BY <2>3 DEF S
  <2>5. n + 2 \in g + 3..n + 2 /\ (n + 2) + 1 = n + 3 /\ (n + 3) + 1 = n + 4  BY <1>a
  <2>6. \A k \in {n + 2, n + 3} : /\ T[k] \in ParserType /\ T[k + 1] = Turn(T[k], s[k + 1])
    <3>1. \A k \in {n + 2, n + 3} : k \in Nat /\ k < Len(s)  BY <1>a, <2>a
    <3> QED  BY <1>4, <3>1
  <2>7. /\ T[n + 2] \in ParserType /\ T[n + 3] = Turn(T[n + 2], s[n + 3])
        /\ T[n + 3] \in ParserType /\ T[n + 4] = Turn(T[n + 3], s[n + 4])
    BY <2>5, <2>6
  <2>8. Opened(T[n + 3], r, "PROTOCOL", u, h, <<>>)
    BY <1>1, <1>12, <1>b, <2>4, <2>5, <2>7
  <2> QED  BY <2>4, <2>7, <2>8
<1>13. ASSUME g # 0, r.cut = "protocol" PROVE Failed(T[n + 4])
  BY <1>1, <1>b, <1>12, <1>13
<1>14. ASSUME g # 0, r.cut = "no"
       PROVE  /\ Opened(T[n + 4], r, "VERSION", u, h, <<>>)
              /\ Opened(T[n + 5], r, "VERSION", u, h, v)
              /\ r.version # "1.1" => Failed(T[n + 6])
              /\ r.version = "1.1" =>
                   /\ Opened(T[FirstEnd(r)], r, "HEADER", u, h, v)
                   /\ r.crlf => Opened(T[n + 6], r, "CR_FIRST_LINE", u, h, v)
  <2>a. /\ s[n + 4] = "SLASH" /\ s[n + 5] = r.version
        /\ \A i \in 1..Len(e) : s[(n + 5) + i] = e[i]
        /\ FirstEnd(r) = (n + 5) + Len(e) /\ FirstEnd(r) <= Len(s)
    BY <1>1, <1>14 DEF At
  <2>b. /\ r.crlf => FirstEnd(r) = n + 7
        /\ ~r.crlf => FirstEnd(r) = n + 6
        /\ n + 6 <= Len(s)
    <3>1. CASE r.crlf
      <4>1. FirstEnd(r) = (n + 5) + 2  BY <1>2, <2>a, <3>1
      <4> QED  BY <1>a, <2>a, <3>1, <4>1
    <3>2. CASE ~r.crlf
      <4>1. FirstEnd(r) = (n + 5) + 1  BY <1>2, <2>a, <3>2
      <4> QED  BY <1>a, <2>a, <3>2, <4>1
    <3> QED  BY <3>1, <3>2
  <2>c. s[n + 6] = e[1] /\ (Len(e) = 2 => s[n + 7] = e[2])
    <3>1. (n + 5) + 1 = n + 6 /\ (n + 5) + 2 = n + 7  BY <1>a
    <3>2. s[(n + 5) + 1] = e[1] /\ (Len(e) = 2 => s[(n + 5) + 2] = e[2])  BY <1>2, <2>a
    <3> QED  BY <3>1, <3>2
  <2>d. /\ T[n + 4] \in ParserType /\ T[n + 5] = Turn(T[n + 4], s[n + 5])
        /\ T[n + 5] \in ParserType /\ T[n + 6] = Turn(T[n + 5], s[n + 6])
        /\ T[n + 6] \in ParserType
    <3>1. \A k \in {n + 4, n + 5} : /\ T[k] \in ParserType /\ T[k + 1] \in ParserType
                                     /\ T[k + 1] = Turn(T[k], s[k + 1])
      <4>1. \A k \in {n + 4, n + 5} : k \in Nat /\ k < Len(s)  BY <1>a, <2>b
      <4> QED  BY <1>4, <4>1
    <3>2. (n + 4) + 1 = n + 5 /\ (n + 5) + 1 = n + 6  BY <1>a
    <3> QED  BY <3>1, <3>2
  <2>1. Opened(T[n + 4], r, "VERSION", u, h, <<>>)  BY <1>b, <1>12, <1>14, <2>a
  <2>2. Opened(T[n + 5], r, "VERSION", u, h, v)  BY <1>b, <2>1, <2>a, <2>d
  <2>3. e[1] \in {"CR", "LF"}  BY <1>2
  <2>4. \A p \in ParserType :
          /\ Opened(p, r, "VERSION", u, h, v) /\ r.version # "1.1" =>
               Failed(Turn(p, "CR")) /\ Failed(Turn(p, "LF"))
          /\ Opened(p, r, "VERSION", u, h, v) /\ r.version = "1.1" =>
               /\ Opened(Turn(p, "CR"), r, "CR_FIRST_LINE", u, h, v)
               /\ Opened(Turn(p, "LF"), r, "HEADER", u, h, v)
          /\ Opened(p, r, "CR_FIRST_LINE", u, h, v) =>
               Opened(Turn(p, "LF"), r, "HEADER", u, h, v)
    BY VersionTurns DEF u, h, v
  <2>5. ASSUME r.version # "1.1" PROVE Failed(T[n + 6])
    BY <2>2, <2>3, <2>4, <2>5, <2>c, <2>d
  <2>6. ASSUME r.version = "1.1", r.crlf
        PROVE  /\ Opened(T[FirstEnd(r)], r, "HEADER", u, h, v)
               /\ Opened(T[n + 6], r, "CR_FIRST_LINE", u, h, v)
    <3>1. s[n + 6] = "CR" /\ s[n + 7] = "LF"  BY <1>2, <2>6, <2>c
    <3>2. Opened(T[n + 6], r, "CR_FIRST_LINE", u, h, v)  BY <2>2, <2>4, <2>6, <2>d, <3>1
    <3>3. n + 6 \in Nat /\ n + 6 < Len(s) /\ (n + 6) + 1 = n + 7 /\ FirstEnd(r) = n + 7
      BY <1>a, <2>a, <2>b, <2>6
    <3>4. T[n + 7] = Turn(T[n + 6], s[n + 7])  BY <1>4, <3>3
    <3> QED  BY <2>4, <2>d, <3>1, <3>2, <3>3, <3>4
  <2>7. ASSUME r.version = "1.1", ~r.crlf
        PROVE  Opened(T[FirstEnd(r)], r, "HEADER", u, h, v)
    <3>1. s[n + 6] = "LF" /\ FirstEnd(r) = n + 6  BY <1>2, <2>7, <2>b, <2>c
    <3> QED  BY <2>2, <2>4, <2>7, <2>d, <3>1
  <2> QED  BY <2>1, <2>2, <2>5, <2>6, <2>7
<1> QED  BY <1>3, <1>7, <1>9, <1>10, <1>11, <1>12, <1>13, <1>14 DEF s, T, g, n, u, h, v

(***************************************************************************)
(* The header lines                                                        *)
(***************************************************************************)

(* The parser among the header lines of r, with the headers parsed so far. *)
InLine(p, r, step, headers, name, value) ==
  /\ p.step = step /\ p.method = <<r.method>> /\ p.uri = <<r.uri>>
  /\ p.headers = headers /\ p.name = name /\ p.value = value
  /\ ~p.checked /\ p.body = <<>> /\ p.chunkDigits = <<>> /\ p.status = 0

(* Each token of a header line, where it is expected.                      *)
LEMMA HeaderTurns ==
  ASSUME NEW r \in Request, NEW p \in ParserType,
         NEW n \in Words, NEW v \in Words \cup Digits, NEW H
  PROVE  /\ InLine(p, r, "HEADER", H, <<>>, <<>>) =>
              InLine(Turn(p, n), r, "HEADER_NAME", H, <<n>>, <<>>)
         /\ InLine(p, r, "HEADER_NAME", H, <<n>>, <<>>) =>
              InLine(Turn(p, "COLON"), r, "HEADER_VALUE_INIT", H, <<n>>, <<>>)
         /\ InLine(p, r, "HEADER_VALUE_INIT", H, <<n>>, <<>>) =>
              /\ InLine(Turn(p, "SP"), r, "HEADER_VALUE_INIT", H, <<n>>, <<>>)
              /\ InLine(Turn(p, v), r, "HEADER_VALUE", H, <<n>>, <<v>>)
         /\ InLine(p, r, "HEADER_VALUE", H, <<n>>, <<v>>) =>
              LET longer == Append(H, << <<n>>, <<v>> >>)
              IN /\ InLine(Turn(p, "CR"), r, "CR_HEADER", longer, <<>>, <<>>)
                 /\ InLine(Turn(p, "LF"), r, "HEADER", longer, <<>>, <<>>)
         /\ InLine(p, r, "CR_HEADER", H, <<>>, <<>>) =>
              InLine(Turn(p, "LF"), r, "HEADER", H, <<>>, <<>>)
<1>1. /\ n \notin Blank \cup {"CR", "LF", "COLON"} /\ v \notin Blank \cup {"CR", "LF"}
  BY DEF Words, Digits, Blank
<1>2. \A t : p.step # "END" => Turn(p, t) = Dispatch(p, t, p.uri = <<>>, p.protocol = <<>>)
  BY DEF Turn
<1>3. \A t : p.step \in HeaderSteps => Turn(p, t) = Header(p, t)
  BY <1>2 DEF Dispatch, AfterCr, HeaderSteps, ValueSteps
<1>4. ASSUME InLine(p, r, "HEADER", H, <<>>, <<>>)
      PROVE  InLine(Turn(p, n), r, "HEADER_NAME", H, <<n>>, <<>>)
  <2> DEFINE q == Goto(p, "HEADER_NAME")
  <2>1. p.step = "HEADER" /\ p.name = <<>>  BY <1>4 DEF InLine
  <2>2. Turn(p, n) = FieldName(q, n)
    BY <1>1, <1>3, <2>1 DEF Header, HeaderSteps
  <2>3. q \in ParserType /\ q.name = <<>> /\ InLine(q, r, "HEADER_NAME", H, <<>>, <<>>)
    <3>1. q \in ParserType  BY GotoType DEF Steps
    <3>2. InLine(q, r, "HEADER_NAME", H, <<>>, <<>>)
      BY <1>4 DEF InLine, Goto, ParserType
    <3> HIDE DEF q
    <3> QED  BY <3>1, <3>2 DEF InLine
  <2> HIDE DEF q
  <2>4. FieldName(q, n) = [q EXCEPT !.name = Append(@, n)]
    BY <1>1 DEF FieldName, Blank
  <2>5. Append(q.name, n) = <<n>>  BY <2>3
  <2>6. [q EXCEPT !.name = Append(@, n)] = [q EXCEPT !.name = <<n>>]  BY <2>5
  <2>7. InLine([q EXCEPT !.name = <<n>>], r, "HEADER_NAME", H, <<n>>, <<>>)
    BY <2>3 DEF InLine, ParserType
  <2> QED  BY <2>2, <2>4, <2>6, <2>7
<1>5. ASSUME InLine(p, r, "HEADER_NAME", H, <<n>>, <<>>)
      PROVE  InLine(Turn(p, "COLON"), r, "HEADER_VALUE_INIT", H, <<n>>, <<>>)
  <2>1. p.step = "HEADER_NAME"  BY <1>5 DEF InLine
  <2>2. Turn(p, "COLON") = Goto(p, "HEADER_VALUE_INIT")
    BY <1>3, <2>1 DEF Header, FieldName, HeaderSteps
  <2>3. InLine(Goto(p, "HEADER_VALUE_INIT"), r, "HEADER_VALUE_INIT", H, <<n>>, <<>>)
    BY <1>5 DEF InLine, Goto, ParserType
  <2> QED  BY <2>2, <2>3
<1>6. ASSUME InLine(p, r, "HEADER_VALUE_INIT", H, <<n>>, <<>>)
      PROVE  /\ InLine(Turn(p, "SP"), r, "HEADER_VALUE_INIT", H, <<n>>, <<>>)
             /\ InLine(Turn(p, v), r, "HEADER_VALUE", H, <<n>>, <<v>>)
  <2> DEFINE q == Goto(p, "HEADER_VALUE")
  <2>1. p.step = "HEADER_VALUE_INIT" /\ p.value = <<>>  BY <1>6 DEF InLine
  <2>2. Turn(p, "SP") = p  BY <1>3, <2>1 DEF Header, HeaderSteps, ValueSteps, Blank
  <2>3. Turn(p, v) = FieldValue(q, v)
    BY <1>1, <1>3, <2>1 DEF Header, HeaderSteps, ValueSteps
  <2>4. q \in ParserType /\ q.value = <<>> /\ InLine(q, r, "HEADER_VALUE", H, <<n>>, <<>>)
    <3>1. q \in ParserType  BY GotoType DEF Steps
    <3>2. InLine(q, r, "HEADER_VALUE", H, <<n>>, <<>>)
      BY <1>6 DEF InLine, Goto, ParserType
    <3> HIDE DEF q
    <3> QED  BY <3>1, <3>2 DEF InLine
  <2> HIDE DEF q
  <2>5. FieldValue(q, v) = [q EXCEPT !.value = Append(@, v)]
    BY <1>1 DEF FieldValue
  <2>6. Append(q.value, v) = <<v>>  BY <2>4
  <2>7. [q EXCEPT !.value = Append(@, v)] = [q EXCEPT !.value = <<v>>]  BY <2>6
  <2>8. InLine([q EXCEPT !.value = <<v>>], r, "HEADER_VALUE", H, <<n>>, <<v>>)
    BY <2>4 DEF InLine, ParserType
  <2> QED  BY <1>6, <2>2, <2>3, <2>5, <2>7, <2>8
<1>7. ASSUME InLine(p, r, "HEADER_VALUE", H, <<n>>, <<v>>)
      PROVE  LET longer == Append(H, << <<n>>, <<v>> >>)
             IN /\ InLine(Turn(p, "CR"), r, "CR_HEADER", longer, <<>>, <<>>)
                /\ InLine(Turn(p, "LF"), r, "HEADER", longer, <<>>, <<>>)
  <2> DEFINE q == Goto(p, "HEADER_VALUE")
             a == AddHeader(q)
             longer == Append(H, << <<n>>, <<v>> >>)
  <2>1. p.step = "HEADER_VALUE"  BY <1>7 DEF InLine
  <2>2. \A t : Turn(p, t) = FieldValue(q, t)
    BY <1>3, <2>1 DEF Header, HeaderSteps, ValueSteps
  <2>3. q \in ParserType /\ InLine(q, r, "HEADER_VALUE", H, <<n>>, <<v>>)
    <3>1. q \in ParserType  BY GotoType DEF Steps
    <3>2. InLine(q, r, "HEADER_VALUE", H, <<n>>, <<v>>)
      BY <1>7 DEF InLine, Goto, ParserType
    <3> HIDE DEF q
    <3> QED  BY <3>1, <3>2 DEF InLine
  <2> HIDE DEF q
  <2>4. FieldValue(q, "CR") = Goto(a, "CR_HEADER") /\ FieldValue(q, "LF") = Goto(a, "HEADER")
    BY DEF FieldValue
  <2>5. a \in ParserType  BY <2>3, AddHeaderType
  <2>6. InLine(a, r, "HEADER_VALUE", longer, <<>>, <<>>)
    <3>1. a.headers = Append(q.headers, <<q.name, q.value>>)  BY <2>3 DEF AddHeader, ParserType
    <3>2. q.headers = H /\ q.name = <<n>> /\ q.value = <<v>>  BY <2>3 DEF InLine
    <3>3. a.headers = longer  BY <3>1, <3>2
    <3>4. a.name = <<>> /\ a.value = <<>>  BY <2>3 DEF AddHeader, ParserType
    <3>5. /\ a.step = q.step /\ a.method = q.method /\ a.uri = q.uri /\ a.checked = q.checked
          /\ a.body = q.body /\ a.chunkDigits = q.chunkDigits /\ a.status = q.status
      BY <2>3 DEF AddHeader, ParserType
    <3> HIDE DEF a, longer
    <3> QED  BY <2>3, <3>3, <3>4, <3>5 DEF InLine
  <2> HIDE DEF a, longer
  <2>7. /\ InLine(Goto(a, "CR_HEADER"), r, "CR_HEADER", longer, <<>>, <<>>)
        /\ InLine(Goto(a, "HEADER"), r, "HEADER", longer, <<>>, <<>>)
    BY <2>5, <2>6 DEF InLine, Goto, ParserType
  <2> QED  BY <2>2, <2>4, <2>7 DEF longer
<1>8. ASSUME InLine(p, r, "CR_HEADER", H, <<>>, <<>>)
      PROVE  InLine(Turn(p, "LF"), r, "HEADER", H, <<>>, <<>>)
  <2>1. p.step = "CR_HEADER"  BY <1>8 DEF InLine
  <2>2. Turn(p, "LF") = Goto(p, "HEADER")
    BY <1>2, <2>1 DEF Dispatch, AfterCr, CheckCrlf
  <2>3. InLine(Goto(p, "HEADER"), r, "HEADER", H, <<>>, <<>>)
    BY <1>8 DEF InLine, Goto, ParserType
  <2> QED  BY <2>2, <2>3
<1> QED  BY <1>4, <1>5, <1>6, <1>7, <1>8

(* The headers with one more, if its value is given.                       *)
Extended(H, name, value) == IF value = "none" THEN H ELSE Append(H, << <<name>>, <<value>> >>)

(* A header line, or none, among the bytes.                                *)
LEMMA LineTurns ==
  ASSUME NEW r \in Request, NEW s \in Seq(Token), NEW k, NEW H,
         NEW n \in Words, NEW v \in Words \cup Digits \cup {"none"},
         At(s, k, Optional(r, n, v)), InLine(Parsed(s)[k], r, "HEADER", H, <<>>, <<>>)
  PROVE  /\ k + Len(Optional(r, n, v)) \in 0..Len(s)
         /\ InLine(Parsed(s)[k + Len(Optional(r, n, v))], r, "HEADER", Extended(H, n, v), <<>>, <<>>)
<1> DEFINE T == Parsed(s)
           e == Eol(r)
           line == <<n, "COLON", "SP", v>> \o e
           longer == Append(H, << <<n>>, <<v>> >>)
<1>1. k \in Nat /\ k <= Len(s) /\ Len(s) \in Nat
  <2>1. k \in Nat /\ Optional(r, n, v) \in Seq(Token) /\ k + Len(Optional(r, n, v)) <= Len(s)
    BY DEF At
  <2> QED  BY <2>1
<1>2. CASE v = "none"
  <2>1. Optional(r, n, v) = <<>> /\ Extended(H, n, v) = H  BY <1>2 DEF Optional, Extended
  <2>2. k + Len(Optional(r, n, v)) = k  BY <1>1, <2>1
  <2> QED  BY <1>1, <2>1, <2>2
<1>3. CASE v # "none"
  <2>1. Optional(r, n, v) = line /\ Extended(H, n, v) = longer
    BY <1>3 DEF Optional, Line, Extended
  <2>2. v \in Words \cup Digits  BY <1>3
  <2>3. /\ r.crlf => e = <<"CR", "LF">> /\ Len(e) = 2
        /\ ~r.crlf => e = <<"LF">> /\ Len(e) = 1
    BY DEF Eol
  <2>4. /\ r.crlf => Len(line) = 6 /\ line[5] = "CR" /\ line[6] = "LF"
        /\ ~r.crlf => Len(line) = 5 /\ line[5] = "LF"
        /\ line[1] = n /\ line[2] = "COLON" /\ line[3] = "SP" /\ line[4] = v
    <3> DEFINE a == <<n, "COLON", "SP", v>>
    <3>1. a \in Seq(Token) /\ Len(a) = 4
      <4>1. {n, "COLON", "SP", v} \subseteq Token  BY <2>2 DEF Token, Separators
      <4> QED  BY <4>1
    <3>2. e \in Seq(Token)  BY BytesType
    <3>3. a[1] = n /\ a[2] = "COLON" /\ a[3] = "SP" /\ a[4] = v  OBVIOUS
    <3> HIDE DEF a
    <3>4. /\ Len(a \o e) = Len(a) + Len(e)
          /\ \A i \in 1..Len(a) : (a \o e)[i] = a[i]
          /\ \A i \in 1..Len(e) : (a \o e)[Len(a) + i] = e[i]
      BY <3>1, <3>2, Joined
    <3>a. Len(e) \in Nat  BY <3>2
    <3>5. \A i \in 1..4 : (a \o e)[i] = a[i]  BY <3>1, <3>4
    <3>6. r.crlf => e[1] = "CR" /\ e[2] = "LF"  BY <2>3
    <3>7. ~r.crlf => e[1] = "LF"  BY <2>3
    <3> HIDE DEF e
    <3>8. CASE r.crlf
      <4>a. Len(e) = 2  BY <2>3, <3>8
      <4>1. Len(a \o e) = 6  BY <3>1, <3>4, <4>a
      <4>2. \A i \in 1..2 : (a \o e)[4 + i] = e[i]  BY <3>1, <3>4, <4>a
      <4>3. (a \o e)[4 + 1] = e[1] /\ (a \o e)[4 + 2] = e[2]
        <5>1. 1 \in 1..2 /\ 2 \in 1..2  OBVIOUS
        <5> QED  BY <4>2, <5>1
      <4>4. 4 + 1 = 5 /\ 4 + 2 = 6  OBVIOUS
      <4> QED  BY <3>3, <3>5, <3>6, <3>8, <4>1, <4>3, <4>4 DEF a
    <3>9. CASE ~r.crlf
      <4>a. Len(e) = 1  BY <2>3, <3>9
      <4>1. Len(a \o e) = 5  BY <3>1, <3>4, <4>a
      <4>2. \A i \in 1..1 : (a \o e)[4 + i] = e[i]  BY <3>1, <3>4, <4>a
      <4>3. (a \o e)[4 + 1] = e[1]
        <5>1. 1 \in 1..1  OBVIOUS
        <5> QED  BY <4>2, <5>1
      <4>4. 4 + 1 = 5  OBVIOUS
      <4> QED  BY <3>3, <3>5, <3>7, <3>9, <4>1, <4>3, <4>4 DEF a
    <3> QED  BY <3>8, <3>9
  <2>5. At(s, k, line)  BY <2>1
  <2>6. k + Len(line) <= Len(s) /\ \A i \in 1..Len(line) : s[k + i] = line[i]
    BY <2>5 DEF At
  <2>7. \A i \in Nat : i < Len(s) => /\ T[i] \in ParserType
                                     /\ T[i + 1] = Turn(T[i], s[i + 1])
    BY Along
  <2> HIDE DEF T, line, longer, e
  <2>8. k + 5 <= Len(s) /\ (r.crlf => k + 6 <= Len(s)) /\ Len(line) \in 5..6
    BY <1>1, <2>4, <2>6
  <2>9. /\ s[k + 1] = n /\ s[k + 2] = "COLON" /\ s[k + 3] = "SP" /\ s[k + 4] = v
        /\ s[k + 5] = line[5] /\ (r.crlf => s[k + 6] = "LF")
    <3>1. {1, 2, 3, 4, 5} \subseteq 1..Len(line) /\ (r.crlf => 6 \in 1..Len(line))
      BY <2>4, <2>8
    <3> QED  BY <2>4, <2>6, <3>1
  <2>10. /\ T[k] \in ParserType /\ T[k + 1] \in ParserType /\ T[k + 2] \in ParserType
         /\ T[k + 3] \in ParserType /\ T[k + 4] \in ParserType
         /\ T[k + 1] = Turn(T[k], s[k + 1]) /\ T[k + 2] = Turn(T[k + 1], s[k + 2])
         /\ T[k + 3] = Turn(T[k + 2], s[k + 3]) /\ T[k + 4] = Turn(T[k + 3], s[k + 4])
         /\ T[k + 5] = Turn(T[k + 4], s[k + 5])
    <3>1. /\ (k + 1) + 1 = k + 2 /\ (k + 2) + 1 = k + 3 /\ (k + 3) + 1 = k + 4
          /\ (k + 4) + 1 = k + 5
          /\ \A i \in {k, k + 1, k + 2, k + 3, k + 4} : i \in Nat /\ i < Len(s)
      BY <1>1, <2>8
    <3>2. \A i \in {k, k + 1, k + 2, k + 3, k + 4} :
            T[i] \in ParserType /\ T[i + 1] = Turn(T[i], s[i + 1])
      BY <2>7, <3>1
    <3> QED  BY <3>1, <3>2
  <2>11. InLine(T[k], r, "HEADER", H, <<>>, <<>>)  BY DEF T
  <2>a. \A p \in ParserType :
          /\ InLine(p, r, "HEADER", H, <<>>, <<>>) =>
               InLine(Turn(p, n), r, "HEADER_NAME", H, <<n>>, <<>>)
          /\ InLine(p, r, "HEADER_NAME", H, <<n>>, <<>>) =>
               InLine(Turn(p, "COLON"), r, "HEADER_VALUE_INIT", H, <<n>>, <<>>)
          /\ InLine(p, r, "HEADER_VALUE_INIT", H, <<n>>, <<>>) =>
               /\ InLine(Turn(p, "SP"), r, "HEADER_VALUE_INIT", H, <<n>>, <<>>)
               /\ InLine(Turn(p, v), r, "HEADER_VALUE", H, <<n>>, <<v>>)
    BY <2>2, HeaderTurns
  <2>12. InLine(T[k + 1], r, "HEADER_NAME", H, <<n>>, <<>>)
    BY <2>9, <2>10, <2>11, <2>a
  <2>13. InLine(T[k + 2], r, "HEADER_VALUE_INIT", H, <<n>>, <<>>)
    BY <2>9, <2>10, <2>12, <2>a
  <2>14. InLine(T[k + 3], r, "HEADER_VALUE_INIT", H, <<n>>, <<>>)
    BY <2>9, <2>10, <2>13, <2>a
  <2>15. InLine(T[k + 4], r, "HEADER_VALUE", H, <<n>>, <<v>>)
    BY <2>9, <2>10, <2>14, <2>a
  <2>16. /\ s[k + 5] = "CR" => InLine(T[k + 5], r, "CR_HEADER", longer, <<>>, <<>>)
         /\ s[k + 5] = "LF" => InLine(T[k + 5], r, "HEADER", longer, <<>>, <<>>)
    BY <2>2, <2>10, <2>15, HeaderTurns DEF longer
  <2>17. CASE r.crlf
    <3>a. Len(line) = 6 /\ k + 6 <= Len(s)  BY <2>4, <2>8, <2>17
    <3>1. /\ k + 5 \in Nat /\ k + 5 < Len(s) /\ (k + 5) + 1 = k + 6
          /\ k + Len(line) = k + 6 /\ k + 6 \in 0..Len(s)
      BY <1>1, <3>a
    <3>2. T[k + 6] = Turn(T[k + 5], s[k + 6]) /\ T[k + 5] \in ParserType  BY <2>7, <3>1
    <3>3. InLine(T[k + 6], r, "HEADER", longer, <<>>, <<>>)
      BY <2>2, <2>4, <2>9, <2>16, <2>17, <3>2, HeaderTurns
    <3> QED  BY <2>1, <3>1, <3>3 DEF T
  <2>18. CASE ~r.crlf
    <3>a. Len(line) = 5  BY <2>4, <2>18
    <3>1. k + Len(line) = k + 5 /\ k + 5 \in 0..Len(s)  BY <1>1, <2>8, <3>a
    <3>2. InLine(T[k + 5], r, "HEADER", longer, <<>>, <<>>)
      BY <2>4, <2>9, <2>16, <2>18
    <3> QED  BY <2>1, <3>1, <3>2 DEF T
  <2> QED  BY <2>17, <2>18
<1> QED  BY <1>2, <1>3

(* The headers of r.                                                       *)
HostHeaders(r) ==
  CASE r.hosts = 0 -> <<>>
    [] r.hosts = 1 -> Extended(<<>>, "host", "v")
    [] OTHER -> Extended(Extended(<<>>, "host", "v"), "host", "v")
Typed(r) == Extended(HostHeaders(r), "content-type", r.type)
Encoded(r) == Extended(Typed(r), "transfer-encoding", r.encoding)
HeadersOf(r) == Extended(Encoded(r), "content-length", r.length)

(* After the header lines of a request with a good request line the parser *)
(* has its headers.                                                        *)
LEMMA HeadTurns ==
  ASSUME NEW r \in Request, r.gap # 0, r.cut = "no", r.version = "1.1"
  PROVE  InLine(Parsed(Bytes(r))[OtherEnd(r)], r, "HEADER", HeadersOf(r), <<>>, <<>>)
<1> DEFINE s == Bytes(r)
           T == Parsed(s)
           L(n, v) == Optional(r, n, v)
           l == Line(r, "host", "v")
           ty == L("content-type", r.type)
           en == L("transfer-encoding", r.encoding)
           ln == L("content-length", r.length)
<1>1. /\ s \in Seq(Token) /\ At(s, FirstEnd(r), HostLines(r)) /\ At(s, HostEnd(r), OtherLines(r))
      /\ FirstEnd(r) \in Nat
  BY PartsAt, FirstTokens
<1>2. /\ {"host", "content-type", "transfer-encoding", "content-length", "v"} \subseteq Words
      /\ {r.type, r.encoding, r.length} \subseteq Words \cup Digits \cup {"none"}
  BY DEF Words, Request
<1>3. \A n \in Words : n \in Token
  BY DEF Token
<1>4. /\ l \in Seq(Token) /\ l = L("host", "v") /\ ty \in Seq(Token) /\ en \in Seq(Token)
      /\ ln \in Seq(Token)
  <2>1. \A v \in Words \cup Digits \cup {"none"} : v \in Token \cup {"none"}  BY DEF Token
  <2>2. \A n \in Words, v \in Words \cup Digits \cup {"none"} : L(n, v) \in Seq(Token)
    BY <1>3, <2>1, LineTypes
  <2>3. l = L("host", "v")  BY DEF Optional
  <2> HIDE DEF L, l
  <2> QED  BY <1>2, <2>2, <2>3
<1>5. InLine(T[FirstEnd(r)], r, "HEADER", <<>>, <<>>, <<>>)
  <2>1. Opened(T[FirstEnd(r)], r, "HEADER", <<r.uri>>, <<"HTTP">>, <<r.version>>)
    BY FirstTurns
  <2> QED  BY <2>1 DEF Opened, Untouched, InLine
<1>6. \A k, H : At(s, k, l) /\ InLine(T[k], r, "HEADER", H, <<>>, <<>>) =>
        InLine(T[k + Len(l)], r, "HEADER", Extended(H, "host", "v"), <<>>, <<>>)
  <2> HIDE DEF l, s
  <2> QED  BY <1>1, <1>2, <1>4, LineTurns
<1>7. InLine(T[HostEnd(r)], r, "HEADER", HostHeaders(r), <<>>, <<>>)
  <2> HIDE DEF T, l, s
  <2>1. CASE r.hosts = 0
    <3>1. HostLines(r) = <<>> /\ HostHeaders(r) = <<>>  BY <2>1 DEF HostLines, HostHeaders
    <3>2. HostEnd(r) = FirstEnd(r)  BY <1>1, <3>1 DEF HostEnd
    <3> QED  BY <1>5, <3>1, <3>2
  <2>2. CASE r.hosts = 1
    <3>1. HostLines(r) = l /\ HostHeaders(r) = Extended(<<>>, "host", "v")
      BY <2>2 DEF HostLines, HostHeaders, l
    <3>2. HostEnd(r) = FirstEnd(r) + Len(l)  BY <3>1 DEF HostEnd
    <3> QED  BY <1>1, <1>5, <1>6, <3>1, <3>2
  <2>3. CASE r.hosts = 2
    <3>1. /\ HostLines(r) = l \o l
          /\ HostHeaders(r) = Extended(Extended(<<>>, "host", "v"), "host", "v")
      BY <2>3 DEF HostLines, HostHeaders, l
    <3>2. /\ At(s, FirstEnd(r), l) /\ At(s, FirstEnd(r) + Len(l), l)
          /\ FirstEnd(r) + Len(l \o l) = (FirstEnd(r) + Len(l)) + Len(l)
      BY <1>1, <1>4, <3>1, AtSplit
    <3>3. HostEnd(r) = (FirstEnd(r) + Len(l)) + Len(l)  BY <3>1, <3>2 DEF HostEnd
    <3>4. InLine(T[FirstEnd(r) + Len(l)], r, "HEADER", Extended(<<>>, "host", "v"), <<>>, <<>>)
      BY <1>5, <1>6, <3>2
    <3> QED  BY <1>6, <3>1, <3>2, <3>3, <3>4
  <2>4. r.hosts \in {0, 1, 2}  BY DEF Request
  <2> QED  BY <2>1, <2>2, <2>3, <2>4
<1>8. /\ At(s, HostEnd(r), ty) /\ At(s, HostEnd(r) + Len(ty), en)
      /\ At(s, (HostEnd(r) + Len(ty)) + Len(en), ln)
      /\ OtherEnd(r) = ((HostEnd(r) + Len(ty)) + Len(en)) + Len(ln)
  <2>1. OtherLines(r) = (ty \o en) \o ln  BY DEF OtherLines
  <2> HIDE DEF ty, en, ln, s
  <2> DEFINE x == ty \o en
  <2>2. x \in Seq(Token)  BY <1>4
  <2>3. At(s, HostEnd(r), x \o ln)  BY <1>1, <2>1
  <2> HIDE DEF x
  <2>4. /\ At(s, HostEnd(r), x) /\ At(s, HostEnd(r) + Len(x), ln)
        /\ HostEnd(r) + Len(x \o ln) = (HostEnd(r) + Len(x)) + Len(ln)
    BY <1>1, <1>4, <2>2, <2>3, AtSplit
  <2>5. At(s, HostEnd(r), ty \o en)  BY <2>4 DEF x
  <2>6. /\ At(s, HostEnd(r), ty) /\ At(s, HostEnd(r) + Len(ty), en)
        /\ HostEnd(r) + Len(ty \o en) = (HostEnd(r) + Len(ty)) + Len(en)
    BY <1>1, <1>4, <2>5, AtSplit
  <2>7. OtherEnd(r) = HostEnd(r) + Len(x \o ln)  BY <2>1 DEF OtherEnd, x
  <2> QED  BY <2>4, <2>6, <2>7 DEF x
<1> HIDE DEF s
<1>9. \A k, H, n, v : n \in Words /\ v \in Words \cup Digits \cup {"none"} /\ At(s, k, L(n, v))
        /\ InLine(T[k], r, "HEADER", H, <<>>, <<>>) =>
        InLine(T[k + Len(L(n, v))], r, "HEADER", Extended(H, n, v), <<>>, <<>>)
  BY <1>1, LineTurns
<1> HIDE DEF T, L
<1>10. InLine(T[HostEnd(r) + Len(ty)], r, "HEADER", Typed(r), <<>>, <<>>)
  BY <1>2, <1>7, <1>8, <1>9 DEF Typed
<1>11. InLine(T[(HostEnd(r) + Len(ty)) + Len(en)], r, "HEADER", Encoded(r), <<>>, <<>>)
  BY <1>2, <1>8, <1>9, <1>10 DEF Encoded
<1>12. InLine(T[((HostEnd(r) + Len(ty)) + Len(en)) + Len(ln)], r, "HEADER", HeadersOf(r), <<>>, <<>>)
  BY <1>2, <1>8, <1>9, <1>11 DEF HeadersOf
<1> QED  BY <1>8, <1>12 DEF T, s

(***************************************************************************)
(* What check_request() finds                                              *)
(***************************************************************************)

(* The header lines with a name.                                           *)
GivenIn(H, name) == {k \in DOMAIN H : H[k][1] = <<name>>}

(* The header is there exactly once, with this value, or not at all.       *)
Single(H, name, value) ==
  IF value = "none" THEN GivenIn(H, name) = {}
  ELSE \E k \in DOMAIN H : GivenIn(H, name) = {k} /\ H[k][2] = <<value>>

(***************************************************************************)
(* A buffer that just took a byte is not empty.                            *)
(***************************************************************************)
LEMMA AppendNotEmpty ==
  ASSUME NEW u \in Seq(Token), NEW t \in Token
  PROVE  Append(u, t) # <<>>
<1> SUFFICES ASSUME Append(u, t) = <<>> PROVE FALSE  OBVIOUS
<1>1. Len(Append(u, t)) = Len(u) + 1 /\ Len(u) \in Nat  OBVIOUS
<1>2. Len(<<>>) = 0  OBVIOUS
<1>3. Len(u) + 1 = 0  BY <1>1, <1>2
<1> QED  BY <1>1, <1>3

(* One header more, of another name or of this one.                        *)
LEMMA OneMore ==
  ASSUME NEW S, NEW H \in Seq(S), NEW n, NEW v, NEW m, NEW w
  PROVE  /\ Extended(H, n, v) \in Seq(S \cup {<< <<n>>, <<v>> >>})
         /\ n # m /\ Single(H, m, w) => Single(Extended(H, n, v), m, w)
         /\ Single(H, n, "none") => Single(Extended(H, n, v), n, v)
<1> DEFINE x == << <<n>>, <<v>> >>
           G == Extended(H, n, v)
<1>1. CASE v = "none"
  <2>1. G = H  BY <1>1 DEF Extended
  <2> QED  BY <1>1, <2>1
<1>2. CASE v # "none"
  <2>1. G = Append(H, x)  BY <1>2 DEF Extended
  <2>2. /\ G \in Seq(S \cup {x}) /\ Len(G) = Len(H) + 1 /\ Len(H) \in Nat
        /\ \A k \in 1..Len(H) : G[k] = H[k]
        /\ G[Len(H) + 1] = x
        /\ DOMAIN G = 1..Len(H) + 1 /\ DOMAIN H = 1..Len(H)
    <3> HIDE DEF x
    <3> QED  BY <2>1
  <2>3. x[1] = <<n>> /\ x[2] = <<v>>  OBVIOUS
  <2> HIDE DEF G, x
  <2>4. Len(H) + 1 \in 1..Len(H) + 1 /\ Len(H) + 1 \notin 1..Len(H)
        /\ \A k \in 1..Len(H) + 1 : k \in 1..Len(H) \/ k = Len(H) + 1
    BY <2>2
  <2>5. ASSUME n # m PROVE GivenIn(G, m) = GivenIn(H, m)
    <3>1. <<n>> # <<m>>  BY <2>5
    <3>2. \A k \in 1..Len(H) + 1 : G[k][1] = <<m>> <=> k \in 1..Len(H) /\ H[k][1] = <<m>>
      BY <2>2, <2>3, <2>4, <3>1
    <3> QED  BY <2>2, <2>4, <3>2 DEF GivenIn
  <2>6. n # m /\ Single(H, m, w) => Single(G, m, w)
    BY <2>2, <2>4, <2>5 DEF Single
  <2>7. ASSUME Single(H, n, "none") PROVE Single(G, n, v)
    <3>1. \A k \in 1..Len(H) : H[k][1] # <<n>>  BY <2>2, <2>7 DEF Single, GivenIn
    <3>2. \A k \in 1..Len(H) + 1 : G[k][1] = <<n>> <=> k = Len(H) + 1
      BY <2>2, <2>3, <2>4, <3>1
    <3>3. GivenIn(G, n) = {Len(H) + 1}  BY <2>2, <2>4, <3>2 DEF GivenIn
    <3> QED  BY <1>2, <2>2, <2>3, <2>4, <3>3 DEF Single
  <2> QED  BY <2>2, <2>6, <2>7 DEF G, x
<1> QED  BY <1>1, <1>2

(* Each header of r is found as r means it.                                *)
LEMMA HeadersGiven ==
  ASSUME NEW r \in Request
  PROVE  LET H == HeadersOf(r)
         IN /\ Single(H, "content-type", r.type)
            /\ Single(H, "transfer-encoding", r.encoding)
            /\ Single(H, "content-length", r.length)
            /\ r.hosts = 1 => Single(H, "host", "v")
<1> DEFINE S0 == {}
           S1 == S0 \cup {<< <<"host">>, <<"v">> >>}
           S2 == S1 \cup {<< <<"content-type">>, <<r.type>> >>}
           S3 == S2 \cup {<< <<"transfer-encoding">>, <<r.encoding>> >>}
           None == <<>>
           One == Extended(None, "host", "v")
           Two == Extended(One, "host", "v")
           Host == HostHeaders(r)
<1>1. None \in Seq(S0) /\ \A m : Single(None, m, "none")
  BY DEF Single, GivenIn
<1> HIDE DEF None
<1>2. /\ One \in Seq(S1) /\ Single(One, "host", "v")
      /\ \A m : m # "host" => Single(One, m, "none")
  <2> HIDE DEF S0
  <2> QED  BY <1>1, OneMore
<1> HIDE DEF One
<1>3. Two \in Seq(S1) /\ \A m : m # "host" => Single(Two, m, "none")
  <2>1. S1 \cup {<< <<"host">>, <<"v">> >>} = S1  OBVIOUS
  <2> HIDE DEF S1
  <2>2. /\ Two \in Seq(S1 \cup {<< <<"host">>, <<"v">> >>})
        /\ \A m : m # "host" => Single(Two, m, "none")
    BY <1>2, OneMore
  <2> QED  BY <2>1, <2>2
<1> HIDE DEF Two
<1>4. /\ Host \in Seq(S1)
      /\ r.hosts = 1 => Single(Host, "host", "v")
      /\ \A m : m # "host" => Single(Host, m, "none")
  <2>1. r.hosts \in {0, 1, 2}  BY DEF Request
  <2>2. CASE r.hosts = 0
    <3>1. Host = None  BY <2>2 DEF HostHeaders, None
    <3>2. None \in Seq(S1)  BY DEF None
    <3> QED  BY <1>1, <2>2, <3>1, <3>2
  <2>3. CASE r.hosts = 1
    <3>1. Host = One  BY <2>3 DEF HostHeaders, One, None
    <3> QED  BY <1>2, <3>1
  <2>4. CASE r.hosts = 2
    <3>1. Host = Two  BY <2>4 DEF HostHeaders, Two, One, None
    <3> QED  BY <1>3, <2>4, <3>1
  <2> QED  BY <2>1, <2>2, <2>3, <2>4
<1> HIDE DEF Host, S1
<1>5. /\ Typed(r) \in Seq(S2) /\ Single(Typed(r), "content-type", r.type)
      /\ r.hosts = 1 => Single(Typed(r), "host", "v")
      /\ \A m : m \notin {"host", "content-type"} => Single(Typed(r), m, "none")
  <2> DEFINE T == Extended(Host, "content-type", r.type)
  <2>1. Typed(r) = T  BY DEF Typed, Host
  <2>2. T \in Seq(S2)  BY <1>4, OneMore
  <2>3. Single(T, "content-type", r.type)  BY <1>4, OneMore
  <2>4. r.hosts = 1 => Single(T, "host", "v")  BY <1>4, OneMore
  <2>5. ASSUME NEW m, m \notin {"host", "content-type"} PROVE Single(T, m, "none")
    BY <1>4, <2>5, OneMore
  <2> HIDE DEF T
  <2> QED  BY <2>1, <2>2, <2>3, <2>4, <2>5
<1> HIDE DEF S2
<1>6. /\ Encoded(r) \in Seq(S3) /\ Single(Encoded(r), "content-type", r.type)
      /\ Single(Encoded(r), "transfer-encoding", r.encoding)
      /\ r.hosts = 1 => Single(Encoded(r), "host", "v")
      /\ Single(Encoded(r), "content-length", "none")
  <2>1. Encoded(r) = Extended(Typed(r), "transfer-encoding", r.encoding)  BY DEF Encoded
  <2> QED  BY <1>5, <2>1, OneMore
<1> HIDE DEF S3
<1>7. HeadersOf(r) = Extended(Encoded(r), "content-length", r.length)  BY DEF HeadersOf
<1> DEFINE E == Encoded(r)
<1>8. ASSUME NEW m, NEW w, m # "content-length", Single(E, m, w)
      PROVE  Single(HeadersOf(r), m, w)
  <2>1. Single(Extended(E, "content-length", r.length), m, w)  BY <1>6, <1>8, OneMore
  <2> QED  BY <1>7, <2>1
<1>9. Single(HeadersOf(r), "content-length", r.length)
  BY <1>6, <1>7, OneMore
<1> QED  BY <1>6, <1>8, <1>9

(* The headers are numbered.                                               *)
LEMMA Numbered == \A p \in ParserType : \A k \in DOMAIN p.headers : k \in Nat
<1> TAKE p \in ParserType
<1>1. p.headers \in Seq(Seq(Token) \X Seq(Token))  BY DEF ParserType
<1>2. DOMAIN p.headers = 1..Len(p.headers) /\ Len(p.headers) \in Nat  BY <1>1
<1> QED  BY <1>2

(* A single header is found, with its value.                               *)
LEMMA SingleFound ==
  ASSUME NEW p \in ParserType, NEW name, NEW w, Single(p.headers, name, w)
  PROVE  /\ w = "none" => Given(p, name) = {} /\ ~Once(p, name)
         /\ w # "none" => /\ Given(p, name) # {}
                          /\ Once(p, name)
                          /\ Value(p, name) = <<w>>
                          /\ \E k \in DOMAIN p.headers :
                               Given(p, name) = {k} /\ p.headers[k][2] = <<w>>
<1>1. Given(p, name) = GivenIn(p.headers, name)  BY DEF Given, GivenIn
<1>2. CASE w = "none"
  <2>1. Given(p, name) = {}  BY <1>1, <1>2 DEF Single
  <2> QED  BY <1>2, <2>1 DEF Once
<1>3. CASE w # "none"
  <2>1. PICK k \in DOMAIN p.headers : Given(p, name) = {k} /\ p.headers[k][2] = <<w>>
    BY <1>1, <1>3 DEF Single
  <2>2. Min({k}) = k
    <3>1. k \in Nat  BY Numbered
    <3>2. \A y \in {k} : k <= y  BY <3>1
    <3> QED  BY <3>2 DEF Min
  <2> QED  BY <1>3, <2>1, <2>2 DEF Once, Value
<1> QED  BY <1>2, <1>3

(* The length of one digit is what it counts.                              *)
LEMMA OneDigit == \A d \in Digits : ToLength(<<d>>) = DigitValue[d]
<1> TAKE d \in Digits
<1>1. SizeMod - 1 \in Sizes /\ 0 \in Sizes  BY ParserAssumption DEF Sizes
<1>2. DecimalStep \in [Digits -> [Sizes -> Sizes]]  BY <1>1 DEF DecimalStep
<1>3. <<d>> \in Seq(Digits) /\ Len(<<d>>) = 1 /\ <<d>>[1] = d  OBVIOUS
<1>4. ToLength(<<d>>) = DecimalStep[d][0]  BY <1>2, <1>3, ConvertGivesSize DEF ToLength
<1>5. DigitValue[d] \in 0..3 /\ DigitValue[d] \in Sizes
  BY DigitValues, ParserAssumption DEF Sizes
<1>6. 0 * 10 + DigitValue[d] = DigitValue[d]  BY <1>5
<1> QED  BY <1>1, <1>4, <1>5, <1>6 DEF DecimalStep

(* What the checks see of the headers of r.                                *)
LEMMA HeadersFound ==
  ASSUME NEW r \in Request, NEW p \in ParserType, p.headers = HeadersOf(r)
  PROVE  /\ BadLength(p) <=> r.length = "v"
         /\ Length(p) = IF r.length \in Digits THEN DigitValue[r.length] ELSE 0
         /\ HasEncoding(p) <=> r.encoding # "none"
         /\ HasEncoding(p) => Once(p, "transfer-encoding")
         /\ Chunked(p) <=> r.encoding = "chunked"
         /\ ContentType(p) = IF r.type = "none" THEN <<>> ELSE <<r.type>>
         /\ r.hosts = 1 => Once(p, "host") /\ Value(p, "host") = <<"v">>
<1>1. /\ Single(p.headers, "content-type", r.type)
      /\ Single(p.headers, "transfer-encoding", r.encoding)
      /\ Single(p.headers, "content-length", r.length)
      /\ r.hosts = 1 => Single(p.headers, "host", "v")
  BY HeadersGiven
<1>2. r.length \in {"none", "v"} \cup Digits /\ "none" \notin Digits /\ "v" \notin Digits
  BY DEF Request, Digits
<1>3. HasLength(p) <=> r.length # "none"  BY <1>1, SingleFound DEF HasLength
<1>4. r.length # "none" => Once(p, "content-length") /\ Value(p, "content-length") = <<r.length>>
  BY <1>1, SingleFound
<1>5. ToSet(<<r.length>>) = {r.length}
  BY DEF ToSet
<1>6. BadLength(p) <=> r.length = "v"
  BY <1>2, <1>3, <1>4, <1>5 DEF BadLength
<1>7. Length(p) = IF r.length \in Digits THEN DigitValue[r.length] ELSE 0
  BY <1>2, <1>3, <1>4, <1>6, OneDigit DEF Length
<1>8. HasEncoding(p) <=> r.encoding # "none"  BY <1>1, SingleFound DEF HasEncoding
<1>9. r.encoding # "none" =>
        Once(p, "transfer-encoding") /\ Value(p, "transfer-encoding") = <<r.encoding>>
  BY <1>1, SingleFound
<1>10. r.encoding = "none" => ~Once(p, "transfer-encoding")
  BY <1>1, SingleFound
<1>11. Chunked(p) <=> r.encoding = "chunked"  BY <1>9, <1>10 DEF Chunked
<1>12. ContentType(p) = IF r.type = "none" THEN <<>> ELSE <<r.type>>
  <2> DEFINE given == {k \in Given(p, "content-type") : p.headers[k][2] # <<>>}
  <2>1. CASE r.type = "none"
    <3>1. given = {}  BY <1>1, <2>1, SingleFound
    <3> QED  BY <2>1, <3>1 DEF ContentType
  <2>2. CASE r.type # "none"
    <3>1. PICK k \in DOMAIN p.headers :
            Given(p, "content-type") = {k} /\ p.headers[k][2] = <<r.type>>
      BY <1>1, <2>2, SingleFound
    <3>2. given = {k}  BY <3>1
    <3>3. Max({k}) = k
      <4>1. k \in Nat  BY Numbered
      <4>2. \A y \in {k} : k >= y  BY <4>1
      <4> QED  BY <4>2 DEF Max
    <3> QED  BY <2>2, <3>1, <3>2, <3>3 DEF ContentType
  <2> QED  BY <2>1, <2>2
<1>13. ASSUME r.hosts = 1 PROVE Once(p, "host") /\ Value(p, "host") = <<"v">>
  <2>1. PICK k \in DOMAIN p.headers : Given(p, "host") = {k} /\ p.headers[k][2] = <<"v">>
    BY <1>1, <1>13 DEF Single, Given, GivenIn
  <2>2. Min({k}) = k
    <3>1. k \in Nat  BY Numbered
    <3>2. \A y \in {k} : k <= y  BY <3>1
    <3> QED  BY <3>2 DEF Min
  <2> QED  BY <2>1, <2>2 DEF Once, Value
<1> QED  BY <1>6, <1>7, <1>8, <1>9, <1>11, <1>12, <1>13

(* The empty line.                                                         *)
LEMMA EmptyLineTurns ==
  ASSUME NEW r \in Request, NEW p \in ParserType, NEW H
  PROVE  /\ InLine(p, r, "HEADER", H, <<>>, <<>>) =>
              /\ InLine(Turn(p, "CR"), r, "SECOND_CR_HEADER", H, <<>>, <<>>)
              /\ InLine(Turn(p, "LF"), r, "END", H, <<>>, <<>>)
         /\ InLine(p, r, "SECOND_CR_HEADER", H, <<>>, <<>>) =>
              \E x \in ParserType : /\ InLine(x, r, "END", H, <<>>, <<>>)
                                    /\ Turn(p, "LF") = CheckRequest(x)
<1>1. \A t : p.step # "END" => Turn(p, t) = Dispatch(p, t, p.uri = <<>>, p.protocol = <<>>)
  BY DEF Turn
<1>2. \A s, x : InLine(p, r, x, H, <<>>, <<>>) => InLine(Goto(p, s), r, s, H, <<>>, <<>>)
  BY DEF InLine, Goto, ParserType
<1>3. ASSUME InLine(p, r, "HEADER", H, <<>>, <<>>)
      PROVE  /\ InLine(Turn(p, "CR"), r, "SECOND_CR_HEADER", H, <<>>, <<>>)
             /\ InLine(Turn(p, "LF"), r, "END", H, <<>>, <<>>)
  <2>1. p.step = "HEADER"  BY <1>3 DEF InLine
  <2>2. \A t : Turn(p, t) = Header(p, t)  BY <1>1, <2>1 DEF Dispatch, AfterCr
  <2>3. Header(p, "CR") = Goto(p, "SECOND_CR_HEADER")  BY <2>1 DEF Header, Blank
  <2>4. Header(p, "LF") = Goto(p, "END")  BY <2>1 DEF Header, Blank
  <2> QED  BY <1>2, <1>3, <2>2, <2>3, <2>4
<1>4. ASSUME InLine(p, r, "SECOND_CR_HEADER", H, <<>>, <<>>)
      PROVE  \E x \in ParserType : /\ InLine(x, r, "END", H, <<>>, <<>>)
                                   /\ Turn(p, "LF") = CheckRequest(x)
  <2>1. p.step = "SECOND_CR_HEADER"  BY <1>4 DEF InLine
  <2>2. Turn(p, "LF") = CheckCrlf(p, "LF")  BY <1>1, <2>1 DEF Dispatch, AfterCr
  <2>3. CheckCrlf(p, "LF") = CheckRequest(Goto(p, "END"))  BY <2>1 DEF CheckCrlf
  <2>4. Goto(p, "END") \in ParserType  BY GotoType DEF Steps
  <2> QED  BY <1>2, <1>4, <2>2, <2>3, <2>4
<1> QED  BY <1>3, <1>4

(* After the head of a request with a good request line: the checks have   *)
(* been made, or an empty line without CR has ended the request.           *)
LEMMA HeadChecked ==
  ASSUME NEW r \in Request, r.gap # 0, r.cut = "no", r.version = "1.1"
  PROVE  LET T == Parsed(Bytes(r))
             k == OtherEnd(r)
             H == HeadersOf(r)
         IN /\ k \in Nat /\ k < Len(Bytes(r)) /\ HeadEnd(r) \in k + 1..k + 2
            /\ HeadEnd(r) <= Len(Bytes(r))
            /\ ~r.crlf => HeadEnd(r) = k + 1 /\ InLine(T[k + 1], r, "END", H, <<>>, <<>>)
            /\ r.crlf => /\ HeadEnd(r) = k + 2
                         /\ InLine(T[k + 1], r, "SECOND_CR_HEADER", H, <<>>, <<>>)
                         /\ \E x \in ParserType : /\ InLine(x, r, "END", H, <<>>, <<>>)
                                                  /\ T[k + 2] = CheckRequest(x)
<1> DEFINE s == Bytes(r)
           T == Parsed(s)
           k == OtherEnd(r)
           H == HeadersOf(r)
           e == Eol(r)
<1>1. s \in Seq(Token) /\ At(s, k, e)  BY PartsAt
<1>2. /\ r.crlf => e = <<"CR", "LF">> /\ Len(e) = 2
      /\ ~r.crlf => e = <<"LF">> /\ Len(e) = 1
  BY DEF Eol
<1>3. InLine(T[k], r, "HEADER", H, <<>>, <<>>)  BY HeadTurns
<1>4. HeadEnd(r) = k + Len(e)  BY DEF HeadEnd
<1> HIDE DEF s, T, k, H, e
<1>5. k \in Nat /\ Len(s) \in Nat /\ k + Len(e) <= Len(s)
      /\ \A i \in 1..Len(e) : s[k + i] = e[i]
  BY <1>1 DEF At
<1>6. \A i \in Nat : i < Len(s) => /\ T[i] \in ParserType
                                   /\ T[i + 1] = Turn(T[i], s[i + 1])
  BY <1>1, Along DEF T
<1>7. CASE r.crlf
  <2>a. Len(e) = 2 /\ e[1] = "CR" /\ e[2] = "LF"  BY <1>2, <1>7
  <2>1. /\ k + 2 <= Len(s) /\ k < Len(s) /\ k + 1 \in Nat /\ k + 1 < Len(s) /\ (k + 1) + 1 = k + 2
        /\ k + 2 \in k + 1..k + 2
    BY <1>5, <2>a
  <2>2. s[k + 1] = "CR" /\ s[k + 2] = "LF"
    <3>1. 1 \in 1..Len(e) /\ 2 \in 1..Len(e)  BY <2>a
    <3> QED  BY <1>5, <2>a, <3>1
  <2>3. T[k] \in ParserType /\ T[k + 1] = Turn(T[k], "CR")  BY <1>5, <1>6, <2>1, <2>2
  <2>4. T[k + 1] \in ParserType /\ T[k + 2] = Turn(T[k + 1], "LF")
    BY <1>6, <2>1, <2>2
  <2>5. InLine(T[k + 1], r, "SECOND_CR_HEADER", H, <<>>, <<>>)
    BY <1>3, <2>3, EmptyLineTurns
  <2>6. \E x \in ParserType : InLine(x, r, "END", H, <<>>, <<>>) /\ T[k + 2] = CheckRequest(x)
    BY <2>4, <2>5, EmptyLineTurns
  <2> QED  BY <1>4, <1>5, <1>7, <2>a, <2>1, <2>5, <2>6 DEF s, T, k, H
<1>8. CASE ~r.crlf
  <2>a. Len(e) = 1 /\ e[1] = "LF"  BY <1>2, <1>8
  <2>1. k + 1 <= Len(s) /\ k < Len(s) /\ k + 1 \in k + 1..k + 2  BY <1>5, <2>a
  <2>2. s[k + 1] = "LF"
    <3>1. 1 \in 1..Len(e)  BY <2>a
    <3> QED  BY <1>5, <2>a, <3>1
  <2>3. T[k] \in ParserType /\ T[k + 1] = Turn(T[k], "LF")  BY <1>5, <1>6, <2>1, <2>2
  <2>4. InLine(T[k + 1], r, "END", H, <<>>, <<>>)
    BY <1>3, <2>3, EmptyLineTurns
  <2> QED  BY <1>4, <1>5, <1>8, <2>a, <2>1, <2>4 DEF s, T, k, H
<1> QED  BY <1>7, <1>8

(* What check_request() leaves when the body of r can begin.               *)
LEMMA BodyBegins ==
  ASSUME NEW r \in Request, NEW x \in ParserType,
         InLine(x, r, "END", HeadersOf(r), <<>>, <<>>)
  PROVE  LET q == CheckRequest(x)
         IN /\ q.step \in {"END", "BODY", "CHUNK_SIZE"}
            /\ q.step = "BODY" => /\ r.encoding = "none" /\ r.length \in Digits
                                  /\ q.length = DigitValue[r.length] /\ q.length # 0
                                  /\ q.body = <<>>
<1> DEFINE q == CheckRequest(x)
<1>1. /\ BadLength(x) <=> r.length = "v"
      /\ Length(x) = IF r.length \in Digits THEN DigitValue[r.length] ELSE 0
      /\ HasEncoding(x) <=> r.encoding # "none"
      /\ Chunked(x) <=> r.encoding = "chunked"
  BY HeadersFound DEF InLine
<1>2. \A s : Fail(x, s).step = "END"  BY DEF Fail, ParserType
<1>3. CASE \E s \in Errors : q = Fail(x, s)
  <2>1. q.step = "END"  BY <1>2, <1>3
  <2> QED  BY <2>1
<1>4. CASE q = Passed(x) /\ \A k \in 1..12 : ~RequestChecks(x)[k][1]
  <2>1. /\ q.step = IF ~IsPost(x) THEN "END" ELSE IF Chunked(x) THEN "CHUNK_SIZE" ELSE "BODY"
        /\ q.length = Length(x) /\ q.body = x.body
    BY <1>4 DEF Passed, ParserType
  <2>2. x.body = <<>>  BY DEF InLine
  <2>3. ~RequestChecks(x)[5][1] /\ ~RequestChecks(x)[9][1]
    <3>1. 5 \in 1..12 /\ 9 \in 1..12  OBVIOUS
    <3> QED  BY <1>4, <3>1
  <2>4. ~(HasEncoding(x) /\ ~Chunked(x)) /\ ~(IsPost(x) /\ ~Chunked(x) /\ Length(x) = 0)
    BY <2>3 DEF RequestChecks
  <2> HIDE DEF q
  <2>5. ASSUME q.step = "BODY"
        PROVE  /\ r.encoding = "none" /\ r.length \in Digits
               /\ q.length = DigitValue[r.length] /\ q.length # 0
    <3>1. IsPost(x) /\ ~Chunked(x)  BY <2>1, <2>5
    <3>2. ~HasEncoding(x) /\ Length(x) # 0  BY <2>4, <3>1
    <3> QED  BY <1>1, <2>1, <3>2
  <2>6. /\ q.step \in {"END", "BODY", "CHUNK_SIZE"}
        /\ q.body = <<>>
    BY <2>1, <2>2
  <2> QED  BY <2>5, <2>6 DEF q
<1> QED  BY <1>3, <1>4, CheckOutcome

(***************************************************************************)
(* Where a body with a length ends                                         *)
(***************************************************************************)

(* Each state is reached from the one before by the dispatcher, unless the *)
(* request has ended.                                                      *)
LEMMA OneTurn ==
  ASSUME NEW p \in ParserType, NEW t
  PROVE  /\ p.step \notin Opening => Turn(p, t).step \notin Opening
         /\ p.step = "BODY" => /\ Turn(p, t).step \in {"BODY", "BODY_LENGTH_END"}
                               /\ Turn(p, t) = Body(p, t)
         /\ p.step = "BODY_LENGTH_END" => Turn(p, t).step \in AfterBody
         /\ p.step \in AfterBody => Turn(p, t).step \in AfterBody
<1>1. CASE p.step = "END"
  <2>1. Turn(p, t) = p  BY <1>1 DEF Turn
  <2>2. "END" \in AfterBody  BY DEF AfterBody
  <2> QED  BY <1>1, <2>1, <2>2 DEF Opening
<1>2. CASE p.step # "END"
  <2>1. Turn(p, t) = Dispatch(p, t, p.uri = <<>>, p.protocol = <<>>)  BY <1>2 DEF Turn
  <2>2. p.step = "BODY" => Dispatch(p, t, p.uri = <<>>, p.protocol = <<>>) = Body(p, t)
    BY DEF Dispatch, AfterCr
  <2> QED  BY <2>1, <2>2, NoWayBack
<1> QED  BY <1>1, <1>2

(* The steps from the body on.                                             *)
Late == {"BODY", "BODY_LENGTH_END"} \cup AfterBody

(* Steps that no turn leaves are not left.                                 *)
LEMMA Stays ==
  ASSUME NEW s \in Seq(Token), NEW X,
         \A p \in ParserType, t \in Token : p.step \in X => Turn(p, t).step \in X,
         NEW j \in 0..Len(s), Parsed(s)[j].step \in X
  PROVE  \A k \in j..Len(s) : Parsed(s)[k].step \in X
<1> DEFINE T == Parsed(s)
           S == {k \in j..Len(s) : T[k].step \in X}
<1>1. j \in S /\ Len(s) \in Nat /\ j \in Nat  OBVIOUS
<1>2. \A k \in j..Len(s) - 1 : k \in S => k + 1 \in S
  <2> SUFFICES ASSUME NEW k \in j..Len(s) - 1, k \in S PROVE k + 1 \in S  OBVIOUS
  <2>1. k \in Nat /\ k < Len(s) /\ k + 1 \in j..Len(s)  BY <1>1
  <2>2. T[k] \in ParserType /\ T[k + 1] = Turn(T[k], s[k + 1])  BY <2>1, Along
  <2>a. s[k + 1] \in Token  BY <2>1
  <2>3. T[k + 1].step \in X  BY <2>2, <2>a
  <2> QED  BY <2>1, <2>3
<1> HIDE DEF S
<1>3. \A k \in j..Len(s) : k \in S  BY <1>1, <1>2, Counting
<1> QED  BY <1>3 DEF S

(* The parser never goes back, over any number of bytes.                   *)
LEMMA StaysLate ==
  ASSUME NEW s \in Seq(Token), NEW j \in 0..Len(s), NEW k \in j..Len(s)
  PROVE  /\ Parsed(s)[j].step \in Late => Parsed(s)[k].step \in Late
         /\ Parsed(s)[j].step \in AfterBody => Parsed(s)[k].step \in AfterBody
         /\ Parsed(s)[j].step \notin Opening => Parsed(s)[k].step \notin Opening
<1>1. \A p \in ParserType : \A t :
        /\ p.step \in Late => Turn(p, t).step \in Late
        /\ p.step \in AfterBody => Turn(p, t).step \in AfterBody
  BY OneTurn DEF Late
<1>2. \A p \in ParserType, t \in Token :
        p.step \in Steps \ Opening => Turn(p, t).step \in Steps \ Opening
  <2>1. \A p \in ParserType : p.step \in Steps  BY DEF ParserType
  <2> QED  BY <2>1, OneTurn, TurnType
<1>3. ASSUME Parsed(s)[j].step \in Late PROVE Parsed(s)[k].step \in Late
  BY <1>1, <1>3, Stays
<1>4. ASSUME Parsed(s)[j].step \in AfterBody PROVE Parsed(s)[k].step \in AfterBody
  BY <1>1, <1>4, Stays
<1>5. ASSUME Parsed(s)[j].step \notin Opening PROVE Parsed(s)[k].step \notin Opening
  <2>1. Parsed(s)[j] \in ParserType  BY ParsedSteps
  <2>2. Parsed(s)[j].step \in Steps \ Opening  BY <1>5, <2>1 DEF ParserType
  <2> QED  BY <1>2, <2>2, Stays
<1> QED  BY <1>3, <1>4, <1>5

(* Where the payload of a request without chunks ends.                     *)
LEMMA ContentLength ==
  ASSUME NEW r \in Request, r.encoding = "none"
  PROVE  Len(Content(r)) = r.payload + r.extra
<1> DEFINE a == Times(r.payload, "x")
           b == Times(r.extra, "x")
<1>1. r.payload \in Nat /\ r.extra \in Nat /\ "x" \in Token  BY DEF Request, Token, Payload
<1>2. a \in Seq(Token) /\ b \in Seq(Token)  BY <1>1, TimesType
<1>3. Len(a) = r.payload /\ Len(b) = r.extra  BY <1>1, <1>2 DEF Times
<1>4. Content(r) = a \o b  BY DEF Content
<1> HIDE DEF a, b
<1>5. Len(a \o b) = Len(a) + Len(b)  BY <1>2, Joined
<1> QED  BY <1>3, <1>4, <1>5

(* Unless bytes follow the announced length, the body reaches it with the  *)
(* last byte of the request.                                               *)
LEMMA LengthEndsBody ==
  ASSUME NEW r \in Request, ~TooLong(r), r.gap # 0, r.cut = "no", r.version = "1.1", r.crlf,
         Parsed(Bytes(r))[HeadEnd(r)].step = "BODY",
         NEW k \in HeadEnd(r)..Len(Bytes(r)), Parsed(Bytes(r))[k].step = "BODY_LENGTH_END"
  PROVE  k = Len(Bytes(r))
<1> DEFINE s == Bytes(r)
           T == Parsed(s)
           h == HeadEnd(r)
           L == DigitValue[r.length]
<1>1. PICK x \in ParserType : InLine(x, r, "END", HeadersOf(r), <<>>, <<>>) /\ T[h] = CheckRequest(x)
  BY HeadChecked
<1>2. /\ r.encoding = "none" /\ r.length \in Digits
      /\ T[h].length = L /\ L # 0 /\ T[h].body = <<>>
  BY <1>1, BodyBegins
<1>3. L \in Nat /\ r.payload + r.extra <= L /\ r.payload + r.extra \in Nat
  <2>1. L \in Nat  BY <1>2, DigitValues
  <2>2. r.payload \in Nat /\ r.extra \in Nat  BY DEF Request
  <2>3. ~(r.payload + r.extra > L)  BY <1>2 DEF TooLong
  <2> HIDE DEF L
  <2> QED  BY <2>1, <2>2, <2>3
<1>4. Len(s) = h + (r.payload + r.extra)  BY <1>2, ContentLength, PartsAt
<1>5. s \in Seq(Token) /\ Len(s) \in Nat /\ h \in Nat /\ h <= Len(s)
  <2>1. OtherEnd(r) \in Nat /\ h \in OtherEnd(r) + 1..OtherEnd(r) + 2 /\ h <= Len(s)
    BY HeadChecked
  <2> QED  BY <2>1, PartsAt
<1> DEFINE S == {i \in h..Len(s) :
                   \/ T[i].step = "BODY" /\ Len(T[i].body) = i - h /\ T[i].length = L
                   \/ T[i].step = "BODY_LENGTH_END" /\ i = Len(s)
                   \/ T[i].step \in AfterBody}
<1>6. h \in S
  <2>1. h \in h..Len(s) /\ h - h = 0  BY <1>5
  <2>2. Len(T[h].body) = h - h  BY <1>2, <2>1
  <2> HIDE DEF T, h, L, s
  <2> QED  BY <1>2, <2>1, <2>2 DEF T, h, s
<1> HIDE DEF s, T, h, L
<1>7. \A i \in h..Len(s) - 1 : i \in S => i + 1 \in S
  <2> SUFFICES ASSUME NEW i \in h..Len(s) - 1, i \in S PROVE i + 1 \in S  OBVIOUS
  <2>1. i \in Nat /\ i < Len(s) /\ i + 1 \in h..Len(s)  BY <1>5
  <2> DEFINE p == T[i]
             t == s[i + 1]
  <2>2. p \in ParserType /\ T[i + 1] = Turn(p, t)  BY <1>5, <2>1, Along DEF T
  <2>3. CASE p.step = "BODY" /\ Len(p.body) = i - h /\ p.length = L
    <3>1. T[i + 1] = Body(p, t)  BY <2>2, <2>3, OneTurn
    <3>2. /\ T[i + 1].body = Append(p.body, t) /\ T[i + 1].length = p.length
          /\ T[i + 1].step = IF Len(p.body) + 1 = p.length THEN "BODY_LENGTH_END" ELSE "BODY"
      BY <2>2, <2>3, <3>1 DEF Body, ParserType
    <3>3. Len(Append(p.body, t)) = Len(p.body) + 1
      <4>1. p.body \in Seq(Token)  BY <2>2 DEF ParserType
      <4> QED  BY <4>1
    <3>4. Len(p.body) + 1 = (i + 1) - h /\ Len(p.body) \in Nat  BY <1>5, <2>1, <2>3
    <3>5. CASE Len(p.body) + 1 = p.length
      <4>1. (i + 1) - h = L  BY <2>3, <3>4, <3>5
      <4>2. i + 1 = Len(s)  BY <1>3, <1>4, <1>5, <2>1, <4>1
      <4> QED  BY <2>1, <3>2, <3>5, <4>2
    <3>6. CASE Len(p.body) + 1 # p.length
      <4>1. T[i + 1].step = "BODY" /\ Len(T[i + 1].body) = (i + 1) - h /\ T[i + 1].length = L
        BY <2>3, <3>2, <3>3, <3>4, <3>6
      <4> QED  BY <2>1, <4>1
    <3> QED  BY <3>5, <3>6
  <2>4. CASE p.step = "BODY_LENGTH_END" /\ i = Len(s)
    BY <1>5, <2>1, <2>4
  <2>5. CASE p.step \in AfterBody
    <3>1. T[i + 1].step \in AfterBody  BY <2>2, <2>5, OneTurn
    <3> QED  BY <2>1, <3>1
  <2> QED  BY <2>3, <2>4, <2>5
<1>8. \A i \in h..Len(s) : i \in S
  <2> HIDE DEF S
  <2> QED  BY <1>5, <1>6, <1>7, Counting
<1>9. k \in S /\ T[k].step = "BODY_LENGTH_END"  BY <1>8 DEF h, s, T
<1>10. "BODY_LENGTH_END" # "BODY" /\ "BODY_LENGTH_END" \notin AfterBody
  BY DEF AfterBody, InChunks, Measured
<1>11. k = Len(s)  BY <1>9, <1>10
<1> QED  BY <1>11 DEF s

(* Wherever the parser may be: only at the end of the request is it at the *)
(* end of a body with a length.                                            *)
LEMMA LengthEnds ==
  ASSUME NEW r \in Request, ~TooLong(r), NEW k \in 0..Len(Bytes(r)),
         Parsed(Bytes(r))[k].step = "BODY_LENGTH_END"
  PROVE  k = Len(Bytes(r))
<1> DEFINE s == Bytes(r)
           T == Parsed(s)
           g == r.gap
           n == SpaceEnd(r)
<1>1. /\ s \in Seq(Token) /\ g \in Nat /\ n \in Nat /\ n >= g + 1 /\ g + 3 <= Len(s)
      /\ FirstEnd(r) \in Nat /\ FirstEnd(r) <= Len(s)
      /\ r.cut \notin {"uri", "tab"} => n + 4 <= Len(s)
      /\ r.cut = "no" => FirstEnd(r) = (n + 5) + Len(Eol(r))
  BY FirstTokens
<1>2. Len(Eol(r)) \in 1..2  BY DEF Eol
<1>a. k \in 0..Len(s)  OBVIOUS
<1>4. T[k].step \in Late /\ T[k].step \notin AfterBody
  BY DEF Late, AfterBody, InChunks, Measured
<1>5. /\ "END" \in AfterBody /\ "CHUNK_SIZE" \in AfterBody
      /\ {"INIT", "METHOD", "URI", "PROTOCOL", "VERSION", "HEADER", "SECOND_CR_HEADER"}
           \cap Late = {}
  BY DEF Late, AfterBody, InChunks, Before, Measured, Steps
<1> HIDE DEF s, T, g, n
<1>3. /\ Len(s) \in Nat /\ k \in Nat /\ k <= Len(s) /\ g + 3 <= Len(s)
      /\ r.cut = "no" => n + 6 <= Len(s)
  <2>1. Len(s) \in Nat  BY <1>1
  <2>2. ASSUME r.cut = "no" PROVE n + 6 <= FirstEnd(r)
    <3>1. PICK l \in 1..2 : l = Len(Eol(r))  BY <1>2
    <3>2. FirstEnd(r) = (n + 5) + l  BY <1>1, <2>2, <3>1
    <3>3. n \in Nat  BY <1>1
    <3>4. (n + 5) + l >= n + 6 /\ (n + 5) + l \in Nat
      <4>1. CASE l = 1
        <5>1. (n + 5) + 1 >= n + 6 /\ (n + 5) + 1 \in Nat  BY <3>3
        <5> QED  BY <4>1, <5>1
      <4>2. CASE l = 2
        <5>1. (n + 5) + 2 >= n + 6 /\ (n + 5) + 2 \in Nat  BY <3>3
        <5> QED  BY <4>2, <5>1
      <4>3. l = 1 \/ l = 2  BY <3>1
      <4> QED  BY <4>1, <4>2, <4>3
    <3> QED  BY <3>2, <3>3, <3>4
  <2>3. ASSUME r.cut = "no" PROVE n + 6 <= Len(s)
    <3>1. n + 6 <= FirstEnd(r) /\ FirstEnd(r) <= Len(s)  BY <1>1, <2>2, <2>3
    <3> QED  BY <1>1, <2>1, <3>1
  <2>4. k \in Nat /\ k <= Len(s)  BY <1>a, <2>1
  <2> QED  BY <1>1, <2>1, <2>3, <2>4
<1>6. \A i \in 0..Len(s) : T[i].step \in AfterBody => k < i
  <2> SUFFICES ASSUME NEW i \in 0..Len(s), T[i].step \in AfterBody, i <= k PROVE FALSE
    BY <1>3
  <2>1. k \in i..Len(s)  BY <1>3
  <2>2. T[k].step \in AfterBody  BY <1>1, <2>1, StaysLate DEF T
  <2> QED  BY <1>4, <2>2
<1>7. \A i \in 0..Len(s) : T[i].step \notin Late => i < k
  <2> SUFFICES ASSUME NEW i \in 0..Len(s), T[i].step \notin Late, k <= i PROVE FALSE
    BY <1>3
  <2>1. i \in k..Len(s) /\ k \in 0..Len(s)  BY <1>3
  <2>2. T[i].step \in Late  BY <1>1, <1>4, <2>1, StaysLate DEF T
  <2> QED  BY <2>2
<1>8. ASSUME NEW i \in Nat, i + 1 <= Len(s), T[i].step \notin Late, T[i + 1].step \in AfterBody
      PROVE  FALSE
  <2>1. i \in 0..Len(s) /\ i + 1 \in 0..Len(s)  BY <1>3, <1>8
  <2>2. k < i + 1 /\ i < k  BY <1>6, <1>7, <1>8, <2>1
  <2> QED  BY <1>3, <2>2
<1>9. CASE g = 0
  <2>1. T[1].step = "METHOD" /\ T[1 + 1].step = "END"
    BY <1>9, FirstTurns DEF Opened, Failed, T, s, g
  <2>2. 1 + 1 <= Len(s)  BY <1>1, <1>3
  <2> QED  BY <1>5, <1>8, <2>1, <2>2
<1>b. CASE g # 0 /\ r.cut \in {"uri", "tab"}
  <2>1. T[g + 2].step = "URI" /\ T[g + 3].step = "END"
    BY <1>b, FirstTurns DEF Opened, Failed, T, s, g
  <2>2. g + 2 \in Nat /\ (g + 2) + 1 = g + 3  BY <1>1
  <2> QED  BY <1>1, <1>5, <1>8, <2>1, <2>2
<1>c. CASE g # 0 /\ r.cut = "protocol"
  <2>1. T[n + 3].step = "PROTOCOL" /\ T[n + 4].step = "END"
    BY <1>c, FirstTurns DEF Opened, Failed, T, s, g, n
  <2>2. n + 3 \in Nat /\ (n + 3) + 1 = n + 4 /\ n + 4 <= Len(s)  BY <1>1, <1>c
  <2> QED  BY <1>5, <1>8, <2>1, <2>2
<1>d. CASE g # 0 /\ r.cut = "no" /\ r.version # "1.1"
  <2>1. T[n + 5].step = "VERSION" /\ T[n + 6].step = "END"
    BY <1>d, FirstTurns DEF Opened, Failed, T, s, g, n
  <2>2. n + 5 \in Nat /\ (n + 5) + 1 = n + 6  BY <1>1
  <2>3. n + 6 <= Len(s)  BY <1>3, <1>d
  <2> QED  BY <1>5, <1>8, <2>1, <2>2, <2>3
<1>10. CASE g # 0 /\ r.cut = "no" /\ r.version = "1.1"
  <2> DEFINE o == OtherEnd(r)
             h == HeadEnd(r)
             H == HeadersOf(r)
  <2>a. InLine(T[o], r, "HEADER", H, <<>>, <<>>)
    BY <1>10, HeadTurns DEF T, s, g
  <2>1. /\ o \in Nat /\ o < Len(s) /\ h \in o + 1..o + 2 /\ h <= Len(s)
        /\ ~r.crlf => h = o + 1 /\ InLine(T[o + 1], r, "END", H, <<>>, <<>>)
        /\ r.crlf => /\ h = o + 2
                     /\ InLine(T[o + 1], r, "SECOND_CR_HEADER", H, <<>>, <<>>)
                     /\ \E x \in ParserType : /\ InLine(x, r, "END", H, <<>>, <<>>)
                                              /\ T[o + 2] = CheckRequest(x)
    BY <1>10, HeadChecked DEF T, s, g
  <2> HIDE DEF o, h, H
  <2>2. o \in 0..Len(s) /\ o + 1 \in 0..Len(s) /\ h \in 0..Len(s)  BY <1>3, <2>1
  <2>3. o < k
    <3>1. T[o].step = "HEADER"  BY <2>a DEF InLine
    <3> QED  BY <1>5, <1>7, <2>2, <3>1
  <2>4. CASE ~r.crlf
    <3>1. T[o + 1].step = "END"  BY <2>1, <2>4 DEF InLine
    <3>2. k < o + 1  BY <1>5, <1>6, <2>2, <3>1
    <3> QED  BY <1>3, <2>1, <2>3, <3>2
  <2>5. CASE r.crlf
    <3>1. T[o + 1].step = "SECOND_CR_HEADER"  BY <2>1, <2>5 DEF InLine
    <3>2. o + 1 < k  BY <1>5, <1>7, <2>2, <3>1
    <3>3. PICK x \in ParserType : InLine(x, r, "END", H, <<>>, <<>>) /\ T[h] = CheckRequest(x)
      BY <2>1, <2>5
    <3>4. T[h].step \in {"END", "BODY", "CHUNK_SIZE"}  BY <3>3, BodyBegins DEF H
    <3>5. k \in h..Len(s)  BY <1>3, <2>1, <2>5, <3>2
    <3>6. CASE T[h].step \in AfterBody
      <4>1. k < h  BY <1>6, <2>2, <3>6
      <4> QED  BY <1>3, <2>1, <3>5, <4>1
    <3>7. CASE T[h].step = "BODY"
      BY <1>10, <2>5, <3>5, <3>7, LengthEndsBody DEF T, s, h, g
    <3> QED  BY <1>5, <3>4, <3>6, <3>7
  <2> QED  BY <2>4, <2>5
<1>e. r.cut \in {"no", "uri", "tab", "protocol"}  BY DEF Request
<1> QED  BY <1>9, <1>10, <1>b, <1>c, <1>d, <1>e

(***************************************************************************)
(* What the statics can change                                             *)
(***************************************************************************)

(* Where the parser of a request alone is in its URI or its protocol: what *)
(* the next token can be.                                                  *)
LEMMA OpeningTokens ==
  ASSUME NEW r \in Request, NEW k \in Nat, k < Len(Bytes(r))
  PROVE  LET p == Parsed(Bytes(r))[k]
             t == Bytes(r)[k + 1]
         IN /\ p.step = "URI" =>
                 /\ p.protocol = <<>>
                 /\ p.uri = <<>> => t \in {"SP", r.uri}
                 /\ p.uri = <<>> /\ t = "SP" => ~SingleSpaced(r)
                 /\ t = "SP" \/ IsUriChar(t) \/ r.cut # "no"
                 /\ t = "SP" \/ IsUriChar(t) \/ t \in {"CR", "LF", "HT"}
            /\ p.step = "PROTOCOL" =>
                 /\ t \in {"SP", "HTTP", "SLASH", "CR", "LF"}
                 /\ t = "SP" => p.protocol = <<>> /\ ~SingleSpaced(r)
                 /\ t = "SLASH" => p.protocol = <<"HTTP">>
                 /\ t \in {"CR", "LF"} => r.cut # "no"
<1> DEFINE s == Bytes(r)
           T == Parsed(s)
           g == r.gap
           n == SpaceEnd(r)
           u == <<r.uri>>
           Inside == /\ T[k].step = "URI" =>
                          /\ T[k].protocol = <<>>
                          /\ T[k].uri = <<>> => s[k + 1] \in {"SP", r.uri}
                          /\ T[k].uri = <<>> /\ s[k + 1] = "SP" => ~SingleSpaced(r)
                          /\ s[k + 1] = "SP" \/ IsUriChar(s[k + 1]) \/ r.cut # "no"
                          /\ s[k + 1] = "SP" \/ IsUriChar(s[k + 1]) \/ s[k + 1] \in {"CR", "LF", "HT"}
                     /\ T[k].step = "PROTOCOL" =>
                          /\ s[k + 1] \in {"SP", "HTTP", "SLASH", "CR", "LF"}
                          /\ s[k + 1] = "SP" => T[k].protocol = <<>> /\ ~SingleSpaced(r)
                          /\ s[k + 1] = "SLASH" => T[k].protocol = <<"HTTP">>
                          /\ s[k + 1] \in {"CR", "LF"} => r.cut # "no"
<1> SUFFICES Inside  OBVIOUS
<1>1. /\ g \in Nat /\ n \in Nat /\ n >= g + 1 /\ s \in Seq(Token)
      /\ \A i \in 2..g + 1 : s[i] = "SP"
      /\ s[g + 2] = r.uri
      /\ r.cut \in {"uri", "tab"} => s[g + 3] \in {"CR", "LF", "HT"}
      /\ r.cut \notin {"uri", "tab"} => /\ \A i \in g + 3..n + 2 : s[i] = "SP"
                                       /\ s[n + 3] = "HTTP"
      /\ r.cut = "protocol" => s[n + 4] \in {"CR", "LF"}
      /\ r.cut = "no" => s[n + 4] = "SLASH"
  BY FirstTokens
<1>2. /\ T[0] = Fresh /\ Opened(T[1], r, "METHOD", <<>>, <<>>, <<>>)
      /\ g = 0 => Failed(T[2])
      /\ g # 0 => /\ \A i \in 2..g + 1 : Opened(T[i], r, "URI", <<>>, <<>>, <<>>)
                  /\ Opened(T[g + 2], r, "URI", u, <<>>, <<>>)
      /\ g # 0 /\ r.cut \in {"uri", "tab"} => Failed(T[g + 3])
      /\ g # 0 /\ r.cut \notin {"uri", "tab"} =>
           /\ \A i \in g + 3..n + 2 : Opened(T[i], r, "PROTOCOL", u, <<>>, <<>>)
           /\ Opened(T[n + 3], r, "PROTOCOL", u, <<"HTTP">>, <<>>)
      /\ g # 0 /\ r.cut = "protocol" => Failed(T[n + 4])
      /\ g # 0 /\ r.cut = "no" => Opened(T[n + 4], r, "VERSION", u, <<"HTTP">>, <<>>)
  BY FirstTurns
<1>3. IsUriChar(r.uri) /\ r.uri # "SP"  BY DEF Request, IsUriChar, Uris, Controls
<1>4. "END" \notin Opening /\ "VERSION" \notin Opening /\ {"URI", "PROTOCOL"} \subseteq Opening
  BY DEF Opening
<1>a. u # <<>> /\ r.cut \in {"no", "uri", "tab", "protocol"}  BY DEF Request
<1>b. SingleSpaced(r) => g <= 1 /\ n = g + 1  BY <1>1 DEF SingleSpaced, SpaceEnd
<1>6. Len(s) \in Nat /\ k + 1 <= Len(s) /\ k <= Len(s)
  BY <1>1
<1>5. \A i \in Nat : i <= k /\ T[i].step \notin Opening => T[k].step \notin Opening
  <2> TAKE i \in Nat
  <2> HAVE i <= k /\ T[i].step \notin Opening
  <2>1. i \in 0..Len(s) /\ k \in i..Len(s)  BY <1>6
  <2> QED  BY <1>1, <2>1, StaysLate
<1> HIDE DEF s, T, g, u, n
<1>7. ASSUME T[k].step \notin {"URI", "PROTOCOL"} PROVE Inside  BY <1>7
<1> HIDE DEF Inside
<1>8. ASSUME NEW i \in Nat, i <= k, T[i].step \notin Opening PROVE Inside
  BY <1>4, <1>5, <1>7, <1>8
<1>9. CASE k \in {0, 1}
  <2>1. T[0].step = "INIT" /\ T[1].step = "METHOD"  BY <1>2 DEF Fresh, Opened
  <2> QED  BY <1>7, <1>9, <2>1
<1>10. CASE g = 0 /\ k >= 2
  <2>1. T[2].step \notin Opening  BY <1>2, <1>4, <1>10 DEF Failed
  <2> QED  BY <1>8, <1>10, <2>1
<1>11. CASE g # 0 /\ k \in 2..g + 1
  <2>1. T[k].step = "URI" /\ T[k].uri = <<>> /\ T[k].protocol = <<>>
    BY <1>2, <1>11 DEF Opened
  <2>2. s[k + 1] = r.uri \/ (s[k + 1] = "SP" /\ g >= 2)
    <3>1. CASE k = g + 1
      <4>1. k + 1 = g + 2  BY <1>1, <3>1
      <4> QED  BY <1>1, <4>1
    <3>2. CASE k # g + 1
      <4>1. k + 1 \in 2..g + 1 /\ g >= 2  BY <1>1, <1>11, <3>2
      <4> QED  BY <1>1, <4>1
    <3> QED  BY <3>1, <3>2
  <2>3. s[k + 1] = "SP" => ~SingleSpaced(r)
    <3>1. g >= 2 => ~(g <= 1)  BY <1>1
    <3> QED  BY <1>3, <1>b, <2>2, <3>1
  <2> QED  BY <1>3, <2>1, <2>2, <2>3 DEF Inside
<1>12. CASE g # 0 /\ k = g + 2
  <2>1. T[k].step = "URI" /\ T[k].uri # <<>> /\ T[k].protocol = <<>>
    BY <1>2, <1>12, <1>a DEF Opened
  <2>2. k + 1 = g + 3  BY <1>1, <1>12
  <2>3. r.cut \notin {"uri", "tab"} => s[k + 1] = "SP"
    <3>1. g + 3 \in g + 3..n + 2  BY <1>1
    <3> QED  BY <1>1, <2>2, <3>1
  <2>4. r.cut \in {"uri", "tab"} => s[k + 1] \in {"CR", "LF", "HT"} /\ r.cut # "no"
    BY <1>1, <2>2
  <2> QED  BY <2>1, <2>3, <2>4 DEF Inside
<1>13. CASE g # 0 /\ k >= g + 3 /\ r.cut \in {"uri", "tab"}
  <2>1. T[g + 3].step \notin Opening  BY <1>2, <1>4, <1>13 DEF Failed
  <2>2. g + 3 \in Nat  BY <1>1
  <2> QED  BY <1>8, <1>13, <2>1, <2>2
<1>14. CASE g # 0 /\ k \in g + 3..n + 2 /\ r.cut \notin {"uri", "tab"}
  <2>1. T[k].step = "PROTOCOL" /\ T[k].protocol = <<>>  BY <1>2, <1>14 DEF Opened
  <2>2. s[k + 1] = "HTTP" \/ (s[k + 1] = "SP" /\ n # g + 1)
    <3>1. CASE k = n + 2
      <4>1. k + 1 = n + 3  BY <1>1, <3>1
      <4> QED  BY <1>1, <1>14, <4>1
    <3>2. CASE k # n + 2
      <4>1. k + 1 \in g + 3..n + 2 /\ n # g + 1  BY <1>1, <1>14, <3>2
      <4> QED  BY <1>1, <1>14, <4>1
    <3> QED  BY <3>1, <3>2
  <2> QED  BY <1>b, <2>1, <2>2 DEF Inside
<1>15. CASE g # 0 /\ k = n + 3 /\ r.cut \notin {"uri", "tab"}
  <2>1. T[k].step = "PROTOCOL" /\ T[k].protocol = <<"HTTP">>  BY <1>2, <1>15 DEF Opened
  <2>2. k + 1 = n + 4  BY <1>1, <1>15
  <2>3. \/ r.cut = "no" /\ s[k + 1] = "SLASH"
        \/ r.cut # "no" /\ s[k + 1] \in {"CR", "LF"}
    BY <1>1, <1>15, <1>a, <2>2
  <2> QED  BY <2>1, <2>3 DEF Inside
<1>16. CASE g # 0 /\ k >= n + 4 /\ r.cut \notin {"uri", "tab"}
  <2>1. T[n + 4].step \notin Opening
    BY <1>2, <1>4, <1>16, <1>a DEF Failed, Opened
  <2>2. n + 4 \in Nat  BY <1>1
  <2> QED  BY <1>8, <1>16, <2>1, <2>2
<1>17. k \in {0, 1, g + 2} \cup 2..g + 1 \cup g + 3..n + 2 \cup {n + 3} \/ k >= n + 4
  BY <1>1
<1>18. k \in {0, 1} \/ k >= 2  OBVIOUS
<1>19. k \in {0, 1} \cup 2..g + 1 \cup {g + 2} \/ k >= g + 3  BY <1>1
<1> QED  BY <1>9, <1>10, <1>11, <1>12, <1>13, <1>14, <1>15, <1>16, <1>17, <1>18, <1>19

(* Whatever the statics hold, a parser comes to its URI with nothing of it *)
(* read, and stays in it by a character of the URI or by a leading space.  *)
LEMMA UriBegins ==
  ASSUME NEW p \in ParserType, NEW t \in Token, NEW init1 \in BOOLEAN, NEW init2 \in BOOLEAN,
         p.step \in {"INIT", "METHOD"} => p.uri = <<>>
  PROVE  LET q == Dispatch(p, t, init1, init2)
         IN /\ q.step \in {"INIT", "METHOD"} => q.uri = <<>>
            /\ p.step # "URI" /\ q.step = "URI" => q.uri = <<>>
            /\ p.step = "URI" /\ q.step = "URI" => \/ t = "SP" /\ init1 /\ q = p
                                                   \/ IsUriChar(t) /\ t # "SP"
            /\ p.step # "URI" /\ p.step # "PROTOCOL" => q.step # "PROTOCOL"
<1> DEFINE q == Dispatch(p, t, init1, init2)
<1>1. \A x \in ParserType : Fail(x, 400).step = "END"  BY DEF Fail, ParserType
<1>2. ASSUME NEW x \in ParserType, x.step = "METHOD", x.uri = <<>>
      PROVE  /\ Method(x, t).step \in {"INIT", "METHOD", "URI"} => Method(x, t).uri = <<>>
             /\ Method(x, t).step # "PROTOCOL"
  <2>1. [x EXCEPT !.method = Append(@, t)].step = "METHOD"
        /\ [x EXCEPT !.method = Append(@, t)].uri = <<>>
    BY <1>2 DEF ParserType
  <2>2. Goto(x, "URI").step = "URI" /\ Goto(x, "URI").uri = <<>>  BY <1>2 DEF Goto, ParserType
  <2> QED  BY <1>1, <2>1, <2>2 DEF Method
<1>3. CASE p.step = "INIT"
  <2>1. q = Method([Fresh EXCEPT !.step = "METHOD"], t)
    BY <1>3 DEF Dispatch, ParseInit, AfterCr
  <2>2. [Fresh EXCEPT !.step = "METHOD"] \in ParserType
    BY FreshType DEF ParserType, Steps
  <2>3. /\ [Fresh EXCEPT !.step = "METHOD"].step = "METHOD"
        /\ [Fresh EXCEPT !.step = "METHOD"].uri = <<>>
    BY DEF Fresh
  <2> HIDE DEF q
  <2> QED  BY <1>2, <1>3, <2>1, <2>2, <2>3 DEF q
<1>4. CASE p.step = "METHOD"
  <2>1. q = Method(p, t)  BY <1>4 DEF Dispatch, AfterCr
  <2> HIDE DEF q
  <2> QED  BY <1>2, <1>4, <2>1 DEF q
<1>5. CASE p.step = "URI"
  <2>1. q = Uri(p, t, init1)  BY <1>5 DEF Dispatch, AfterCr
  <2>2. Goto(p, "PROTOCOL").step = "PROTOCOL"  BY DEF Goto, ParserType
  <2>3. "SP" \notin {x \in Token : IsUriChar(x)}  BY DEF IsUriChar
  <2>4. \/ t = "SP" /\ init1 /\ q = p
        \/ IsUriChar(t) /\ t # "SP" /\ q = [p EXCEPT !.uri = Append(@, t)]
        \/ q.step \in {"PROTOCOL", "END"}
    <3> HIDE DEF q
    <3> QED  BY <1>1, <2>1, <2>2, <2>3 DEF Uri
  <2>5. [p EXCEPT !.uri = Append(@, t)].step = "URI"  BY <1>5 DEF ParserType
  <2> HIDE DEF q
  <2> QED  BY <1>5, <2>4, <2>5 DEF q
<1>6. CASE p.step = "PROTOCOL"
  <2>1. q = Protocol(p, t, init2)  BY <1>6 DEF Dispatch, AfterCr
  <2>2. /\ Goto(p, "VERSION").step = "VERSION"
        /\ [p EXCEPT !.protocol = Append(@, t)].step = "PROTOCOL"
    BY <1>6 DEF Goto, ParserType
  <2>3. q.step \in {"PROTOCOL", "VERSION", "END"}
    <3> HIDE DEF q
    <3> QED  BY <1>1, <1>6, <2>1, <2>2 DEF Protocol
  <2> HIDE DEF q
  <2> QED  BY <1>6, <2>3 DEF q
<1>7. CASE p.step \notin Opening
  <2>1. q.step \notin Opening  BY <1>7, NoWayBack
  <2> HIDE DEF q
  <2> QED  BY <1>7, <2>1 DEF Opening, q
<1> QED  BY <1>3, <1>4, <1>5, <1>6, <1>7 DEF Opening

(***************************************************************************)
(* Every parser follows its request                                        *)
(***************************************************************************)

(* The parser of c is where it would be had it read its request alone and  *)
(* at once, except that the read that ends a body with a length ends the   *)
(* request; and its request has not ended before.                          *)
Follows(c) ==
  LET T == Parsed(input[c])
      q == T[pos[c]]
  IN /\ pos[c] <= Len(input[c])
     /\ \/ parser[c] = q
        \/ q.step = "BODY_LENGTH_END" /\ parser[c] = [q EXCEPT !.step = "END"]
     /\ \A k \in 0..pos[c] - 1 : T[k].step # "END"

(* The parser of c has taken a space before the URI for its end, and what  *)
(* comes next is a space again or the URI, which ends the request.         *)
Astray(c) ==
  LET q == Parsed(input[c])[pos[c]]
  IN /\ pos[c] <= Len(input[c])
     /\ parser[c].step = "PROTOCOL" /\ parser[c].protocol = <<>>
     /\ q.step = "URI" /\ q.uri = <<>>

(* The request of c has more spaces than one, and what a broken request    *)
(* line left in the statics has disturbed it.                              *)
Lost(c) ==
  /\ LineBroken /\ ~SingleSpaced(sent[c])
  /\ WellFormed(sent[c]) => parser[c].step = "END" \/ Astray(c)

(* While one connection is read, no other is in a request line.            *)
Alone == \A c \in Conns : reading = c => \A d \in Conns \ {c} : ~InFirstLine(parser[d])

MidUri(c) == parser[c].step = "URI" /\ parser[c].uri # <<>>
MidProtocol(c) == parser[c].step = "PROTOCOL" /\ parser[c].protocol # <<>>

(* The statics are off while a connection is in its URI or its protocol,   *)
(* and otherwise only after a broken request line.                         *)
FlagTells ==
  /\ \A c \in Conns : parser[c].step \in {"INIT", "METHOD"} => parser[c].uri = <<>>
  /\ \A c \in Conns : MidUri(c) => ~init_uri
  /\ ~LineBroken => /\ ~init_uri => \E c \in Conns : MidUri(c)
                    /\ ~init_protocol => \E c \in Conns : MidProtocol(c)

(* A request is parsed as if it were alone; except that one with more      *)
(* spaces than one may be refused after a broken request line.             *)
Undisturbed == Alone /\ FlagTells /\ \A c \in Conns : Follows(c) \/ Lost(c)

(* At first nothing has been read.                                         *)
LEMMA InitUndisturbed == Init /\ SentStays => Undisturbed
<1> SUFFICES ASSUME Init, SentStays PROVE Undisturbed  OBVIOUS
<1>1. \A c \in Conns : parser[c] = Fresh /\ pos[c] = 0 /\ reading # c
  BY ParserAssumption DEF Init
<1>2. \A c \in Conns : input[c] \in Seq(Token)  BY BytesType DEF SentStays
<1>3. \A c \in Conns : Follows(c)
  <2> TAKE c \in Conns
  <2>1. Parsed(input[c])[0] = Fresh /\ 0 <= Len(input[c])  BY <1>2, ParsedSteps
  <2> QED  BY <1>1, <2>1 DEF Follows
<1>4. init_uri = TRUE /\ init_protocol = TRUE  BY DEF Init
<1> QED  BY <1>1, <1>3, <1>4 DEF Undisturbed, Alone, FlagTells, MidUri, MidProtocol, Fresh

(* A broken request line stays broken: its request has ended.              *)
LEMMA BrokenStays ==
  ASSUME TypeOK, \A c \in Conns : InStep(c), LineBroken, [Next]_vars
  PROVE  LineBroken'
<1>1. PICK d \in Conns : sent[d].cut # "no" /\ parser[d].status # 0  BY DEF LineBroken
<1>2. parser[d].step = "END" /\ ready[d]  BY <1>1 DEF InStep, Sound
<1>3. sent' = sent  BY DEF Next, StartRead, ParseByte, EndRead, vars
<1>4. parser'[d] = parser[d]
  <2>1. ASSUME NEW c \in Conns, StartRead(c) PROVE parser'[d] = parser[d]
    BY <2>1 DEF StartRead
  <2>2. ASSUME NEW c \in Conns, ParseByte(c) PROVE parser'[d] = parser[d]
    <3>1. c # d  BY <1>2, <2>2 DEF ParseByte
    <3> QED  BY <2>2, <3>1 DEF ParseByte, TypeOK
  <2>3. ASSUME NEW c \in Conns, EndRead(c) PROVE parser'[d] = parser[d]
    <3>1. CASE parser[c].step = "BODY_LENGTH_END"
      <4>1. c # d  BY <1>2, <3>1
      <4>2. parser' = [parser EXCEPT ![c].step = "END"]  BY <2>3, <3>1 DEF EndRead
      <4> QED  BY <4>1, <4>2 DEF TypeOK
    <3>2. CASE parser[c].step # "BODY_LENGTH_END"  BY <2>3, <3>2 DEF EndRead
    <3> QED  BY <3>1, <3>2
  <2>4. CASE UNCHANGED vars  BY <2>4 DEF vars
  <2> QED  BY <2>1, <2>2, <2>3, <2>4 DEF Next
<1> QED  BY <1>1, <1>3, <1>4 DEF LineBroken

(* One byte of a request that is parsed as if it were alone: it stays so,  *)
(* or the statics of a broken line have disturbed it.                      *)
LEMMA ByteFollows ==
  ASSUME TypeOK, SentStays, Undisturbed, \A c \in Conns : InStep(c),
         NEW c \in Conns, ParseByte(c), Follows(c)
  PROVE  /\ (Follows(c) \/ Lost(c))'
         /\ Follows(c)' \/ LineBroken
         /\ init_protocol' \/ LineBroken' \/ MidProtocol(c)'
<1> DEFINE s == input[c]
           k == pos[c]
           T == Parsed(s)
           p == parser[c]
           t == s[k + 1]
           r == sent[c]
           q == Dispatch(p, t, init_uri, init_protocol)
<1>1. s \in Seq(Token) /\ r \in Request /\ s = Bytes(r) /\ p \in ParserType
  BY BytesType DEF SentStays, TypeOK
<1>2. k \in Nat /\ k < Len(s) /\ reading = c /\ ~ready[c]  BY DEF TypeOK, ParseByte, More
<1>3. /\ init_protocol' = IF p.step = "PROTOCOL" THEN ProtocolFlag(p, t, init_protocol)
                                                 ELSE init_protocol
      /\ input' = input /\ sent' = sent
  BY DEF ParseByte
<1>4. parser'[c] = q /\ pos'[c] = k + 1
  <2>1. parser' = [parser EXCEPT ![c] = q] /\ pos' = [pos EXCEPT ![c] = @ + 1]
    BY DEF ParseByte
  <2> HIDE DEF q
  <2> QED  BY <2>1 DEF TypeOK
<1>5. p.step # "END" /\ p = T[k] /\ \A i \in 0..k - 1 : T[i].step # "END"
  <2>1. p.step # "END"  BY <1>2 DEF InStep
  <2>3. \/ p = T[k]
        \/ T[k].step = "BODY_LENGTH_END" /\ p = [T[k] EXCEPT !.step = "END"]
    BY DEF Follows
  <2>4. T[k] \in ParserType  BY <1>1, <1>2, Along
  <2>5. [T[k] EXCEPT !.step = "END"].step = "END"  BY <2>4 DEF ParserType
  <2>6. \A i \in 0..k - 1 : T[i].step # "END"  BY DEF Follows
  <2> QED  BY <2>1, <2>3, <2>5, <2>6
<1>6. /\ p.step = "URI" =>
           /\ p.protocol = <<>>
           /\ p.uri = <<>> => t \in {"SP", r.uri}
           /\ p.uri = <<>> /\ t = "SP" => ~SingleSpaced(r)
           /\ t = "SP" \/ IsUriChar(t) \/ r.cut # "no"
           /\ t = "SP" \/ IsUriChar(t) \/ t \in {"CR", "LF", "HT"}
      /\ p.step = "PROTOCOL" =>
           /\ t \in {"SP", "HTTP", "SLASH", "CR", "LF"}
           /\ t = "SP" => p.protocol = <<>> /\ ~SingleSpaced(r)
           /\ t = "SLASH" => p.protocol = <<"HTTP">>
           /\ t \in {"CR", "LF"} => r.cut # "no"
  BY <1>1, <1>2, <1>5, OpeningTokens
<1>7. T[k + 1] = Turn(p, t) /\ T[k + 1] \in ParserType  BY <1>1, <1>2, <1>5, Along
<1>8. \A d \in Conns \ {c} : ~MidUri(d) /\ ~MidProtocol(d)
  BY <1>2 DEF Undisturbed, Alone, InFirstLine, MidUri, MidProtocol
<1>9. LineBroken => LineBroken'  BY BrokenStays DEF Next
<1> HIDE DEF T, s, k, t
<1>10. Turn(p, t) = Dispatch(p, t, p.uri = <<>>, p.protocol = <<>>)  BY <1>5 DEF Turn
<1>11. q = Turn(p, t) => Follows(c)'
  <2> SUFFICES ASSUME q = Turn(p, t) PROVE Follows(c)'  OBVIOUS
  <2>1. pos'[c] = k + 1 /\ input'[c] = s /\ parser'[c] = T[k + 1]
    BY <1>3, <1>4, <1>7 DEF s
  <2>2. k + 1 <= Len(s)  BY <1>1, <1>2
  <2>3. \A i \in 0..(k + 1) - 1 : T[i].step # "END"
    <3> TAKE i \in 0..(k + 1) - 1
    <3>1. i \in 0..k - 1 \/ i = k  BY <1>2
    <3> QED  BY <1>5, <3>1
  <2> HIDE DEF q
  <2> QED  BY <2>1, <2>2, <2>3 DEF Follows, T
<1>a. Fail(p, 400).step = "END" /\ Fail(p, 400).status # 0  BY <1>1 DEF Fail, ParserType
<1>12. ASSUME p.step = "URI"
       PROVE  /\ (Follows(c) \/ Lost(c))' /\ (Follows(c)' \/ LineBroken)
              /\ init_protocol' \/ LineBroken' \/ MidProtocol(c)'
  <2>1. q = Uri(p, t, init_uri) /\ Turn(p, t) = Uri(p, t, p.uri = <<>>)
    BY <1>10, <1>12 DEF Dispatch, AfterCr
  <2>a. init_protocol' \/ LineBroken'
    <3>1. init_protocol' = init_protocol  BY <1>3, <1>12
    <3>2. ~MidProtocol(c)  BY <1>12 DEF MidProtocol
    <3> QED  BY <1>8, <1>9, <3>1, <3>2 DEF Undisturbed, FlagTells
  <2>2. CASE t # "SP" \/ (init_uri <=> p.uri = <<>>)
    <3>1. q = Turn(p, t)
      <4>1. CASE t # "SP"
        <5> HIDE DEF q, p
        <5> QED  BY <2>1, <4>1 DEF Uri
      <4>2. CASE init_uri <=> p.uri = <<>>
        <5> HIDE DEF q, p
        <5> QED  BY <2>1, <4>2 DEF Uri
      <4> QED  BY <2>2, <4>1, <4>2
    <3> QED  BY <1>11, <2>a, <3>1
  <2>3. CASE t = "SP" /\ ~(init_uri <=> p.uri = <<>>)
    <3>1. p.uri = <<>> /\ ~init_uri
      <4>1. p.uri # <<>> => ~init_uri  BY <1>12 DEF Undisturbed, FlagTells, MidUri
      <4> QED  BY <2>3, <4>1
    <3>2. LineBroken
      <4>1. \A d \in Conns : ~MidUri(d)  BY <1>8, <3>1 DEF MidUri
      <4> QED  BY <3>1, <4>1 DEF Undisturbed, FlagTells
    <3>3. q = Goto(p, "PROTOCOL")
      <4>1. ~IsUriChar("SP")  BY DEF IsUriChar
      <4> HIDE DEF q, p
      <4> QED  BY <2>1, <2>3, <3>1, <4>1 DEF Uri
    <3>4. q.step = "PROTOCOL" /\ q.protocol = <<>>
      <4>1. Goto(p, "PROTOCOL").step = "PROTOCOL" /\ Goto(p, "PROTOCOL").protocol = p.protocol
        BY <1>1 DEF Goto, ParserType
      <4> HIDE DEF q
      <4> QED  BY <1>6, <1>12, <3>3, <4>1
    <3>5. T[k + 1].step = "URI" /\ T[k + 1].uri = <<>>
      <4>1. Uri(p, "SP", TRUE) = p  BY DEF Uri, IsUriChar
      <4>2. (p.uri = <<>>) = TRUE  BY <3>1
      <4>3. T[k + 1] = p  BY <1>7, <2>1, <2>3, <4>1, <4>2
      <4> QED  BY <1>12, <3>1, <4>3
    <3>6. Astray(c)'
      <4>1. pos'[c] = k + 1 /\ input'[c] = s /\ k + 1 <= Len(s) /\ parser'[c] = q
        BY <1>1, <1>2, <1>3, <1>4 DEF s
      <4> HIDE DEF q
      <4> QED  BY <3>4, <3>5, <4>1 DEF Astray, T
    <3>7. ~SingleSpaced(sent[c])'  BY <1>3, <1>6, <1>12, <2>3, <3>1
    <3>8. Lost(c)'  BY <1>9, <3>2, <3>6, <3>7 DEF Lost
    <3> QED  BY <2>a, <3>2, <3>8
  <2> QED  BY <2>2, <2>3
<1>13. ASSUME p.step = "PROTOCOL"
       PROVE  /\ (Follows(c) \/ Lost(c))' /\ (Follows(c)' \/ LineBroken)
              /\ init_protocol' \/ LineBroken' \/ MidProtocol(c)'
  <2>1. q = Protocol(p, t, init_protocol) /\ Turn(p, t) = Protocol(p, t, p.protocol = <<>>)
    BY <1>10, <1>13 DEF Dispatch, AfterCr
  <2>2. init_protocol' = ProtocolFlag(p, t, init_protocol)  BY <1>3, <1>13
  <2>3. CASE t = "SP"
    <3>1. p.protocol = <<>> /\ ~SingleSpaced(r)  BY <1>6, <1>13, <2>3
    <3>2. init_protocol' = init_protocol
      <4>1. ~StartsWithSlash("SP")  BY DEF StartsWithSlash, Uris
      <4> QED  BY <2>2, <2>3, <4>1 DEF ProtocolFlag
    <3>3. init_protocol \/ LineBroken
      <4>1. \A d \in Conns : ~MidProtocol(d)  BY <1>8, <3>1 DEF MidProtocol
      <4> QED  BY <4>1 DEF Undisturbed, FlagTells
    <3>4. CASE init_protocol
      <4>1. q = Turn(p, t)
        <5>1. (p.protocol = <<>>) = TRUE /\ init_protocol = TRUE  BY <3>1, <3>4 DEF TypeOK
        <5> HIDE DEF q
        <5> QED  BY <2>1, <5>1
      <4> QED  BY <1>11, <3>2, <3>4, <4>1
    <3>5. CASE ~init_protocol
      <4>1. q = Fail(p, 400)  BY <2>1, <2>3, <3>5 DEF Protocol
      <4>2. parser'[c].step = "END"
        <5> HIDE DEF q
        <5> QED  BY <1>4, <1>a, <4>1
      <4>3. Lost(c)'  BY <1>3, <1>9, <3>1, <3>3, <3>5, <4>2 DEF Lost
      <4> QED  BY <1>9, <3>3, <3>5, <4>3
    <3> QED  BY <3>4, <3>5
  <2>4. CASE t # "SP"
    <3>1. q = Turn(p, t)
      <4> HIDE DEF p, q
      <4> QED  BY <2>1, <2>4 DEF Protocol
    <3>2. CASE t = "HTTP"
      <4>1. t # "SLASH" /\ t \notin {"CR", "LF"} \cup Uris  BY <3>2 DEF Uris
      <4>2. q = [p EXCEPT !.protocol = Append(@, t)]  BY <2>1, <2>4, <4>1 DEF Protocol
      <4>3. q.step = "PROTOCOL" /\ q.protocol = Append(p.protocol, t)
        <5>1. /\ [p EXCEPT !.protocol = Append(@, t)].step = p.step
              /\ [p EXCEPT !.protocol = Append(@, t)].protocol = Append(p.protocol, t)
          BY <1>1 DEF ParserType
        <5> HIDE DEF q
        <5> QED  BY <1>13, <4>2, <5>1
      <4>4. Append(p.protocol, t) # <<>>
        <5>1. p.protocol \in Seq(Token) /\ t \in Token
          BY <1>1, <1>2 DEF ParserType, t
        <5> HIDE DEF p
        <5> QED  BY <5>1, AppendNotEmpty
      <4>5. MidProtocol(c)'
        <5> HIDE DEF q
        <5> QED  BY <1>4, <4>3, <4>4 DEF MidProtocol
      <4> QED  BY <1>11, <3>1, <4>5
    <3>3. CASE t = "SLASH"
      <4>1. init_protocol' = (init_protocol \/ p.protocol = <<"HTTP">>)
        BY <2>2, <3>3 DEF ProtocolFlag, StartsWithSlash
      <4> QED  BY <1>6, <1>11, <1>13, <3>1, <3>3, <4>1
    <3>4. CASE t \in {"CR", "LF"}
      <4>1. q = Fail(p, 400)  BY <2>1, <3>4 DEF Protocol
      <4>2. parser'[c].status # 0
        <5> HIDE DEF q
        <5> QED  BY <1>4, <1>a, <4>1
      <4>3. LineBroken'  BY <1>3, <1>6, <1>13, <3>4, <4>2 DEF LineBroken
      <4> QED  BY <1>11, <3>1, <4>3
    <3> QED  BY <1>6, <1>13, <2>4, <3>2, <3>3, <3>4
  <2> QED  BY <2>3, <2>4
<1>14. ASSUME p.step \notin {"URI", "PROTOCOL"}
       PROVE  /\ (Follows(c) \/ Lost(c))' /\ (Follows(c)' \/ LineBroken)
              /\ init_protocol' \/ LineBroken' \/ MidProtocol(c)'
  <2>1. q = Turn(p, t)
    <3> HIDE DEF p
    <3> QED  BY <1>10, <1>14 DEF Dispatch
  <2>2. init_protocol' = init_protocol /\ ~MidProtocol(c)
    BY <1>3, <1>14 DEF MidProtocol
  <2>3. init_protocol' \/ LineBroken'
    BY <1>8, <1>9, <2>2 DEF Undisturbed, FlagTells
  <2> QED  BY <1>11, <2>1, <2>3
<1> QED  BY <1>12, <1>13, <1>14

(* One byte of a request that was disturbed.                               *)
LEMMA ByteLost ==
  ASSUME TypeOK, SentStays, \A c \in Conns : InStep(c), NEW c \in Conns, ParseByte(c), Lost(c)
  PROVE  Lost(c)'
<1> DEFINE s == input[c]
           k == pos[c]
           T == Parsed(s)
           p == parser[c]
           t == s[k + 1]
           r == sent[c]
           q == Dispatch(p, t, init_uri, init_protocol)
<1>1. s \in Seq(Token) /\ r \in Request /\ s = Bytes(r) /\ p \in ParserType
  BY BytesType DEF SentStays, TypeOK
<1>2. k \in Nat /\ k < Len(s) /\ ~ready[c]  BY DEF TypeOK, ParseByte, More
<1>3. input' = input /\ sent' = sent  BY DEF ParseByte
<1>4. parser'[c] = q /\ pos'[c] = k + 1
  <2>1. parser' = [parser EXCEPT ![c] = q] /\ pos' = [pos EXCEPT ![c] = @ + 1]
    BY DEF ParseByte
  <2> HIDE DEF q
  <2> QED  BY <2>1 DEF TypeOK
<1>5. LineBroken'  BY BrokenStays DEF Next, Lost
<1>6. ASSUME WellFormed(r) PROVE parser'[c].step = "END" \/ Astray(c)'
  <2>1. Astray(c)  BY <1>2, <1>6 DEF Lost, InStep
  <2>2. p.step = "PROTOCOL" /\ p.protocol = <<>> /\ T[k].step = "URI" /\ T[k].uri = <<>>
    BY <2>1 DEF Astray
  <2>3. t \in {"SP", r.uri}  BY <1>1, <1>2, <2>2, OpeningTokens
  <2>4. q = Protocol(p, t, init_protocol)  BY <2>2 DEF Dispatch, AfterCr
  <2>5. Fail(p, 400).step = "END"  BY <1>1 DEF Fail, ParserType
  <2>6. CASE t = "SP"
    <3>1. q = p \/ q = Fail(p, 400)
      <4> HIDE DEF p, q, t
      <4> QED  BY <2>4, <2>6 DEF Protocol
    <3>2. T[k + 1] = T[k]
      <4>1. T[k + 1] = Turn(T[k], t)  BY <1>1, <1>2, Along
      <4>2. Turn(T[k], "SP") = Uri(T[k], "SP", T[k].uri = <<>>)  BY <2>2 DEF Turn, Dispatch, AfterCr
      <4>3. Uri(T[k], "SP", TRUE) = T[k]  BY DEF Uri, IsUriChar
      <4>4. (T[k].uri = <<>>) = TRUE  BY <2>2
      <4> HIDE DEF T, t
      <4> QED  BY <2>6, <4>1, <4>2, <4>3, <4>4
    <3>3. CASE q = p
      <4>1. pos'[c] = k + 1 /\ input'[c] = s /\ k + 1 <= Len(s) /\ parser'[c] = p
        BY <1>1, <1>2, <1>3, <1>4, <3>3
      <4> HIDE DEF p, s, k, q
      <4> QED  BY <2>2, <3>2, <4>1 DEF Astray
    <3>4. CASE q = Fail(p, 400)
      <4> HIDE DEF q
      <4> QED  BY <1>4, <2>5, <3>4
    <3> QED  BY <3>1, <3>3, <3>4
  <2>7. CASE t = r.uri
    <3>1. t \in Uris /\ t # "SP" /\ t # "SLASH"  BY <1>6, <2>7 DEF WellFormed, Uris
    <3>2. q = Fail(p, 400)
      <4> HIDE DEF p, q, t
      <4> QED  BY <2>4, <3>1 DEF Protocol
    <3> HIDE DEF q
    <3> QED  BY <1>4, <2>5, <3>2
  <2> QED  BY <2>3, <2>6, <2>7
<1>7. ~SingleSpaced(r) /\ sent'[c] = r  BY <1>3 DEF Lost
<1> QED  BY <1>5, <1>6, <1>7 DEF Lost

(* One byte: what the statics hold is what they would hold for this        *)
(* request alone, unless a line has been broken.                           *)
LEMMA ByteUndisturbed ==
  ASSUME TypeOK, SentStays, Undisturbed, \A c \in Conns : InStep(c),
         NEW c \in Conns, ParseByte(c)
  PROVE  Undisturbed'
<1> DEFINE p == parser[c]
           t == input[c][pos[c] + 1]
           q == Dispatch(p, t, init_uri, init_protocol)
<1>1. p \in ParserType /\ t \in Token /\ init_uri \in BOOLEAN /\ init_protocol \in BOOLEAN
  BY DEF TypeOK, ParseByte, More
<1>2. reading = c  BY DEF ParseByte
<1>3. /\ init_uri' = IF p.step = "URI" THEN UriFlag(t, init_uri) ELSE init_uri
      /\ input' = input /\ reading' = reading /\ sent' = sent
  BY DEF ParseByte
<1>4. /\ parser'[c] = q
      /\ \A d \in Conns \ {c} : parser'[d] = parser[d] /\ pos'[d] = pos[d]
  <2>1. parser' = [parser EXCEPT ![c] = q] /\ pos' = [pos EXCEPT ![c] = @ + 1]
    BY DEF ParseByte
  <2> HIDE DEF q
  <2> QED  BY <2>1 DEF TypeOK
<1>5. /\ q.step \in {"INIT", "METHOD"} => q.uri = <<>>
      /\ p.step # "URI" /\ q.step = "URI" => q.uri = <<>>
      /\ p.step = "URI" /\ q.step = "URI" => \/ t = "SP" /\ init_uri /\ q = p
                                             \/ IsUriChar(t) /\ t # "SP"
  BY <1>1, UriBegins DEF Undisturbed, FlagTells
<1>6. \A d \in Conns \ {c} : ~InFirstLine(parser[d])  BY <1>2 DEF Undisturbed, Alone
<1>7. LineBroken => LineBroken'  BY BrokenStays DEF Next
<1>8. Follows(c) \/ Lost(c)  BY DEF Undisturbed
<1>9. (Follows(c) \/ Lost(c))'  BY <1>8, ByteFollows, ByteLost
<1>10. ASSUME ~LineBroken' PROVE Follows(c) /\ Follows(c)'
  <2>1. ~LineBroken  BY <1>7, <1>10
  <2> QED  BY <1>8, <2>1, ByteFollows DEF Lost
<1> HIDE DEF q, t
<1>11. MidUri(c)' => ~init_uri'
  <2> SUFFICES ASSUME q.step = "URI", q.uri # <<>> PROVE ~init_uri'
    BY <1>4 DEF MidUri
  <2>1. p.step = "URI"  BY <1>5
  <2>2. CASE t = "SP" /\ init_uri /\ q = p
    BY <2>1, <2>2 DEF Undisturbed, FlagTells, MidUri
  <2>3. CASE IsUriChar(t) /\ t # "SP"  BY <1>3, <2>1, <2>3 DEF UriFlag
  <2> QED  BY <1>5, <2>1, <2>2, <2>3
<1>12. \A d \in Conns \ {c} : MidUri(d)' => ~init_uri'
  BY <1>4, <1>6 DEF MidUri, InFirstLine
<1>13. ASSUME ~LineBroken', ~init_uri' PROVE MidUri(c)'
  <2>1. ~LineBroken /\ Follows(c)  BY <1>7, <1>10, <1>13
  <2>2. \A d \in Conns \ {c} : ~MidUri(d)  BY <1>6 DEF MidUri, InFirstLine
  <2>3. ~init_uri => MidUri(c)  BY <2>1, <2>2 DEF Undisturbed, FlagTells
  <2>4. p.step = "URI"  BY <1>3, <1>13, <2>3 DEF MidUri
  <2>5. ~UriFlag(t, init_uri) /\ t # "SP"
    <3>1. ~UriFlag(t, init_uri)  BY <1>3, <1>13, <2>4
    <3>2. UriFlag("SP", init_uri) = TRUE  BY DEF UriFlag, IsUriChar
    <3> QED  BY <3>1, <3>2
  <2>6. q = Uri(p, t, init_uri)  BY <2>4 DEF q, t, Dispatch, AfterCr
  <2>7. CASE IsUriChar(t)
    <3>1. q = [p EXCEPT !.uri = Append(@, t)]  BY <2>5, <2>6, <2>7 DEF Uri
    <3>2. q.step = "URI" /\ q.uri = Append(p.uri, t)  BY <1>1, <2>4, <3>1 DEF ParserType
    <3>3. Append(p.uri, t) # <<>>
      <4>1. p.uri \in Seq(Token)  BY <1>1 DEF ParserType
      <4> HIDE DEF p
      <4> QED  BY <1>1, <4>1, AppendNotEmpty
    <3> QED  BY <1>4, <3>2, <3>3 DEF MidUri
  <2>8. CASE ~IsUriChar(t)
    <3>1. q = Fail(p, 400)  BY <2>5, <2>6, <2>8 DEF Uri
    <3>2. q.status # 0  BY <1>1, <3>1 DEF Fail, ParserType
    <3>3. sent[c].cut # "no"
      <4>1. p = Parsed(input[c])[pos[c]]
        <5>1. Parsed(input[c])[pos[c]].step # "BODY_LENGTH_END" \/ p.step = "END"
          <6>1. input[c] \in Seq(Token) /\ pos[c] \in Nat /\ pos[c] < Len(input[c])
            BY DEF TypeOK, ParseByte, More
          <6> DEFINE P == Parsed(input[c])[pos[c]]
          <6>2. P \in ParserType  BY <6>1, Along
          <6>3. [P EXCEPT !.step = "END"].step = "END"  BY <6>2 DEF ParserType
          <6>4. p = P \/ (P.step = "BODY_LENGTH_END" /\ p = [P EXCEPT !.step = "END"])
            BY <2>1 DEF Follows
          <6>5. CASE p = P
            <7> HIDE DEF p, P
            <7> QED  BY <2>4, <6>5 DEF P
          <6>6. CASE P.step = "BODY_LENGTH_END" /\ p = [P EXCEPT !.step = "END"]
            <7> HIDE DEF p, P
            <7> QED  BY <6>3, <6>6
          <6> QED  BY <6>4, <6>5, <6>6
        <5> QED  BY <2>1, <2>4, <5>1 DEF Follows
      <4>2. /\ sent[c] \in Request /\ input[c] = Bytes(sent[c])
            /\ pos[c] \in Nat /\ pos[c] < Len(input[c])
        BY DEF SentStays, TypeOK, ParseByte, More
      <4> QED  BY <2>4, <2>5, <2>8, <4>1, <4>2, OpeningTokens DEF t
    <3>4. LineBroken'  BY <1>3, <1>4, <3>2, <3>3 DEF LineBroken
    <3> QED  BY <1>13, <3>4
  <2> QED  BY <2>7, <2>8
<1>14. ASSUME ~LineBroken', ~init_protocol' PROVE MidProtocol(c)'
  BY <1>10, <1>14, ByteFollows
<1>15. FlagTells'
  <2>1. \A d \in Conns : parser'[d].step \in {"INIT", "METHOD"} => parser'[d].uri = <<>>
    BY <1>4, <1>5 DEF Undisturbed, FlagTells
  <2> QED  BY <1>11, <1>12, <1>13, <1>14, <2>1 DEF FlagTells
<1>16. Alone'  BY <1>2, <1>3, <1>4, <1>6, ParserAssumption DEF Alone
<1>17. \A d \in Conns \ {c} : (Follows(d) \/ Lost(d))'
  <2> TAKE d \in Conns \ {c}
  <2>1. Follows(d) => Follows(d)'  BY <1>3, <1>4 DEF Follows
  <2>2. Lost(d) => Lost(d)'  BY <1>3, <1>4, <1>7 DEF Lost, Astray
  <2> QED  BY <2>1, <2>2 DEF Undisturbed
<1> QED  BY <1>9, <1>15, <1>16, <1>17 DEF Undisturbed

(* The end of a read.                                                      *)
LEMMA EndReadUndisturbed ==
  ASSUME TypeOK, SentStays, Undisturbed, \A c \in Conns : InStep(c),
         NEW c \in Conns, EndRead(c)
  PROVE  Undisturbed'
<1> DEFINE p == parser[c]
           T == Parsed(input[c])
           q == [p EXCEPT !.step = "END"]
<1>1. /\ input' = input /\ pos' = pos /\ init_uri' = init_uri /\ init_protocol' = init_protocol
      /\ sent' = sent /\ reading = c /\ reading' = NoConn
  BY DEF EndRead
<1>2. Alone'  BY <1>1, ParserAssumption DEF Alone
<1>3. CASE p.step # "BODY_LENGTH_END"
  <2>1. parser' = parser  BY <1>3 DEF EndRead
  <2>2. FlagTells'  BY <1>1, <2>1 DEF Undisturbed, FlagTells, MidUri, MidProtocol, LineBroken
  <2>3. \A d \in Conns : (Follows(d) \/ Lost(d))'
    BY <1>1, <2>1 DEF Undisturbed, Follows, Lost, Astray, LineBroken
  <2> QED  BY <1>2, <2>2, <2>3 DEF Undisturbed
<1>4. CASE p.step = "BODY_LENGTH_END"
  <2>1. parser' = [parser EXCEPT ![c].step = "END"]  BY <1>4 DEF EndRead
  <2>2. parser'[c] = q /\ \A d \in Conns \ {c} : parser'[d] = parser[d]
    BY <2>1 DEF TypeOK
  <2>3. p \in ParserType /\ q.step = "END" /\ q.status = p.status  BY DEF TypeOK, ParserType
  <2>a. \A d \in Conns : parser'[d].status = parser[d].status  BY <2>2, <2>3
  <2>b. LineBroken' <=> LineBroken  BY <1>1, <2>a DEF LineBroken
  <2> HIDE DEF q
  <2>4. FlagTells'
    <3>1. \A d \in Conns : /\ MidUri(d)' <=> MidUri(d)
                           /\ MidProtocol(d)' <=> MidProtocol(d)
                           /\ parser'[d].step \in {"INIT", "METHOD"} => parser'[d].uri = <<>>
      <4> TAKE d \in Conns
      <4>1. CASE d = c
        <5>1. parser'[c].step = "END"  BY <2>2, <2>3
        <5> QED  BY <1>4, <4>1, <5>1 DEF MidUri, MidProtocol
      <4>2. CASE d # c  BY <2>2, <4>2 DEF Undisturbed, FlagTells, MidUri, MidProtocol
      <4> QED  BY <4>1, <4>2
    <3> QED  BY <1>1, <2>b, <3>1 DEF Undisturbed, FlagTells
  <2>5. \A d \in Conns \ {c} : (Follows(d) \/ Lost(d))'
    <3> TAKE d \in Conns \ {c}
    <3>1. Follows(d) => Follows(d)'  BY <1>1, <2>2 DEF Follows
    <3>2. Lost(d) => Lost(d)'  BY <1>1, <2>2, <2>b DEF Lost, Astray
    <3> QED  BY <3>1, <3>2 DEF Undisturbed
  <2>6. ASSUME Follows(c) PROVE Follows(c)'
    <3>2. T[pos[c]] \in ParserType
      <4>1. input[c] \in Seq(Token) /\ pos[c] \in Nat  BY DEF TypeOK
      <4>2. pos[c] \in 0..Len(input[c])  BY <2>6, <4>1 DEF Follows
      <4> QED  BY <4>1, <4>2, ParsedSteps
    <3>3. [T[pos[c]] EXCEPT !.step = "END"].step = "END"  BY <3>2 DEF ParserType
    <3>4. p = T[pos[c]]
      <4>1. \/ p = T[pos[c]] \/ p = [T[pos[c]] EXCEPT !.step = "END"]  BY <2>6 DEF Follows
      <4> HIDE DEF T, p
      <4> QED  BY <1>4, <3>3, <4>1
    <3>5. /\ T[pos[c]].step = "BODY_LENGTH_END"
          /\ parser'[c] = [T[pos[c]] EXCEPT !.step = "END"]
      BY <1>4, <2>2, <3>4 DEF q
    <3> QED  BY <1>1, <2>6, <3>5 DEF Follows
  <2>7. ASSUME Lost(c) PROVE Lost(c)'
    <3>1. ~WellFormed(sent[c])  BY <1>4, <2>7 DEF Lost, Astray
    <3> QED  BY <1>1, <2>7, <2>b, <3>1 DEF Lost
  <2>8. (Follows(c) \/ Lost(c))'  BY <2>6, <2>7 DEF Undisturbed
  <2> QED  BY <1>2, <2>4, <2>5, <2>8 DEF Undisturbed
<1> QED  BY <1>3, <1>4

(* No step lets one request disturb another, unless request lines are      *)
(* parsed by turns.                                                        *)
LEMMA NextUndisturbed ==
  ASSUME ~LinesInterleave, TypeOK, SentStays, Undisturbed, \A c \in Conns : InStep(c), [Next]_vars
  PROVE  Undisturbed'
<1>1. ASSUME NEW c \in Conns, StartRead(c) PROVE Undisturbed'
  <2>1. /\ parser' = parser /\ pos' = pos /\ input' = input /\ init_uri' = init_uri
        /\ sent' = sent /\ init_protocol' = init_protocol
        /\ reading' = c /\ \A d \in Conns \ {c} : ~InFirstLine(parser[d])
    BY <1>1 DEF StartRead
  <2>2. Alone'  BY <2>1 DEF Alone
  <2>3. FlagTells'  BY <2>1 DEF Undisturbed, FlagTells, MidUri, MidProtocol, LineBroken
  <2>4. \A d \in Conns : (Follows(d) \/ Lost(d))'
    BY <2>1 DEF Undisturbed, Follows, Lost, Astray, LineBroken
  <2> QED  BY <2>2, <2>3, <2>4 DEF Undisturbed
<1>2. CASE UNCHANGED vars
  <2>1. /\ parser' = parser /\ pos' = pos /\ input' = input /\ init_uri' = init_uri
        /\ sent' = sent /\ init_protocol' = init_protocol /\ reading' = reading
    BY <1>2 DEF vars
  <2>2. Alone'  BY <2>1 DEF Undisturbed, Alone
  <2>3. FlagTells'  BY <2>1 DEF Undisturbed, FlagTells, MidUri, MidProtocol, LineBroken
  <2>4. \A d \in Conns : (Follows(d) \/ Lost(d))'
    BY <2>1 DEF Undisturbed, Follows, Lost, Astray, LineBroken
  <2> QED  BY <2>2, <2>3, <2>4 DEF Undisturbed
<1> QED  BY <1>1, <1>2, ByteUndisturbed, EndReadUndisturbed DEF Next

(* However the bytes of the requests are cut into reads, and however the   *)
(* reads of the connections follow one another, each request is parsed as  *)
(* if it had come alone and at once, as long as no two request lines are   *)
(* parsed by turns; except a request with more spaces than one, which what *)
(* a request line that broke off left in the statics can disturb: a        *)
(* well-formed one is then refused.                                        *)
THEOREM ParsedAlone ==
  ASSUME ~LinesInterleave
  PROVE  Spec => []Undisturbed
<1> DEFINE Inv == TypeOK /\ SentStays /\ \A c \in Conns : InStep(c)
<1>1. Init => Undisturbed  BY InitUndisturbed, InitSound
<1>2. Inv /\ Undisturbed /\ [Next]_vars => Undisturbed'  BY NextUndisturbed
<1>3. Spec => []Inv  BY Invariant
<1> HIDE DEF Inv
<1> QED  BY <1>1, <1>2, <1>3, PTL DEF Spec

(* What CutsDoNotMatter says of two connections that send the same.        *)
LEMMA SameOutcome ==
  ASSUME TypeOK, SentStays, Undisturbed, \A c \in Conns : InStep(c),
         NEW c \in Conns, NEW d \in Conns,
         sent[c] = sent[d], ~TooLong(sent[c]), Unharmed(sent[c]), ready[c], ready[d]
  PROVE  parser[c] = parser[d]
<1> DEFINE s == input[c]
           T == Parsed(s)
           End(x) == [x EXCEPT !.step = "END"]
<1>1. s = Bytes(sent[c]) /\ input[d] = s /\ sent[c] \in Request  BY DEF SentStays
<1>2. pos[c] \in Nat /\ pos[d] \in Nat /\ Len(s) \in Nat /\ s \in Seq(Token)  BY DEF TypeOK
<1>3. parser[c].step = "END" /\ parser[d].step = "END"  BY DEF InStep
<1>4. /\ pos[c] <= Len(s) /\ pos[d] <= Len(s)
      /\ parser[c] = T[pos[c]] \/ (T[pos[c]].step = "BODY_LENGTH_END" /\ parser[c] = End(T[pos[c]]))
      /\ parser[d] = T[pos[d]] \/ (T[pos[d]].step = "BODY_LENGTH_END" /\ parser[d] = End(T[pos[d]]))
      /\ \A k \in 0..pos[c] - 1 : T[k].step # "END"
      /\ \A k \in 0..pos[d] - 1 : T[k].step # "END"
  <2>1. Follows(c) /\ Follows(d)  BY DEF Undisturbed, Unharmed, Lost
  <2> QED  BY <1>1, <2>1 DEF Follows
<1>5. \A k \in 0..Len(s) : T[k].step = "BODY_LENGTH_END" => k = Len(s)
  BY <1>1, LengthEnds
<1> HIDE DEF T, s, End
<1>6. T[pos[c]].step \in {"END", "BODY_LENGTH_END"} /\ T[pos[d]].step \in {"END", "BODY_LENGTH_END"}
  BY <1>3, <1>4
<1>7. ~(pos[c] < pos[d])
  <2> SUFFICES ASSUME pos[c] < pos[d] PROVE FALSE  OBVIOUS
  <2>1. pos[c] \in 0..pos[d] - 1 /\ pos[c] \in 0..Len(s) /\ pos[c] # Len(s)  BY <1>2, <1>4
  <2> QED  BY <1>4, <1>5, <1>6, <2>1
<1>8. ~(pos[d] < pos[c])
  <2> SUFFICES ASSUME pos[d] < pos[c] PROVE FALSE  OBVIOUS
  <2>1. pos[d] \in 0..pos[c] - 1 /\ pos[d] \in 0..Len(s) /\ pos[d] # Len(s)  BY <1>2, <1>4
  <2> QED  BY <1>4, <1>5, <1>6, <2>1
<1>9. pos[c] = pos[d]  BY <1>2, <1>7, <1>8
<1> QED  BY <1>3, <1>4, <1>9

(* Two clients that send the same bytes are treated the same, however      *)
(* their bytes were cut into reads; except that bytes after the announced  *)
(* length are refused only in the read that ends the body, and that more   *)
(* spaces than one may be refused after a request line that broke off.     *)
THEOREM CutsNeverMatter ==
  ASSUME ~LinesInterleave
  PROVE  Spec => []CutsDoNotMatter
<1> DEFINE Inv == TypeOK /\ SentStays /\ \A c \in Conns : InStep(c)
<1>1. Inv /\ Undisturbed => CutsDoNotMatter
  BY SameOutcome DEF CutsDoNotMatter
<1>2. Spec => []Inv  BY Invariant
<1>3. Spec => []Undisturbed  BY ParsedAlone
<1> HIDE DEF Inv
<1> QED  BY <1>1, <1>2, <1>3, PTL
=============================================================================
